------------------------------- MODULE Mutex --------------------------------
(***************************************************************************)
(* mutex_t (pistachio/src/mutex.cc): kernel mutexes that a thread locks    *)
(* and unlocks with SYS_MUTEX, and creates and deletes with                *)
(* SYS_MUTEX_CONTROL.  An unlock hands the mutex to the highest of the     *)
(* blocked threads.  The hybrid operations are in module Hybrid.           *)
(***************************************************************************)
EXTENDS SyncPoint

EnqueueHeld(s, m, t) == [s EXCEPT !.tcb[t].mutexes = EnqueueListTail(@, m)]
DequeueHeld(s, m, t) == [s EXCEPT !.tcb[t].mutexes = DequeueList(@, m)]

\* acquire() of a mutex that nobody holds
Acquire(s, m, t) ==
    BecomeDonatee(EnqueueHeld(Require(s, s.tcb[t].waiting_for = NULL, "acquire: blocked"), m, t), m, t)

\* The blocked thread that a release makes the holder.
NewHolder(s, m) ==
    IF s.blocked[<<"mutex", m>>] = <<>> THEN NULL ELSE Head(s.blocked[<<"mutex", m>>])

\* Seeded fault: the blocked thread is woken to take the mutex, which is free
\* until it does.
ReleaseWithoutHandover(s, m) ==
    LET holder == s.mutex[m].holder
        new_holder == NewHolder(s, m)
        released == ReleaseDonatee(DequeueHeld(s, m, holder), m)
    IN IF new_holder = NULL THEN released ELSE Unblock(released, <<"mutex", m>>, new_holder)

\* release(): the highest blocked thread, if any, becomes the holder.
Release(s, m) ==
    LET holder == s.mutex[m].holder
        new_holder == NewHolder(s, m)
        released == ReleaseDonatee(
                      DequeueHeld(Require(s, holder # NULL /\ ~IsReady(s, holder), "release"), m, holder), m)
    IN IF new_holder = NULL THEN released
       ELSE BecomeDonatee(
              Unblock(EnqueueHeld(
                        Require(released, s.tcb[new_holder].state = "waiting_mutex",
                                "release: new holder does not wait"),
                        m, new_holder),
                      <<"mutex", m>>, new_holder),
              m, new_holder)

\* lock(): EMUTEX_BUSY for a try or for the holder itself leaves all as it is.
Lock(s, m, blocking) ==
    LET cur == s.sched.current
        holder == s.mutex[m].holder
    IN IF holder = NULL THEN Acquire(s, m, cur)
       ELSE IF ~blocking \/ holder = cur THEN s
       ELSE DeactivateSched([Block(s, <<"mutex", m>>, cur) EXCEPT !.tcb[cur].sys = m],
                            "waiting_mutex", "mutex_wakeup")

\* Seeded fault: a thread that does not hold the mutex can unlock it.
UnlockByAnyone(s, m) ==
    LET new_holder == NewHolder(s, m)
        released == Release(s, m)
    IN IF s.mutex[m].holder = NULL THEN s
       ELSE IF new_holder = NULL THEN released
       ELSE ActivateSched(released, new_holder, "user")

\* unlock(): EMUTEX_BUSY unless current holds the mutex.
Unlock(s, m) ==
    LET new_holder == NewHolder(s, m)
        released == Release(s, m)
    IN IF s.mutex[m].holder # s.sched.current THEN s
       ELSE IF new_holder = NULL THEN released
       ELSE ActivateSched(released, new_holder, "user")

\* Whether a MUTEX_CONTROL_DELETE finds a mutex it may delete.
Deletable(s, m) == s.mutex[m].exists /\ s.mutex[m].holder = NULL

\* destroy(): the mutex, which current holds, leaves its holder's list.
Destroy(s, m) ==
    DequeueHeld(Require(s, s.blocked[<<"mutex", m>>] = <<>>, "destroy: threads are blocked"),
                m, s.mutex[m].holder)

\* mutex_delete() of a mutex that current has acquired for it; it is freed.
DeleteMutex(s, m) ==
    [Destroy(Acquire(s, m, s.sched.current), m)
     EXCEPT !.mutex[m] = [exists |-> FALSE, holder |-> NULL]]

CreateMutex(s, m) == [s EXCEPT !.mutex[m] = [exists |-> TRUE, holder |-> NULL]]

-----------------------------------------------------------------------------
(* System calls                                                            *)

\* SYS_MUTEX with the lock flag
SysMutexLock(m, blocking) ==
    Trap("mutex") /\ mutex[m].exists /\ Commit(Lock(S, m, blocking))

\* SYS_MUTEX without the lock flag
SysMutexUnlock(m) ==
    Trap("mutex") /\ mutex[m].exists /\ Commit(Unlock(S, m))

\* mutex_wakeup(): the mutex was handed over, or the wait was cancelled.
MutexWakeup ==
    /\ Continue("mutex_wakeup")
    /\ LET m == tcb[current].sys
           returned == [SetCont(S, current, "user") EXCEPT !.tcb[current].sys = NULL]
       IN Commit(Require(returned, m = NULL \/ mutex[m].holder = current,
                         "mutex_wakeup: not the holder"))

\* SYS_MUTEX_CONTROL: the delete comes first; the test that the identifier is
\* free uses the lookup made before it.
SysMutexControl(m, delete, create) ==
    /\ Trap("mutex_control")
    /\ IF delete /\ ~Deletable(S, m) THEN UNCHANGED vars
       ELSE LET s == IF delete THEN DeleteMutex(S, m) ELSE S
            IN Commit(IF create /\ ~mutex[m].exists THEN CreateMutex(s, m) ELSE s)
=============================================================================
