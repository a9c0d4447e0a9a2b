------------------------------- MODULE Hybrid -------------------------------
(***************************************************************************)
(* Hybrid mutexes (MUTEX_TYPE hybrid): libs/mutex locks and unlocks a word *)
(* of user memory with a compare-and-set, and makes a system call only     *)
(* when that fails; mutex_t::hybrid_lock() and hybrid_unlock() of          *)
(* pistachio/src/mutex.cc keep the word and the kernel's mutex together.   *)
(* The kernel tracks the holder of a mutex only while threads wait for it. *)
(*                                                                         *)
(* A thread may lose the processor between any two accesses to the word;   *)
(* the compare-and-set itself is atomic.  The word's page is mapped, and   *)
(* the kernel mutexes exist as long as the library's.                      *)
(***************************************************************************)
EXTENDS Thread

VARIABLES word,     \* the state word of each mutex
          at,       \* where in libs/mutex a thread is, and for which mutex
          held,     \* the mutexes that a thread's program has locked
          uncontended_hybrid  \* the threads whose flag of this name is set

userVars == <<word, at, held, uncontended_hybrid>>
allVars == <<vars, userVars>>

\* MUTEX_FREE, and the word of a holder with or without the contention bit.
Free == [holder |-> NULL, contended |-> FALSE]
HeldBy(t, contended) == [holder |-> t, contended |-> contended]

\* A thread outside of the library.
Program == <<"program", NULL>>

HybridInit ==
    /\ Init
    /\ word = [m \in Mutexes |-> Free]
    /\ at = [t \in Threads |-> Program]
    /\ held = [t \in Threads |-> {}]
    /\ uncontended_hybrid = {}

\* The kernel's snapshot with what the kernel reads and writes for its user.
HS == [tcb |-> tcb, sched |-> sched, blocked |-> blocked, mutex |-> mutex, failed |-> failed,
       word |-> word, at |-> at, held |-> held, uncontended |-> uncontended_hybrid]

HCommit(s) ==
    /\ Commit(s)
    /\ word' = s.word
    /\ at' = s.at
    /\ held' = s.held
    /\ uncontended_hybrid' = s.uncontended

-----------------------------------------------------------------------------
(* The kernel                                                              *)

\* sys_mutex_success() and sys_mutex_failure(): the library asserts that the
\* call succeeded, and goes back to its caller.
ReturnFrom(s, t, ok) ==
    LET m == s.at[t][2]
    IN [Require(s, ok, "assert(result)")
        EXCEPT !.at[t] = Program,
               !.held[t] = IF s.at[t][1] = "hybrid_lock" THEN @ \cup {m} ELSE @ \ {m}]

\* mutex_t::is_contended()
IsContended(s, m) == s.blocked[<<"mutex", m>>] # <<>>

\* Seeded fault: the mutex is on its holder's list, and gives it no priority.
SetHolderNoDonatee(s, m, holder) == EnqueueHeld(s, m, holder)

\* mutex_t::set_holder(): the kernel begins to track a holder.
SetHolder(s, m, holder) ==
    BecomeDonatee(EnqueueHeld(Require(s, ~IsContended(s, m), "set_holder: threads are blocked"),
                              m, holder),
                  m, holder)

\* The end of hybrid_lock() for a thread that has to wait.
WaitHybrid(s, m) ==
    LET cur == s.sched.current
    IN DeactivateSched([Block(s, <<"mutex", m>>, cur) EXCEPT !.tcb[cur].sys = m],
                       "waiting_mutex", "hybrid_mutex_wakeup")

\* Seeded fault: the word is not marked as contended before the wait.
HybridLockUnmarked(s, m) ==
    LET cur == s.sched.current
        holder == s.word[m].holder
    IN IF s.mutex[m].holder = cur THEN ReturnFrom(s, cur, FALSE)
       ELSE IF s.mutex[m].holder = NULL /\ holder = NULL
       THEN ReturnFrom([s EXCEPT !.word[m] = HeldBy(cur, FALSE)], cur, TRUE)
       ELSE WaitHybrid(IF s.mutex[m].holder = NULL THEN SetHolder(s, m, holder) ELSE s, m)

\* hybrid_lock()
HybridLock(s0, m) ==
    LET cur == s0.sched.current
        s == [s0 EXCEPT !.uncontended = @ \ {cur}]
        holder_kernel == s.mutex[m].holder
        holder_user == s.word[m].holder
    IN CASE holder_kernel = cur -> ReturnFrom(s, cur, FALSE)
         [] holder_kernel = NULL /\ holder_user = NULL ->
              ReturnFrom([s EXCEPT !.word[m] = HeldBy(cur, FALSE)], cur, TRUE)
         [] holder_kernel = NULL /\ holder_user # NULL ->
              IF ~s.tcb[holder_user].exists
              THEN ReturnFrom([s EXCEPT !.word[m] = HeldBy(cur, FALSE)], cur, TRUE)
              ELSE WaitHybrid(SetHolder([s EXCEPT !.word[m].contended = TRUE], m, holder_user), m)
         [] OTHER -> WaitHybrid(s, m)

\* Seeded fault: the kernel goes on tracking a holder nobody waits for.
HandOverTracked(s, m, new_holder) ==
    [Release(s, m) EXCEPT !.word[m] = HeldBy(new_holder, IsContended(Release(s, m), m))]

\* Seeded fault: the word is free until the new holder wakes up.
HandOverFree(s, m, new_holder) ==
    LET released == Release(s, m)
        marked(r) == [r EXCEPT !.word[m] = Free]
    IN IF IsContended(released, m) THEN marked(released)
       ELSE [marked(Release(released, m)) EXCEPT !.uncontended = @ \cup {new_holder}]

\* The part of hybrid_unlock() that gives the mutex to the highest waiter: if it
\* was the last one, the kernel stops tracking the mutex.
HandOver(s, m, new_holder) ==
    LET released == Release(s, m)
        marked(r) == [r EXCEPT !.word[m] = HeldBy(new_holder, IsContended(r, m))]
    IN IF IsContended(released, m) THEN marked(released)
       ELSE [marked(Release(released, m)) EXCEPT !.uncontended = @ \cup {new_holder}]

\* hybrid_unlock()
HybridUnlock(s0, m) ==
    LET cur == s0.sched.current
        s == [s0 EXCEPT !.uncontended = @ \ {cur}]
        freed(r) == ReturnFrom([r EXCEPT !.word[m] = Free], cur, TRUE)
        new_holder == NewHolder(s, m)
    IN CASE s.mutex[m].holder = NULL /\ s.word[m].holder = cur -> freed(s)
         [] s.mutex[m].holder = cur /\ new_holder = NULL -> freed(Release(s, m))
         [] s.mutex[m].holder = cur /\ new_holder # NULL ->
              ActivateSched(ReturnFrom(HandOver(s, m, new_holder), cur, TRUE), new_holder, "user")
         [] OTHER -> ReturnFrom(s, cur, FALSE)

\* hybrid_mutex_wakeup(): the word is written again, with the contention of now.
HybridMutexWakeup ==
    /\ Continue("hybrid_mutex_wakeup")
    /\ LET m == tcb[current].sys
           s == [SetCont(HS, current, "user") EXCEPT !.tcb[current].sys = NULL]
           contended == IsContended(s, m)
           told == [s EXCEPT !.word[m] = HeldBy(current, contended),
                             !.uncontended = IF contended THEN @ ELSE @ \cup {current}]
           ok == mutex[m].holder = current \/ current \in told.uncontended
       IN HCommit(IF m = NULL THEN ReturnFrom(s, current, FALSE)
                  ELSE ReturnFrom(Require(told, ok, "hybrid_mutex_wakeup: not the holder"),
                                  current, TRUE))

-----------------------------------------------------------------------------
(* libs/mutex                                                              *)

\* The current thread executes its program or the library, at place p.
Executes(p) == InUser(S) /\ failed = {} /\ at[current] = p

\* A step of the current thread's user code, to place p.
UserStep(s, p) == HCommit([s EXCEPT !.at[current] = p])

\* okl4_libmutex_lock() begins with the assertion that its caller does not
\* hold the mutex, which it reads from the word.
BeginLock(m) ==
    /\ Executes(Program) /\ m \notin held[current]
    /\ UserStep(Require(HS, word[m].holder # current, "assert(!am_holder)"), <<"lock", m>>)

\* The compare-and-set of okl4_libmutex_lock()
LockWord(m) ==
    /\ Executes(<<"lock", m>>)
    /\ IF word[m] = Free
       THEN UserStep([HS EXCEPT !.word[m] = HeldBy(current, FALSE), !.held[current] = @ \cup {m}],
                     Program)
       ELSE UserStep(HS, <<"hybrid_lock", m>>)

\* okl4_libmutex_trylock()
TryLock(m) ==
    /\ Executes(Program) /\ m \notin held[current]
    /\ word[m] = Free
    /\ UserStep([HS EXCEPT !.word[m] = HeldBy(current, FALSE), !.held[current] = @ \cup {m}], Program)

\* okl4_libmutex_unlock() begins with the assertion that its caller is the holder.
BeginUnlock(m) ==
    /\ Executes(Program) /\ m \in held[current]
    /\ UserStep(Require(HS, word[m].holder = current, "assert(am_holder)"), <<"unlock", m>>)

\* The compare-and-set of okl4_libmutex_unlock(): it fails if the word is
\* marked as contended.
UnlockWord(m) ==
    /\ Executes(<<"unlock", m>>)
    /\ IF word[m] = HeldBy(current, FALSE)
       THEN UserStep([HS EXCEPT !.word[m] = Free, !.held[current] = @ \ {m}], Program)
       ELSE UserStep(HS, <<"hybrid_unlock", m>>)

\* L4_HybridLock() and L4_HybridUnlock(): SYS_MUTEX with the hybrid flag
SysHybridLock(m) ==
    Executes(<<"hybrid_lock", m>>) /\ mutex[m].exists /\ HCommit(HybridLock(HS, m))
SysHybridUnlock(m) ==
    Executes(<<"hybrid_unlock", m>>) /\ mutex[m].exists /\ HCommit(HybridUnlock(HS, m))

-----------------------------------------------------------------------------
(* The composition with the scheduler                                      *)

MutexSteps ==
    \/ HybridMutexWakeup
    \/ \E m \in Mutexes :
         \/ BeginLock(m)
         \/ LockWord(m)
         \/ TryLock(m)
         \/ BeginUnlock(m)
         \/ UnlockWord(m)
         \/ SysHybridLock(m)
         \/ SysHybridUnlock(m)

\* System calls are made by the program; the timer interrupts the library too.
OtherSteps ==
    \/ InitAllThreads /\ UNCHANGED userVars
    \/ Executes(Program) /\ SysYield /\ UNCHANGED userVars
    \/ \E dest \in Threads, prio \in Prio :
         Executes(Program) /\ SysSchedule(dest, prio) /\ UNCHANGED userVars
    \/ \E expired \in BOOLEAN : HandleTimerInterrupt(expired) /\ UNCHANGED userVars

HybridNext == MutexSteps \/ OtherSteps

HybridSpec == HybridInit /\ [][HybridNext]_allVars

\* A thread is deleted wherever it is; its program and what it held are gone.
Delete(t) ==
    /\ Executes(Program) /\ SysThreadDelete(t)
    /\ at' = [at EXCEPT ![t] = Program]
    /\ held' = [held EXCEPT ![t] = {}]
    /\ UNCHANGED <<word, uncontended_hybrid>>

HybridDeleteSpec == HybridInit /\ [][HybridNext \/ \E t \in Threads : Delete(t)]_allVars

-----------------------------------------------------------------------------
(* Properties                                                              *)

\* The threads that were given the mutex and have yet to run hybrid_mutex_wakeup().
Woken(m) ==
    {t \in Threads : tcb[t].state = "running" /\ tcb[t].cont = "hybrid_mutex_wakeup"
                     /\ tcb[t].sys = m}

Protocol(m) == INSTANCE HybridWord WITH
    holder <- word[m].holder, contended <- word[m].contended, tracked <- mutex[m].holder,
    waiting <- Members(blocked[<<"mutex", m>>]), woken <- Woken(m),
    inside <- {t \in Threads : m \in held[t]}

\* Each mutex follows the protocol of HybridWord (Protocol(m)!Spec for every m), for
\* which mutual exclusion is proved: however compare-and-sets, system calls, wakeups
\* and preemptions interleave, one thread at a time is inside, and only the
\* thread inside lets another in.
ImplementsHybrid ==
    /\ \A m \in Mutexes : Protocol(m)!Init
    /\ [][\A m \in Mutexes : Protocol(m)!Next \/ UNCHANGED Protocol(m)!vars]_allVars

\* The word and the kernel agree: the kernel tracks a mutex exactly while threads
\* wait for it, exactly then the word is marked as contended (so that the holder's
\* compare-and-set fails and it comes to wake them), and the holder the kernel has
\* is the holder in the word.
ContentionKnown ==
    \A m \in Mutexes :
        /\ word[m].contended <=> blocked[<<"mutex", m>>] # <<>>
        /\ mutex[m].holder = IF word[m].contended THEN word[m].holder ELSE NULL

\* A thread that locked without the kernel inherits all the same: whoever holds
\* the word is at least as high as every thread that waits for the mutex.
HolderInherits ==
    \A m \in Mutexes, t \in Threads :
        tcb[t].waiting_for = <<"mutex", m>>
        => tcb[t].effective_prio <= tcb[word[m].holder].effective_prio

\* No assertion of the kernel or of libs/mutex fails: the calls that the library
\* makes when its compare-and-set has failed always succeed.
NoAssertionFails == failed = {}
=============================================================================
