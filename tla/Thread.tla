------------------------------- MODULE Thread -------------------------------
(***************************************************************************)
(* The life of a thread (pistachio/src/thread.cc): SYS_THREAD_CONTROL      *)
(* creates a thread that waits for its pager's first message, and deletes  *)
(* a thread whatever it and the threads that wait for it are doing.        *)
(* Thread capabilities are abstracted to exists: every thread of an        *)
(* instance may name every thread there is.                                *)
(***************************************************************************)
EXTENDS Ipc

CONSTANT DEFAULT_PRIORITY   \* the priority of a new thread

\* tcb_t::unwind(): whatever t does, it stops and becomes aborted.
Unwind(s, t, partner) ==
    LET state == s.tcb[t].state
        aborted(r) == SetState(r, t, "aborted")
    IN CASE state = "running" -> Deactivate(s, t, "aborted")
         [] state = "aborted" -> s
         [] state = "halted" -> aborted(s)
         [] state = "polling" ->
              IF partner \in Threads THEN aborted(DequeueSend(s, partner, t))
              ELSE Require(s, FALSE, "unwind: polling without a partner")
         [] state \in {"waiting_forever", "waiting_notify"} -> aborted(RemoveDependency(s, t))
         [] state = "waiting_mutex" ->
              aborted([Unblock(s, <<"mutex", s.tcb[t].sys>>, t) EXCEPT !.tcb[t].sys = NULL])

\* Seeded fault: the thread is told of the error, and never runs to see it.
FailIpcSilently(s, t) == SetCont(s, t, "handle_ipc_error")

\* notify(handle_ipc_error) and activate() of a thread whose IPC was unwound.
FailIpc(s, t) == Activate(SetCont(s, t, "handle_ipc_error"), t)

\* Each thread of the queue sp of dying's endpoint is unwound and told.
RECURSIVE CancelQueue(_, _, _)
CancelQueue(s, sp, dying) ==
    IF s.blocked[sp] = <<>> \/ s.failed # {} THEN s
    ELSE LET t == Head(s.blocked[sp])
             checked == Require(s, t # dying, "cancel_ipcs: waits for itself")
         IN CancelQueue(FailIpc(Unwind(checked, t, dying), t), sp, dying)

\* Seeded fault: the threads that receive from the thread stay blocked.
CancelIpcsSendersOnly(s, t) ==
    LET partner == s.tcb[t].partner
        own == IF partner \in Threads \cup {NULL} THEN Unwind(s, t, partner) ELSE s
    IN CancelQueue(own, <<"send", t>>, t)

\* cancel_ipcs(): t's own IPC first, then those of its senders and receivers.
CancelIpcs(s, t) ==
    LET partner == s.tcb[t].partner
        own == IF partner \in Threads \cup {NULL} THEN Unwind(s, t, partner) ELSE s
    IN CancelQueue(CancelQueue(own, <<"send", t>>, t), <<"recv", t>>, t)

\* release_mutexes() of a thread that is aborted already.
RECURSIVE ReleaseMutexes(_, _)
ReleaseMutexes(s, t) ==
    IF s.tcb[t].mutexes = <<>> \/ s.failed # {} THEN s
    ELSE LET m == Head(s.tcb[t].mutexes)
             new_holder == NewHolder(s, m)
             released == Release(s, m)
         IN ReleaseMutexes(IF new_holder = NULL THEN released ELSE Activate(released, new_holder), t)

\* delete_tcb(): nothing of the kernel refers to t any more, and it is freed.
DeleteTcb(s, t) ==
    LET unwound == Unwind(CancelIpcs(s, t), t, NULL)
        checked == Require(unwound, ~IsReady(unwound, t), "release_mutexes: on the ready queue")
        released == ReleaseMutexes(checked, t)
        scheduled == IF released.sched.active_schedule = t
                     THEN [released EXCEPT !.sched.active_schedule = released.sched.current]
                     ELSE released
    IN [scheduled EXCEPT !.tcb[t] = FreeTcb]

\* Seeded fault: a new thread's continuation is not set.
NewTcbStaleCont(pager) ==
    [FreeTcb EXCEPT !.exists = TRUE, !.base_prio = DEFAULT_PRIORITY,
                    !.effective_prio = DEFAULT_PRIORITY, !.state = "waiting_forever",
                    !.partner = pager, !.saved = TRUE, !.cont = NULL]

\* init(), and fake_wait_for_startup(): blocked as if it waited for its pager,
\* but in no queue, with the state to start from saved.
NewTcb(pager) ==
    [FreeTcb EXCEPT !.exists = TRUE, !.base_prio = DEFAULT_PRIORITY,
                    !.effective_prio = DEFAULT_PRIORITY, !.state = "waiting_forever",
                    !.partner = pager, !.saved = TRUE, !.cont = "thread_startup"]

-----------------------------------------------------------------------------
(* System calls and continuations                                          *)

\* SYS_THREAD_CONTROL that creates thread t.  Every error path undoes what it
\* did.  Resources, if it sets any, end the call with a schedule().
SysThreadCreate(t, pager, resources) ==
    /\ Trap("thread_control")
    /\ ~tcb[t].exists
    /\ pager # NULL => tcb[pager].exists
    /\ LET created == [S EXCEPT !.tcb[t] = NewTcb(pager)]
       IN Commit(IF resources THEN Schedule(created, "user", FALSE) ELSE created)

\* SYS_THREAD_CONTROL that deletes thread t; a thread cannot delete itself.
SysThreadDelete(t) ==
    /\ Trap("thread_control")
    /\ tcb[t].exists /\ t # current
    /\ Commit(Schedule(DeleteTcb(S, t), "user", FALSE))

\* thread_startup(): the pager's message has started the thread.
ThreadStartup ==
    /\ Continue("thread_startup")
    /\ Commit(ActivateContinuation([S EXCEPT !.tcb[current].saved = FALSE], "user"))

\* handle_ipc_error(): restore_state() if the thread was not started yet.
HandleIpcError ==
    /\ Continue("handle_ipc_error")
    /\ LET restored == [S EXCEPT !.tcb[current].saved = FALSE, !.tcb[current].partner = NULL]
       IN Commit(ReturnIpc(IF tcb[current].saved THEN restored ELSE S))
=============================================================================
