----------------------------- MODULE NanoThread -----------------------------
(***************************************************************************)
(* The life of the nanokernel's threads and their interrupts               *)
(* (nanokernel/src/sys_thread.c, sys_interrupt.c; interrupt_arch.c).       *)
(***************************************************************************)
EXTENDS NanoIpc

\* sys_thread_create(): the first free tcb.  Only the fields of the context frame and
\* of the signals are set; the others are as the last thread of this tcb left them.
ThreadCreate(s, prio) ==
    LET new_tcb == Head(s.free)
        taken == Require([s EXCEPT !.free = Tail(@)], s.tcb[new_tcb].state = "HALTED",
                         "thread_create: in use")
    IN IF s.free = <<>> THEN s
       ELSE ActivateSchedule([taken EXCEPT !.tcb[new_tcb] = [@ EXCEPT !.priority = prio,
                                                                      !.signals = {}]],
                             new_tcb)

\* thread_reap(): the tcb becomes the first of the free list.
ThreadReap(s, t) ==
    [SetState(Require(s, s.tcb[t].state = "ZOMBIE", "thread_reap"), t, "HALTED")
     EXCEPT !.free = <<t>> \o @]

\* Seeded fault: a thread that exits stays the handler of its interrupt.
ReleaseNoInterrupt(s, t) == s

\* sys_interrupt_pre_thread_delete_callback()
ReleaseInterrupt(s, t) ==
    LET i == s.tcb[t].registered_interrupt
    IN IF i = NULL THEN s
       ELSE [s EXCEPT !.handler[i] = NULL, !.tcb[t].registered_interrupt = NULL]

\* sys_thread_exit(): the thread is reaped at once if somebody has joined it.
ThreadExit(s) ==
    LET cur == s.current
        zombie == DeactivateSelf(ReleaseInterrupt(s, cur), "ZOMBIE")
        joiner == s.tcb[cur].joiner
    IN DoSchedule(IF joiner = NULL THEN zombie
                  ELSE [Activate(ThreadReap(zombie, cur), joiner) EXCEPT !.tcb[cur].joiner = NULL])

\* Seeded fault: the last thread that joins is the one that is woken.
ThreadJoinReplaces(s, dest) ==
    IF s.tcb[dest].state = "ZOMBIE" THEN ThreadReap(s, dest)
    ELSE IF s.tcb[dest].state = "HALTED" THEN s
    ELSE [DeactivateSelfSchedule(s, "WAIT_JOIN") EXCEPT !.tcb[dest].joiner = s.current]

\* sys_thread_join(): an error for a halted thread, or one that is joined already.
ThreadJoin(s, dest) ==
    IF s.tcb[dest].state = "ZOMBIE" THEN ThreadReap(s, dest)
    ELSE IF s.tcb[dest].state = "HALTED" \/ s.tcb[dest].joiner # NULL THEN s
    ELSE [DeactivateSelfSchedule(s, "WAIT_JOIN") EXCEPT !.tcb[dest].joiner = s.current]

\* sys_interrupt_wait(): sleep, then let the interrupt through.
InterruptWait(s) ==
    [DeactivateSelfSchedule(s, "WAIT_INT")
     EXCEPT !.unmasked = @ \cup {s.tcb[s.current].registered_interrupt}]

\* c_handle_interrupt() of an interrupt that the controller has let through.
HandleInterrupt(s, i) ==
    LET t == s.handler[i]
        ok == t # NULL /\ s.tcb[t].state = "WAIT_INT"
    IN IF ~ok THEN Require(s, FALSE, "handle_interrupt: spurious interrupt")
       ELSE ActivateSchedule([s EXCEPT !.unmasked = @ \ {i}], t)

-----------------------------------------------------------------------------

SysThreadCreate(prio) == InUser /\ Commit(ThreadCreate(S, prio))

SysThreadExit == InUser /\ Commit(ThreadExit(S))

SysThreadJoin(dest) == InUser /\ Commit(ThreadJoin(S, dest))

SysInterruptWait ==
    InUser /\ tcb[current].registered_interrupt # NULL /\ Commit(InterruptWait(S))

\* sys_interrupt_register(): EBUSY if either has a partner already.
SysInterruptRegister(i) ==
    /\ InUser
    /\ handler[i] = NULL /\ tcb[current].registered_interrupt = NULL
    /\ Commit([S EXCEPT !.handler[i] = current, !.tcb[current].registered_interrupt = i])

SysInterruptDeregister(i) ==
    /\ InUser
    /\ handler[i] = current
    /\ Commit([S EXCEPT !.handler[i] = NULL, !.tcb[current].registered_interrupt = NULL])

\* An interrupt is taken from user code or from the idle loop.
TakeInterrupt(i) ==
    /\ current # NULL /\ failed = {}
    /\ i \in unmasked
    /\ Commit(HandleInterrupt(S, i))
=============================================================================
