------------------------------ MODULE NanoIpc -------------------------------
(***************************************************************************)
(* Messages and signals between threads of the nanokernel                  *)
(* (nanokernel/src/sys_ipc.c, sys_signal.c).  A message is its rendezvous; *)
(* the registers that are copied are left out.                             *)
(***************************************************************************)
EXTENDS NanoFutex

\* is_ready_to_receive()
IsReadyToReceive(s, src, dest) ==
    s.tcb[dest].state = "WAIT_IPC_RECV" /\ s.tcb[dest].waits_for \in {src, NULL}

EnqueueSend(s, dest, src) ==
    Require([s EXCEPT !.tcb[dest].senders = EnqueueListTail(@, src)], Unlinked(s, src),
            "enqueue_send: in another list")

\* The first half of do_send(): dest takes the message and runs; a caller waits for
\* its answer.
SendNow(s, dest, is_call) ==
    IF ~is_call THEN ActivateSchedule(s, dest)
    ELSE DoSchedule(DeactivateSelf(WaitFor(Activate(s, dest), s.current, dest), "WAIT_IPC_RECV"))

\* The second half: dest is not ready.
SendLater(s, dest, is_call) ==
    SleepOn(EnqueueSend(s, dest, s.current),
            IF is_call THEN "WAIT_IPC_CALL" ELSE "WAIT_IPC_SEND", dest)

\* do_send()
DoSend(s, dest, is_call, is_non_blocking) ==
    IF IsReadyToReceive(s, s.current, dest) THEN SendNow(s, dest, is_call)
    ELSE IF is_non_blocking THEN s
    ELSE SendLater(s, dest, is_call)

\* Seeded fault: a receiver sleeps without a look at the threads that wait to send.
RecvAlwaysSleeps(s) == SleepOn(s, "WAIT_IPC_RECV", NULL)

\* sys_ipc_recv(): the first sender, whoever it is; the source that the caller names
\* is not looked at, so every receive is an open wait.
Recv(s) ==
    LET cur == s.current
        src == Head(s.tcb[cur].senders)
        dequeued == [s EXCEPT !.tcb[cur].senders = Tail(@)]
    IN IF s.tcb[cur].senders = <<>> THEN SleepOn(s, "WAIT_IPC_RECV", NULL)
       ELSE IF s.tcb[src].state = "WAIT_IPC_CALL"
       THEN SetState(Require(dequeued, s.tcb[src].waits_for = cur, "ipc_recv: caller"),
                     src, "WAIT_IPC_RECV")
       ELSE ActivateSchedule(dequeued, src)

\* sys_signal_wait(): take what is pending in the mask, or sleep.
SignalWait(s, mask) ==
    IF s.tcb[s.current].signals \cap mask # {}
    THEN [s EXCEPT !.tcb[s.current].signals = @ \ mask]
    ELSE SleepOn(s, "WAIT_SIGNAL", mask)

\* sys_signal_send(): wake a thread that waits for one of the signals.
SignalSend(s, dest, signals) ==
    LET mask == s.tcb[dest].waits_for
    IN IF s.tcb[dest].state = "WAIT_SIGNAL" /\ signals \cap mask # {}
       THEN ActivateSchedule([s EXCEPT !.tcb[dest].signals = (@ \cup signals) \ mask], dest)
       ELSE [s EXCEPT !.tcb[dest].signals = @ \cup signals]

-----------------------------------------------------------------------------

SysIpcSend(dest, is_call, is_non_blocking) ==
    InUser /\ IsAlive(S, dest) /\ Commit(DoSend(S, dest, is_call, is_non_blocking))

SysIpcRecv == InUser /\ Commit(Recv(S))

SysSignalPoll(mask) ==
    InUser /\ Commit([S EXCEPT !.tcb[current].signals = @ \ mask])

SysSignalWait(mask) == InUser /\ Commit(SignalWait(S, mask))

SysSignalSend(dest, signals) ==
    InUser /\ IsAlive(S, dest) /\ Commit(SignalSend(S, dest, signals))
=============================================================================
