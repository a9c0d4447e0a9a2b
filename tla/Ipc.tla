-------------------------------- MODULE Ipc ---------------------------------
(***************************************************************************)
(* SYS_IPC and ipc() (pistachio/src/ipc.cc): a send phase, synchronous or  *)
(* by asynchronous notification, followed by a receive phase.  A message   *)
(* is its rendezvous; what is copied is left out but for the copy that     *)
(* fails because the receiver's buffer is too small.                       *)
(***************************************************************************)
EXTENDS Mutex

CONSTANT Requests     \* the system calls SYS_IPC of an instance

\* The arguments of SYS_IPC and the bits of the message tag the kernel reads.
\*   to           the receiver, NULL for no send phase
\*   handle       the receiver is named by a thread handle (a reply)
\*   notify       the message is an asynchronous notification
\*   overflow     the copy of the message fails
\*   from         a thread, ANYTHREAD, WAITNOTIFY, or NULL for no receive phase
IpcArgs ==
    {a \in [to : Threads \cup {NULL}, handle : BOOLEAN, notify : BOOLEAN, overflow : BOOLEAN,
            send_blocks : BOOLEAN, from : Threads \cup {ANYTHREAD, WAITNOTIFY, NULL},
            recv_blocks : BOOLEAN] :
        /\ a.to = NULL => ~a.handle /\ ~a.notify /\ ~a.overflow /\ ~a.send_blocks
        /\ a.notify => ~a.handle /\ ~a.overflow /\ ~a.send_blocks
        /\ a.handle => ~a.send_blocks
        /\ a.from = NULL => ~a.recv_blocks}

ASSUME RequestsAssumption == Requests \subseteq IpcArgs

SetPartner(s, t, partner) == [s EXCEPT !.tcb[t].partner = partner]

\* return_ipc(): the system call ends and current goes on in user mode.
ReturnIpc(s) ==
    [ActivateContinuation(s, "user") EXCEPT !.tcb[s.sched.current].sys = NULL]

\* enqueue_tcb_and_return(): the same, for a current that has just woken to.
EnqueueTcbAndReturn(s, to) ==
    LET done == [s EXCEPT !.tcb[s.sched.current].sys = NULL]
    IN IF to = NULL THEN ReturnIpc(s) ELSE ActivateSched(done, to, "user")

\* current blocks, after it has woken to if there is one.
BlockInReceive(s, state, to) ==
    LET done == [s EXCEPT !.tcb[s.sched.current].sys = NULL]
    IN IF to = NULL THEN DeactivateSched(done, state, "check_async_ipc")
       ELSE DeactivateActivateSched(done, state, to, "check_async_ipc")

\* setup_notify_return(): current takes its pending notification.
SetupNotifyReturn(s) == [s EXCEPT !.tcb[s.sched.current].notify_bits = FALSE]

\* Whether t is blocked in a wait that a message of current ends.
IsWaitingFor(s, t, partners) ==
    s.tcb[t].state = "waiting_forever" /\ s.tcb[t].partner \in partners

-----------------------------------------------------------------------------
(* The receive phase                                                       *)

\* Seeded fault: a receiver sleeps although a notification is pending.
ReceiveNotifySleeps(s, to, a) ==
    IF s.sched.current \notin Acceptors \/ ~a.recv_blocks THEN EnqueueTcbAndReturn(s, to)
    ELSE BlockInReceive(s, "waiting_notify", to)

\* WAITNOTIFY: wait for a notification only; partner stays as it is.
ReceiveNotify(s, to, a) ==
    LET cur == s.sched.current
    IN IF s.tcb[cur].notify_bits THEN EnqueueTcbAndReturn(SetupNotifyReturn(s), to)
       ELSE IF cur \notin Acceptors \/ ~a.recv_blocks THEN EnqueueTcbAndReturn(s, to)
       ELSE BlockInReceive(s, "waiting_notify", to)

\* No partner is ready to send: take a notification, give up, or block.
ReceiveLater(s, to, a, peer) ==
    LET cur == s.sched.current
    IN IF a.from = ANYTHREAD /\ cur \in Acceptors /\ s.tcb[cur].notify_bits
       THEN EnqueueTcbAndReturn(SetupNotifyReturn(s), to)
       ELSE IF ~a.recv_blocks THEN EnqueueTcbAndReturn(s, to)
       ELSE IF peer # NULL
       THEN BlockInReceive(SetPartner(EnqueueRecv(s, peer, cur), cur, peer), "waiting_forever", to)
       ELSE BlockInReceive(SetPartner(s, cur, ANYTHREAD), "waiting_forever", to)

\* The peer polls on current: it is switched to at once and copies its message.
ReceiveNow(s, to, peer) ==
    LET cur == s.sched.current
        unblocked == DequeueSend(SetPartner([s EXCEPT !.tcb[cur].sys = NULL], cur, peer), cur, peer)
        woken == IF to = NULL THEN unblocked ELSE Activate(unblocked, to)
    IN ContextSwitch(woken, peer, "waiting_forever", "user")

\* Seeded fault: an open wait does not look at the threads that wait to send.
ReceiveWithoutLooking(s, to, a, peer) == ReceiveLater(s, to, a, NULL)

ReceiveFrom(s, to, a, peer) ==
    IF peer = NULL \/ s.tcb[peer].state # "polling" \/ s.tcb[peer].partner # s.sched.current
    THEN ReceiveLater(s, to, a, peer)
    ELSE ReceiveNow(s, to, peer)

\* to is the thread the send phase has made runnable, or NULL.
ReceivePhase(s, to, a) ==
    LET cur == s.sched.current
        senders == s.blocked[<<"send", cur>>]
    IN CASE a.from = NULL /\ to = NULL -> ReturnIpc(s)
         [] a.from = NULL /\ to # NULL -> EnqueueTcbAndReturn(SetPartner(s, cur, NULL), to)
         [] a.from = WAITNOTIFY -> ReceiveNotify(s, to, a)
         [] a.from = ANYTHREAD ->
              ReceiveFrom(s, to, a, IF senders = <<>> THEN NULL ELSE Head(senders))
         [] a.from \in Threads ->
              IF to = a.from /\ a.recv_blocks  \* Call()
              THEN BlockInReceive(EnqueueRecv(SetPartner(s, cur, to), to, cur), "waiting_forever", to)
              ELSE IF ~s.tcb[a.from].exists THEN EnqueueTcbAndReturn(s, to)
              ELSE ReceiveFrom(s, to, a, a.from)

-----------------------------------------------------------------------------
(* The send phase                                                          *)

\* A wait that a notification ends.
WaitsForNotify(s, t) ==
    s.tcb[t].state = "waiting_notify" \/ IsWaitingFor(s, t, {ANYTHREAD})

AddNotifyBits(s, t) == [s EXCEPT !.tcb[t].notify_bits = TRUE]

SendNotify(s, a) ==
    LET added == AddNotifyBits(s, a.to)
    IN IF a.to \notin Acceptors THEN ReturnIpc(s)
       ELSE IF WaitsForNotify(s, a.to)
       THEN ReceivePhase([added EXCEPT !.tcb[a.to].notified = TRUE], a.to, a)
       ELSE ReceivePhase(added, NULL, a)

\* The receiver is not ready: poll on it.
SendLater(s, a) ==
    LET cur == s.sched.current
        queued == EnqueueSend([SetPartner(s, cur, a.to) EXCEPT !.tcb[cur].sys = a], a.to, cur)
    IN IF a.send_blocks THEN DeactivateSched(queued, "polling", "restart_ipc") ELSE ReturnIpc(s)

\* Seeded fault: a receiver that has its message stays in the queue of its wait.
SendNowKeepsDependency(s, a) ==
    ReceivePhase(SetPartner(s, a.to, INVALID), a.to, a)

\* The receiver waits for current: it leaves its wait, and the message is copied.
SendNow(s, a) ==
    LET cur == s.sched.current
        taken == SetPartner(RemoveDependency(s, a.to), a.to, INVALID)
    IN IF a.overflow THEN EnqueueTcbAndReturn(SetPartner(taken, cur, a.to), a.to)
       ELSE ReceivePhase(taken, a.to, a)

\* Seeded fault: the message goes to a receiver that waits for another thread.
IpcBodyToAnyReceiver(s, a) ==
    IF a.to = NULL THEN ReceivePhase(s, NULL, a)
    ELSE IF a.notify THEN SendNotify(s, a)
    ELSE IF IsWaitingFor(s, a.to, Threads \cup {ANYTHREAD}) THEN SendNow(s, a)
    ELSE SendLater(s, a)

\* ipc()
IpcBody(s, a) ==
    IF a.to = NULL THEN ReceivePhase(s, NULL, a)
    ELSE IF a.notify THEN SendNotify(s, a)
    ELSE IF IsWaitingFor(s, a.to, {s.sched.current, ANYTHREAD}) THEN SendNow(s, a)
    ELSE SendLater(s, a)

\* SYS_IPC: an invalid receiver, or a handle to a thread that does not wait for
\* current, is an error.
Ipc(s, a) ==
    IF a.to # NULL /\ ~s.tcb[a.to].exists THEN ReturnIpc(s)
    ELSE IF a.handle /\ ~IsWaitingFor(s, a.to, {s.sched.current}) THEN ReturnIpc(s)
    ELSE IpcBody(s, a)

-----------------------------------------------------------------------------
(* System calls, continuations and interrupts                              *)

SysIpc(a) == Trap("ipc") /\ ~a.notify /\ a.from # WAITNOTIFY /\ Commit(Ipc(S, a))

\* SYS_IPC with a notification in either phase.
SysIpcNotify(a) == Trap("notify") /\ (a.notify \/ a.from = WAITNOTIFY) /\ Commit(Ipc(S, a))

\* restart_ipc(): the receiver is ready, the system call is made again.
RestartIpc == Continue("restart_ipc") /\ Commit(Ipc(S, tcb[current].sys))

\* check_async_ipc(): the wait has ended with a message or a notification.
CheckAsyncIpc ==
    /\ Continue("check_async_ipc")
    /\ LET s == IF tcb[current].notified THEN SetupNotifyReturn(S) ELSE S
       IN Commit(ReturnIpc([s EXCEPT !.tcb[current].notified = FALSE]))

\* kernel_deliver_notify(): a device interrupt notifies its handler thread.
DeliverNotify(handler) ==
    /\ Interrupt("irq")
    /\ tcb[handler].exists
    /\ LET added == AddNotifyBits(S, handler)
       IN IF WaitsForNotify(S, handler)
          THEN Commit(ActivateSched([added EXCEPT !.tcb[handler].notified = TRUE],
                                    handler, tcb[current].cont))
          ELSE Commit(added)
=============================================================================
