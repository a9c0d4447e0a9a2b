-------------------------------- MODULE Nano --------------------------------
(***************************************************************************)
(* The nanokernel as its threads see it: every system call that the        *)
(* running thread may make, and the interrupts.                            *)
(***************************************************************************)
EXTENDS NanoThread

FutexCalls == \E tag \in Tags : SysFutexWait(tag) \/ SysFutexSignal(tag)

IpcCalls ==
    \/ SysIpcRecv
    \/ \E dest \in Tcbs, is_call, is_non_blocking \in BOOLEAN :
         SysIpcSend(dest, is_call, is_non_blocking)

SignalCalls ==
    \E set \in (SUBSET Signals) \ {{}} :
        \/ SysSignalPoll(set)
        \/ SysSignalWait(set)
        \/ \E dest \in Tcbs : SysSignalSend(dest, set)

ThreadCalls ==
    \/ SysYield
    \/ SysThreadExit
    \/ \E prio \in Prio : SysThreadCreate(prio)
    \/ \E dest \in Tcbs : SysThreadJoin(dest)

InterruptCalls ==
    \/ SysInterruptWait
    \/ \E i \in Interrupts :
         SysInterruptRegister(i) \/ SysInterruptDeregister(i) \/ TakeInterrupt(i)

Next == KernelMain \/ FutexCalls \/ IpcCalls \/ SignalCalls \/ ThreadCalls \/ InterruptCalls

Spec == Init /\ [][Next]_vars

-----------------------------------------------------------------------------

Blocked(t, states) == tcb[t].state \in states

\* Every variable has its type; the signals that are kept fit in their array.
TypeOK ==
    /\ tcb \in [Tcbs -> TcbType]
    /\ current \in Tcbs \cup {idle, NULL}
    /\ ready \in [Prio -> Seq(Tcbs)]
    /\ free \in Seq(Tcbs)
    /\ chain \in [Slots -> Seq(Tcbs)]
    /\ pending \in Seq(Tags) /\ Len(pending) <= max_tcbs
    /\ handler \in [Interrupts -> Tcbs \cup {NULL}]
    /\ unmasked \in SUBSET Interrupts

\* No ASSERT of the nanokernel fails: a thread is put on a list only when it is on no
\* other, only a thread that is not runnable is activated, the first free tcb is halted,
\* only a zombie is reaped, and no interrupt arrives that nobody waits for.
NoAssertionFails == failed = {}

\* The scheduler's promise: the ready lists hold exactly the runnable threads that do
\* not run, once each and at their priority, the thread that runs is runnable, and no
\* thread that is ready has a higher priority; the idle loop runs only when nobody can.
ReadyListsExact ==
    /\ \A p \in Prio :
         /\ NoRepeats(ready[p])
         /\ Members(ready[p]) = {t \in Tcbs \ {current} : Blocked(t, {"RUNNABLE"})
                                                        /\ tcb[t].priority = p}
    /\ current \in Tcbs => /\ Blocked(current, {"RUNNABLE"})
                          /\ GetHighestPriority(S) <= tcb[current].priority
    /\ current = idle => GetHighestPriority(S) = -1

\* Between any two system calls and interrupts the nanokernel's structures agree:
\* types, assertions and ready lists together.
NanoConsistent == TypeOK /\ NoAssertionFails /\ ReadyListsExact

\* No wakeup is lost: nobody sleeps on a futex while a signal for its tag is pending, or
\* on a signal of its mask that is set already, and a futex signal finds every thread
\* that sleeps, the highest priority first: it is in the chain of its tag's slot.
NoLostWakeup ==
    /\ \A t \in Tcbs :
         /\ Blocked(t, {"WAIT_FUTEX"}) => PendingFor(S, tcb[t].waits_for) = {}
         /\ Blocked(t, {"WAIT_SIGNAL"}) => tcb[t].signals \cap tcb[t].waits_for = {}
    /\ \A h \in Slots :
         /\ NoRepeats(chain[h])
         /\ Members(chain[h]) = {t \in Tcbs : Blocked(t, {"WAIT_FUTEX"})
                                            /\ hash_tag[tcb[t].waits_for] = h}
         /\ \A i, j \in DOMAIN chain[h] :
              i < j => tcb[chain[h][i]].priority >= tcb[chain[h][j]].priority

\* No rendezvous is missed: a thread that waits to send is in the list of its
\* destination, and the destination is not ready to receive from it.
SendersNotMissed ==
    /\ \A src, dest \in Tcbs :
         src \in Members(tcb[dest].senders) =>
             Blocked(src, {"WAIT_IPC_SEND", "WAIT_IPC_CALL"}) /\ ~IsReadyToReceive(S, src, dest)
    /\ \A src \in Tcbs :
         Blocked(src, {"WAIT_IPC_SEND", "WAIT_IPC_CALL"}) =>
             {dest \in Tcbs : src \in Members(tcb[dest].senders)} = {tcb[src].waits_for}

\* An interrupt gets through exactly while its handler waits for it, and the thread an
\* interrupt is registered to is alive and knows about it.
InterruptsHaveWaiters ==
    /\ \A i \in Interrupts :
         i \in unmasked <=> handler[i] # NULL /\ Blocked(handler[i], {"WAIT_INT"})
    /\ \A i \in Interrupts, t \in Tcbs :
         handler[i] = t <=> tcb[t].registered_interrupt = i /\ IsAlive(S, t)
    /\ \A t \in Tcbs : Blocked(t, {"WAIT_INT"}) => tcb[t].registered_interrupt # NULL

\* No thread is forgotten: the free list holds exactly the halted tcbs, once each, and a
\* thread that joins is the joiner of one thread that has not exited yet.
ThreadsAccountedFor ==
    /\ NoRepeats(free) /\ Members(free) = {t \in Tcbs : Blocked(t, {"HALTED"})}
    /\ \A t \in Tcbs : Blocked(t, {"WAIT_JOIN"}) <=>
         \E u \in Tcbs : tcb[u].joiner = t
    /\ \A u, v \in Tcbs : tcb[u].joiner # NULL =>
         IsAlive(S, u) /\ (tcb[v].joiner = tcb[u].joiner => u = v)
=============================================================================
