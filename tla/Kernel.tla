------------------------------- MODULE Kernel -------------------------------
(***************************************************************************)
(* The kernel as its threads see it: every system call that a running      *)
(* thread may make, every continuation a thread resumes with, and the      *)
(* interrupts.  Calls selects the ones an instance exercises.              *)
(***************************************************************************)
EXTENDS Exregs

Scheduling ==
    \/ InitAllThreads
    \/ SysYield
    \/ \E expired \in BOOLEAN : HandleTimerInterrupt(expired)
    \/ \E dest \in Threads : SysThreadSwitch(dest)
    \/ \E dest \in Threads, prio \in Prio : SysSchedule(dest, prio)

MutexCalls ==
    \/ MutexWakeup
    \/ \E m \in Mutexes :
         \/ \E blocking \in BOOLEAN : SysMutexLock(m, blocking)
         \/ SysMutexUnlock(m)
         \/ \E delete, create \in BOOLEAN : SysMutexControl(m, delete, create)

IpcCalls ==
    \/ RestartIpc
    \/ CheckAsyncIpc
    \/ \E a \in Requests : SysIpc(a) \/ SysIpcNotify(a)
    \/ \E handler \in Threads : DeliverNotify(handler)

ThreadCalls ==
    \/ ThreadStartup
    \/ HandleIpcError
    \/ \E t \in Threads :
         \/ \E pager \in Threads \cup {NULL}, resources \in BOOLEAN :
              SysThreadCreate(t, pager, resources)
         \/ SysThreadDelete(t)

ExregsCalls ==
    \/ FinishExregs
    \/ \E t \in Threads, ctrl \in Controls : SysExchangeRegisters(t, ctrl)

Next == Scheduling \/ MutexCalls \/ IpcCalls \/ ThreadCalls \/ ExregsCalls

Spec == Init /\ [][Next]_vars

-----------------------------------------------------------------------------
(* Properties                                                              *)

\* The state keeps its types.
TypeOK ==
    /\ \A t \in Threads \cup {idle} :
          [f \in DOMAIN tcb[t] \ {"sys"} |-> tcb[t][f]] \in TcbType
    /\ sched.ready \in [Prio -> Seq(Threads)]
    /\ {sched.current, sched.active_schedule} \subseteq Threads \cup {idle}
    /\ sched.invariants_violated \in BOOLEAN
    /\ blocked \in [SyncPoints -> Seq(Threads)]
    /\ mutex \in [Mutexes -> [exists : BOOLEAN, holder : Threads \cup {NULL}]]

\* No ASSERT() of the scheduler, the syncpoints, the mutexes or the threads
\* fails, and the loops that propagate priorities end.
NoAssertionFails == failed = {}

\* The ready queue holds exactly the runnable threads other than the current
\* one, each once and at its effective priority, whatever moved it there.
ReadyQueueExact ==
    \A t \in Threads :
        LET places == {<<p, i>> \in Prio \X (1 .. Cardinality(Threads)) :
                          i \in DOMAIN sched.ready[p] /\ sched.ready[p][i] = t}
        IN IF tcb[t].state = "running" /\ t # current
           THEN \E i \in 1 .. Cardinality(Threads) : places = {<<tcb[t].effective_prio, i>>}
           ELSE places = {}

\* A syncpoint's list is exactly the threads that wait for it, highest effective
\* priority first; a mutex is on the held list of its holder and of no other thread.
SyncPointsExact ==
    /\ \A sp \in SyncPoints :
          /\ NoRepeats(blocked[sp])
          /\ Members(blocked[sp]) = {t \in Threads : tcb[t].waiting_for = sp}
          /\ \A i, j \in DOMAIN blocked[sp] :
                i < j => tcb[blocked[sp][i]].effective_prio >= tcb[blocked[sp][j]].effective_prio
    /\ \A t \in Threads :
          /\ NoRepeats(tcb[t].mutexes)
          /\ Members(tcb[t].mutexes) = {m \in Mutexes : mutex[m].holder = t}

\* Whenever a user thread executes, no ready thread has a higher effective
\* priority: the fast paths of the scheduler never skip one.
HighestPriorityRuns ==
    InUser(S) => GetHighestPriority(S) <= tcb[current].effective_prio

\* u waits, directly or through others, for something t would have to give.
DirectWaiters(t) == {u \in Threads : tcb[u].waiting_for # NULL /\ Donatee(S, tcb[u].waiting_for) = t}

WaitersUpTo[n \in 0 .. Cardinality(Threads), t \in Threads] ==
    IF n = 0 THEN {} ELSE
    LET direct == DirectWaiters(t)
    IN direct \cup UNION {WaitersUpTo[n - 1, u] : u \in direct}

AllWaiters(t) == WaitersUpTo[Cardinality(Threads), t]

\* Some thread that t depends on in this way waits for itself.
InDeadlock(t) == \E u \in AllWaiters(t) \cup {t} : u \in AllWaiters(u)

\* Priority inheritance is exact: a thread's effective priority is the highest
\* base priority among itself and all the threads that wait for it, directly or
\* along a chain of mutexes and endpoints; a chain that is a deadlock aside.
InheritanceExact ==
    \A t \in Threads :
        tcb[t].exists /\ ~InDeadlock(t)
        => tcb[t].effective_prio = Max({tcb[u].base_prio : u \in AllWaiters(t) \cup {t}})

\* A mutex leaves its holder only by the holder's own unlock() or its deletion, and
\* then goes to a blocked thread than which no other blocked thread is higher.
HandoverToHighest ==
    [][\A m \in Mutexes :
         (mutex[m].holder # NULL /\ mutex'[m].holder # mutex[m].holder) =>
            /\ mutex[m].holder = current \/ ~tcb'[mutex[m].holder].exists
            /\ \A u \in Members(blocked[<<"mutex", m>>]) :
                 /\ mutex'[m].holder # NULL
                 /\ tcb[u].effective_prio <= tcb[mutex'[m].holder].effective_prio]_vars

\* Sender and receiver never miss each other: no thread polls on a receiver that
\* is itself blocked in a wait which the sender's message would end.
NoMissedRendezvous ==
    \A t \in Threads :
        tcb[t].state = "polling" => ~IsWaitingFor(S, tcb[t].partner, {t, ANYTHREAD})

\* No notification is lost or invented: a thread that accepts notifications does
\* not sleep in a wait for them while one is pending, and a thread that such a
\* wait has woken finds one.
NotifyNotLost ==
    \A t \in Threads :
        /\ t \in Acceptors /\ WaitsForNotify(S, t) => ~tcb[t].notify_bits
        /\ tcb[t].notified => tcb[t].notify_bits

\* A thread blocked in IPC is in exactly the queue its partner's endpoint has for
\* it: a sender in the send queue, a closed receiver in the receive queue, and
\* others in none; but a receiver whose partner is copying is in none.
IpcQueuesExact ==
    \A t \in Threads :
        LET u == tcb[t].partner
            copied == u = current /\ tcb[u].cont = "restart_ipc" /\ tcb[u].sys.to = t
        IN CASE tcb[t].state = "polling" -> tcb[t].waiting_for = <<"send", u>>
             [] tcb[t].state = "waiting_forever" ->
                  tcb[t].waiting_for =
                    IF u \in Threads /\ ~copied /\ ~tcb[t].saved THEN <<"recv", u>> ELSE NULL
             [] tcb[t].state = "waiting_mutex" -> tcb[t].waiting_for = <<"mutex", tcb[t].sys>>
             [] OTHER -> tcb[t].waiting_for = NULL

\* A closed wait is closed: only the partner's own step ends it with a message.
ClosedWaitIsClosed ==
    [][\A t \in Threads :
         /\ tcb[t].state = "waiting_forever" /\ tcb'[t].state = "running"
         /\ tcb[t].partner \in Threads
         /\ tcb'[t].cont # "handle_ipc_error"
         => tcb[t].partner = current]_vars

\* The scheduler gives up its priority order only for a copy that will be made:
\* after a context_switch() the current thread makes its send again, and the
\* receiver that switched to it still waits for it.
OrderGivenUpForCopy ==
    sched.invariants_violated /\ current # idle =>
        /\ tcb[current].cont = "restart_ipc"
        /\ IsWaitingFor(S, tcb[current].sys.to, {current})

\* A deleted thread leaves nothing behind: it is not scheduled, holds no mutex,
\* nobody is blocked on its endpoint, and the only wait that can still name it is
\* the wait for a pager of a thread that was never started.
DeletedLeavesNoTrace ==
    \A t \in Threads : ~tcb[t].exists =>
        /\ t \notin {sched.current, sched.active_schedule} /\ ~IsReady(S, t)
        /\ tcb[t].waiting_for = NULL /\ DirectWaiters(t) = {}
        /\ \A m \in Mutexes : mutex[m].holder # t
        /\ \A u \in Threads :
              tcb[u].state \in {"polling", "waiting_forever"} /\ ~tcb[u].saved => tcb[u].partner # t

\* No live thread is left aborted: whatever is unwound because its partner or the
\* thread it waits for goes away, or because it is told to stop waiting, runs again.
NobodyLeftAborted ==
    \A t \in Threads : tcb[t].exists => tcb[t].state # "aborted"

\* A thread that was halted while suspended stays halted until the suspension is
\* lifted; an exchange of registers that only resumes does not run it.
SuspendedStaysHalted ==
    [][\A t \in Threads :
         tcb[t].suspended /\ tcb[t].state = "halted" /\ tcb'[t].exists /\ tcb'[t].suspended
         => tcb'[t].state = "halted"]_vars

\* A mutex is deleted only when nobody uses it: no thread holds it or is blocked
\* on it, and no thread that was given it has yet to return from its lock.
DeletedMutexUnused ==
    \A m \in Mutexes : ~mutex[m].exists =>
        /\ mutex[m].holder = NULL /\ blocked[<<"mutex", m>>] = <<>>
        /\ \A t \in Threads : ~(tcb[t].cont = "mutex_wakeup" /\ tcb[t].sys = m)

\* Between any two steps the kernel's structures agree with one another: no ASSERT()
\* has failed, the ready queue, the lists of the syncpoints and the states of the
\* threads say the same of every thread, and nobody is left aborted.
KernelConsistent ==
    /\ NoAssertionFails
    /\ ReadyQueueExact
    /\ SyncPointsExact
    /\ IpcQueuesExact
    /\ NobodyLeftAborted

\* Priorities are respected: the scheduler's fast paths never skip a higher thread,
\* and what a thread's priority is follows from who waits for it and nothing else.
PrioritiesRespected ==
    /\ HighestPriorityRuns
    /\ InheritanceExact

-----------------------------------------------------------------------------
(* Fairness and liveness                                                   *)

\* Fairness is spelled out as what WF and SF mean here, with the condition under
\* which the action is enabled in place of ENABLED.

\* The kernel does not stop (weak fairness): a thread that is switched to goes on
\* with its continuation, the only step from a state in which it has one.
InKernel == ~InUser(S) /\ ~InIdle(S)
KernelFairness == []<>~InKernel \/ []<><<InKernel>>_vars

\* The timer ticks for ever and a timeslice is finite (strong fairness): user code
\* that runs again and again while others of its priority are ready runs out of it.
OthersReady == InUser(S) /\ sched.ready[tcb[current].effective_prio] # <<>>
TimerFairness == []<>OthersReady => []<><<HandleTimerInterrupt(TRUE)>>_vars

\* A critical section is finite (strong fairness): a holder that executes user code
\* again and again unlocks.
UnlockFairness ==
    \A t \in Threads, m \in Mutexes :
        []<>(InUser(S) /\ current = t /\ mutex[m].holder = t)
        => []<><<current = t /\ mutex[m].holder = t /\ mutex'[m].holder # t>>_vars

\* No priority inversion without bound: the thread of the highest priority gets
\* the mutex it waits for, whatever threads of middle priority do meanwhile.
TopPriorityGetsMutex ==
    \A t \in Threads :
        BootPrio[t] = MAX_PRIO => (tcb[t].state = "waiting_mutex" ~> tcb[t].state = "running")

\* Turns are taken: a thread does not stay ready for ever while only threads of
\* the same priority run, however they lock, block and hand over to one another.
TurnsAreTaken ==
    \A t \in Threads :
        []<>(\/ current = t
             \/ tcb[t].state # "running"
             \/ tcb[t].effective_prio < tcb[current].effective_prio)

-----------------------------------------------------------------------------
(* What an assertion of the code says, and the code does not do            *)

\* The thread that finish_perform_exreg() halts, resumes or suspends is there: the
\* one that the system call was performed on.
ExregsTargetExists ==
    tcb[current].cont = "finish_perform_exreg" => tcb[tcb[current].sys.tcb].exists
=============================================================================
