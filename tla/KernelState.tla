---------------------------- MODULE KernelState -----------------------------
(***************************************************************************)
(* The state of the pistachio microkernel that its threads, scheduler,     *)
(* synchronisation points and mutexes share, on one processor and with     *)
(* schedule inheritance (the default of the build).                        *)
(*                                                                         *)
(* The kernel runs a system call or an interrupt handler to its end: no    *)
(* other thread runs between the trap and the switch_to() or the return to *)
(* the user with which it ends.  One handler is therefore one step, and    *)
(* its code is written as operators on a snapshot s of the whole state.    *)
(* The operator of a handler's last call gives the state after the step.   *)
(***************************************************************************)
EXTENDS Queueing, FiniteSets

CONSTANTS Threads,    \* the tcbs, without the idle thread
          Mutexes,    \* the mutex identifiers
          MAX_PRIO,   \* the highest priority
          Boot,       \* the threads that exist at boot, in creation order
          BootPrio,   \* their priorities
          BootMutexes,\* the mutexes that exist at boot
          Acceptors,  \* the threads that accept asynchronous notification
          Calls,      \* the system calls and interrupts of an instance
          idle, NULL, ANYTHREAD, WAITNOTIFY, INVALID

Prio == 0 .. MAX_PRIO

ASSUME BootAssumption ==
    /\ MAX_PRIO \in Nat
    /\ idle \notin Threads
    /\ NoRepeats(Boot) /\ Members(Boot) \subseteq Threads
    /\ BootPrio \in [Threads -> Prio]
    /\ BootMutexes \subseteq Mutexes

\* thread_state_t; "running" covers the ready threads and the current one.
States == {"running", "waiting_forever", "waiting_notify", "polling",
           "halted", "aborted", "waiting_mutex"}

\* What a thread does when it is switched to; "user" is the return to user mode.
\* Continuations that only hand a result to the user are "user" as well.
Conts == {"user", "init_all_threads", "idle_thread", "mutex_wakeup", "hybrid_mutex_wakeup", "restart_ipc",
          "check_async_ipc", "handle_ipc_error", "thread_startup", "finish_perform_exreg"}

\* A syncpoint_t is an endpoint's send or receive queue, or a mutex's queue.
SyncPoints == ({"send", "recv"} \X Threads) \cup ({"mutex"} \X Mutexes)

VARIABLES tcb,      \* the thread control blocks
          sched,    \* scheduler_t and the current thread
          blocked,  \* the list of each syncpoint_t
          mutex,    \* the mutex table
          failed    \* the assertions of the kernel that did not hold

vars == <<tcb, sched, blocked, mutex, failed>>

\* The snapshot a handler starts from, and the step to the one it ends with.
S == [tcb |-> tcb, sched |-> sched, blocked |-> blocked, mutex |-> mutex, failed |-> failed]

Commit(s) ==
    /\ tcb' = s.tcb
    /\ sched' = s.sched
    /\ blocked' = s.blocked
    /\ mutex' = s.mutex
    /\ failed' = s.failed

\* ASSERT(): a condition that does not hold is recorded under its name.
Require(s, cond, name) == IF cond THEN s ELSE [s EXCEPT !.failed = @ \cup {name}]

\* The fields a thread control block has outside of user control.
\*   exists       a thread capability to the tcb is valid
\*   waiting_for  the syncpoint the thread is blocked on
\*   mutexes      the mutexes it holds (mutexes_head)
\*   sys          the arguments its continuation reads (sys_data)
\*   saved        saved_state is running: a thread not started yet
\*   notify_bits  a notification is pending (one bit, which every mask selects)
\*   notified     sent_from is NILTHREAD: a notification has ended the wait
TcbType ==
    [exists         : BOOLEAN,
     state          : States,
     base_prio      : -1 .. MAX_PRIO,
     effective_prio : -1 .. MAX_PRIO,
     waiting_for    : SyncPoints \cup {NULL},
     mutexes        : Seq(Mutexes),
     partner        : Threads \cup {NULL, ANYTHREAD, INVALID},
     cont           : Conts,
     saved          : BOOLEAN,
     suspended      : BOOLEAN,
     notify_bits    : BOOLEAN,
     notified       : BOOLEAN]

\* A tcb whose memory was never used.
FreeTcb ==
    [exists |-> FALSE, state |-> "aborted", base_prio |-> 0, effective_prio |-> 0,
     waiting_for |-> NULL, mutexes |-> <<>>, partner |-> NULL, cont |-> "user",
     sys |-> NULL, saved |-> FALSE, suspended |-> FALSE, notify_bits |-> FALSE,
     notified |-> FALSE]

\* A thread of the boot image, ready to run.
BootTcb(t) == [FreeTcb EXCEPT !.exists = TRUE, !.state = "running",
                              !.base_prio = BootPrio[t], !.effective_prio = BootPrio[t]]

\* The idle thread: below every priority, and running init_all_threads.
IdleTcb == [FreeTcb EXCEPT !.exists = TRUE, !.state = "running", !.base_prio = -1,
                           !.effective_prio = -1, !.cont = "init_all_threads"]

\* The state in which init_all_threads() makes its first call of schedule().
Init ==
    /\ tcb = [t \in Threads \cup {idle} |->
                IF t = idle THEN IdleTcb
                ELSE IF t \in Members(Boot) THEN BootTcb(t) ELSE FreeTcb]
    /\ sched = [ready |-> [p \in Prio |-> SelectSeq(Boot, LAMBDA t : BootPrio[t] = p)],
                current |-> idle, active_schedule |-> idle, invariants_violated |-> TRUE]
    /\ blocked = [sp \in SyncPoints |-> <<>>]
    /\ mutex = [m \in Mutexes |-> [exists |-> m \in BootMutexes, holder |-> NULL]]
    /\ failed = {}

\* The current thread is executing user code, or the idle loop.
current == sched.current
InUser(s) == s.sched.current # idle /\ s.tcb[s.sched.current].cont = "user"
InIdle(s) == s.tcb[s.sched.current].cont = "idle_thread"

\* A system call of the current thread may begin; after a failed assertion
\* the kernel has stopped.
Trap(call) == call \in Calls /\ InUser(S) /\ failed = {}

\* An interrupt is taken from user code or from the idle loop.
Interrupt(source) == source \in Calls /\ (InUser(S) \/ InIdle(S)) /\ failed = {}

\* The current thread executes its kernel continuation c.
Continue(c) == tcb[current].cont = c /\ failed = {}
=============================================================================
