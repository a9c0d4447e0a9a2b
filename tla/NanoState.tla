----------------------------- MODULE NanoState ------------------------------
(***************************************************************************)
(* The state of the nanokernel (nanokernel/) on its only port, ARM with    *)
(* one execution unit.  A system call or an interrupt handler runs to the  *)
(* switch_to() with which it ends, and interrupts are off meanwhile, so    *)
(* one handler is one step and the kernel's spinlocks are empty.  Its code *)
(* is written as operators on a snapshot s of the state; s.next is the     *)
(* thread that the handler will switch to.                                 *)
(***************************************************************************)
EXTENDS Queueing, FiniteSets, FiniteSetsExt

CONSTANTS Tcbs,          \* the thread control blocks of the image
          MAX_PRIORITY,
          threads_at_priority,  \* the threads of the image, a list per priority
          Spare,         \* the other tcbs, in order
          Interrupts,
          Signals,       \* the bits of a signal word
          Tags, Slots,   \* futex tags and hash slots, and
          hash_tag,      \* the slot of each tag
          idle, NULL

Prio == 0 .. MAX_PRIORITY
max_tcbs == Cardinality(Tcbs)

\* What kernel_nano.py builds when it is asked for at least one spare tcb.
ASSUME ImageAssumption ==
    /\ MAX_PRIORITY \in Nat
    /\ IsFiniteSet(Tcbs) /\ max_tcbs \in Nat
    /\ {idle, NULL} \cap Tcbs = {} /\ idle # NULL
    /\ threads_at_priority \in [Prio -> Seq(Tcbs)] /\ Spare \in Seq(Tcbs)
    /\ \A p \in Prio : NoRepeats(threads_at_priority[p])
    /\ \A t \in Tcbs \ Members(Spare) : \E p \in Prio : t \in Members(threads_at_priority[p])
    /\ \A t \in Tcbs, p, q \in Prio :
         t \in Members(threads_at_priority[p]) =>
             /\ t \in Members(threads_at_priority[q]) => p = q
             /\ t \notin Members(Spare)
    /\ Spare # <<>> /\ NoRepeats(Spare)
    /\ hash_tag \in [Tags -> Slots]
    /\ NULL \notin Interrupts

\* thread_state_t
WaitStates == {"WAIT_FUTEX", "WAIT_INT", "WAIT_SIGNAL", "WAIT_IPC_RECV", "WAIT_IPC_SEND",
               "WAIT_IPC_CALL", "WAIT_JOIN"}
DeadStates == {"HALTED", "ZOMBIE"}
ThreadStates == {"RUNNABLE"} \cup WaitStates \cup DeadStates

VARIABLES tcb,       \* the thread control blocks
          current,   \* current_tcb, NULL before the kernel has started
          ready,     \* priority_heads and priority_bitmap: a list per priority
          free,      \* the list tcb_free_head
          chain,     \* futex_hash: the threads that wait, slot by slot
          pending,   \* futex_pending_tags: the signals nobody has waited for yet
          handler,   \* interrupt_handlers
          unmasked,  \* the interrupts the controller lets through
          failed     \* the assertions that did not hold

vars == <<tcb, current, ready, free, chain, pending, handler, unmasked, failed>>

\* The snapshot a handler starts from; it returns to the caller unless told otherwise.
S == [tcb |-> tcb, current |-> current, next |-> current, ready |-> ready, free |-> free,
      chain |-> chain, pending |-> pending, handler |-> handler, unmasked |-> unmasked,
      failed |-> failed]

\* switch_to(s.next)
Commit(s) ==
    /\ tcb' = s.tcb
    /\ current' = s.next
    /\ ready' = s.ready
    /\ free' = s.free
    /\ chain' = s.chain
    /\ pending' = s.pending
    /\ handler' = s.handler
    /\ unmasked' = s.unmasked
    /\ failed' = s.failed

\* ASSERT(): a condition that does not hold is recorded under its name.
Require(s, cond, name) == IF cond THEN s ELSE [s EXCEPT !.failed = @ \cup {name}]

\* The fields of a tcb.  waits_for is the one of futex_tag, ipc_waiting_for and
\* signal_mask that the kernel reads in the thread's state, NULL when it reads none of
\* them; senders is the list ipc_send_head.
TcbType ==
    [state                : ThreadStates,
     priority             : Prio,
     waits_for            : Tags \cup Tcbs \cup (SUBSET Signals) \cup {NULL},
     senders              : Seq(Tcbs),
     signals              : SUBSET Signals,
     registered_interrupt : Interrupts \cup {NULL},
     joiner               : Tcbs \cup {NULL}]

\* init_empty_thread() and init_thread() of the tool that builds the image.
EmptyThread ==
    [state |-> "HALTED", priority |-> 0, waits_for |-> NULL, senders |-> <<>>, signals |-> {},
     registered_interrupt |-> NULL, joiner |-> NULL]

LiveThread(t) ==
    [EmptyThread EXCEPT !.state = "RUNNABLE",
                        !.priority = CHOOSE p \in Prio : t \in Members(threads_at_priority[p])]

\* The image: the live threads are on the ready lists, the others on the free list.
Init ==
    /\ tcb = [t \in Tcbs |-> IF t \in Members(Spare) THEN EmptyThread ELSE LiveThread(t)]
    /\ current = NULL
    /\ ready = threads_at_priority
    /\ free = Spare
    /\ chain = [h \in Slots |-> <<>>]
    /\ pending = <<>>
    /\ handler = [i \in Interrupts |-> NULL]
    /\ unmasked = {}
    /\ failed = {}

\* next and prev of t are NULL: it is in none of the lists they link.
Unlinked(s, t) ==
    /\ \A p \in Prio : t \notin Members(s.ready[p])
    /\ \A h \in Slots : t \notin Members(s.chain[h])
    /\ \A u \in Tcbs : t \notin Members(s.tcb[u].senders)
    /\ t \notin Members(s.free)

IsAlive(s, t) == s.tcb[t].state \notin DeadStates

\* A thread executes user code; after a failed assertion the kernel has stopped.
InUser == current \in Tcbs /\ failed = {}
=============================================================================
