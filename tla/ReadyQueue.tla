----------------------------- MODULE ReadyQueue -----------------------------
(***************************************************************************)
(* What the scheduler expects of its ready queue: one first-in first-out   *)
(* list per priority, and a lookup that yields the head of the non-empty   *)
(* list of the highest priority.  The two-level bitmap of PrioQueue is     *)
(* shown to implement this specification.                                  *)
(***************************************************************************)
EXTENDS Queueing

CONSTANTS Threads,   \* the thread control blocks
          MAX_PRIO,  \* the highest priority
          idle       \* the idle thread, which is on no list

VARIABLES prio_queue,      \* the list of ready threads of each priority
          effective_prio,  \* the priority each thread is queued at
          next             \* the thread schedule() picked last

rqVars == <<prio_queue, effective_prio, next>>

ReadyPrio == 0 .. MAX_PRIO

Listed(t) == \E p \in ReadyPrio : t \in Members(prio_queue[p])

\* p is the highest priority at which a thread is ready.
IsHighest(p) ==
    /\ p \in ReadyPrio
    /\ prio_queue[p] # <<>>
    /\ \A q \in ReadyPrio : prio_queue[q] # <<>> => q <= p

RQInit ==
    /\ prio_queue = [p \in ReadyPrio |-> <<>>]
    /\ effective_prio \in [Threads -> ReadyPrio]
    /\ next = idle

RQEnqueue(t) ==
    /\ ~Listed(t)
    /\ prio_queue' = [prio_queue EXCEPT ![effective_prio[t]] = EnqueueListTail(@, t)]
    /\ UNCHANGED <<effective_prio, next>>

RQDequeue(t) ==
    /\ Listed(t)
    /\ prio_queue' = [prio_queue EXCEPT ![effective_prio[t]] = DequeueList(@, t)]
    /\ UNCHANGED <<effective_prio, next>>

\* A ready thread moves to the tail of its new list, any other only changes.
RQSetEffectivePriority(t, prio) ==
    /\ effective_prio' = [effective_prio EXCEPT ![t] = prio]
    /\ IF Listed(t)
       THEN LET without == [prio_queue EXCEPT ![effective_prio[t]] = DequeueList(@, t)]
            IN prio_queue' = [without EXCEPT ![prio] = EnqueueListTail(@, t)]
       ELSE UNCHANGED prio_queue
    /\ UNCHANGED next

\* The highest ready thread is taken off, or the idle thread when none is ready.
RQPick ==
    /\ \/ \E p \in ReadyPrio :
             /\ IsHighest(p)
             /\ next' = Head(prio_queue[p])
             /\ prio_queue' = [prio_queue EXCEPT ![p] = DequeueList(@, Head(prio_queue[p]))]
       \/ /\ \A p \in ReadyPrio : prio_queue[p] = <<>>
          /\ next' = idle
          /\ UNCHANGED prio_queue
    /\ UNCHANGED effective_prio

RQNext ==
    \/ \E t \in Threads : RQEnqueue(t) \/ RQDequeue(t)
    \/ \E t \in Threads, prio \in ReadyPrio : RQSetEffectivePriority(t, prio)
    \/ RQPick

RQSpec == RQInit /\ [][RQNext]_rqVars
=============================================================================
