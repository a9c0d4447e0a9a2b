----------------------------- MODULE PrioQueue ------------------------------
(***************************************************************************)
(* prio_queue_t (pistachio/src/prioqueue.cc, include/prioqueue.h): the     *)
(* ready queue of the scheduler, one list of threads per priority and a    *)
(* two-level bitmap of the priorities whose list is not empty.             *)
(*                                                                         *)
(* A bitmap word is the set of its set bit positions, so a word is zero    *)
(* when the set is empty and msb() is the maximum of the set.              *)
(***************************************************************************)
EXTENDS Queueing

CONSTANTS Threads,    \* the thread control blocks, without the idle thread
          MAX_PRIO,   \* config.h: 255
          BITS_WORD,  \* 32
          idle        \* the idle thread

BITMAP_WORDS == (MAX_PRIO + BITS_WORD) \div BITS_WORD

ASSUME MaxPrioAssumption == MAX_PRIO \in Nat
ASSUME BitsWordAssumption == BITS_WORD \in Nat \ {0}
\* index_bitmap is a single word: it has a bit for each word of prio_bitmap.
ASSUME IndexFitsAssumption == BITMAP_WORDS <= BITS_WORD
ASSUME IdleAssumption == idle \notin Threads

Prio == 0 .. MAX_PRIO
Bits == 0 .. (BITS_WORD - 1)
Words == 0 .. (BITMAP_WORDS - 1)

VARIABLES rq,              \* the fields of prio_queue_t
          effective_prio,  \* tcb_t::effective_prio
          next             \* the thread schedule() switched to last

vars == <<rq, effective_prio, next>>

PrioQueueType == [prio_queue   : [Prio -> Seq(Threads)],
                  index_bitmap : SUBSET Bits,
                  prio_bitmap  : [Words -> SUBSET Bits]]

-----------------------------------------------------------------------------
(* prio_queue_t                                                            *)

EmptyQueue == [prio_queue   |-> [p \in Prio |-> <<>>],
               index_bitmap |-> {},
               prio_bitmap  |-> [w \in Words |-> {}]]

\* tcb->ready_list.is_queued()
IsQueued(r, tcb) == \E p \in Prio : tcb \in Members(r.prio_queue[p])

\* Seeded fault: the level-2 bit is not reduced modulo the word size.
EnqueueAtNoModulo(r, tcb, prio) ==
    [prio_queue   |-> [r.prio_queue EXCEPT ![prio] = EnqueueListTail(@, tcb)],
     index_bitmap |-> r.index_bitmap \cup {prio \div BITS_WORD},
     prio_bitmap  |-> [r.prio_bitmap EXCEPT ![prio \div BITS_WORD] = @ \cup {prio}]]

EnqueueAt(r, tcb, prio) ==
    [prio_queue   |-> [r.prio_queue EXCEPT ![prio] = EnqueueListTail(@, tcb)],
     index_bitmap |-> r.index_bitmap \cup {prio \div BITS_WORD},
     prio_bitmap  |-> [r.prio_bitmap EXCEPT ![prio \div BITS_WORD] = @ \cup {prio % BITS_WORD}]]

\* Clears the bit of a priority, and the bit of its word when that is now zero.
RemoveSchedBitmapBit(r, prio) ==
    LET level1_index == prio \div BITS_WORD
        level2_bitmap == r.prio_bitmap[level1_index] \ {prio % BITS_WORD}
    IN [r EXCEPT !.prio_bitmap = [r.prio_bitmap EXCEPT ![level1_index] = level2_bitmap],
                 !.index_bitmap = IF level2_bitmap = {} THEN @ \ {level1_index} ELSE @]

\* Seeded fault: the bits of a list that has become empty stay set.
DequeueAtKeepsBit(r, tcb, prio) ==
    [r EXCEPT !.prio_queue = [@ EXCEPT ![prio] = DequeueList(@, tcb)]]

DequeueAt(r, tcb, prio) ==
    LET list == DequeueList(r.prio_queue[prio], tcb)
        unlinked == [r EXCEPT !.prio_queue = [r.prio_queue EXCEPT ![prio] = list]]
    IN IF list = <<>>
       THEN RemoveSchedBitmapBit(unlinked, prio)
       ELSE unlinked

\* msb() (msb_binary()): the highest set bit of a word that is not zero.
Msb(word) == CHOOSE b \in word : \A c \in word : c <= b

\* Seeded fault: the index of the word is not scaled to priorities.
GetHighestPriorityUnscaled(r) ==
    IF r.index_bitmap = {} THEN -1
    ELSE LET first_level_index == Msb(r.index_bitmap)
         IN first_level_index + Msb(r.prio_bitmap[first_level_index])

\* scheduler_t::get_highest_priority(): -1 when no thread is ready.
GetHighestPriority(r) ==
    IF r.index_bitmap = {} THEN -1
    ELSE LET first_level_index == Msb(r.index_bitmap)
             second_level_index == Msb(r.prio_bitmap[first_level_index])
         IN first_level_index * BITS_WORD + second_level_index

-----------------------------------------------------------------------------
(* The operations of the scheduler on its queue                            *)

\* The queue starts zeroed; a thread gets its priority before it is enqueued.
Init ==
    /\ rq = EmptyQueue
    /\ effective_prio \in [Threads -> Prio]
    /\ next = idle

\* enqueue() asserts that the thread is on no ready list.
Enqueue(tcb) ==
    /\ ~IsQueued(rq, tcb)
    /\ rq' = EnqueueAt(rq, tcb, effective_prio[tcb])
    /\ UNCHANGED <<effective_prio, next>>

\* dequeue() asserts that the thread is on a ready list.
Dequeue(tcb) ==
    /\ IsQueued(rq, tcb)
    /\ rq' = DequeueAt(rq, tcb, effective_prio[tcb])
    /\ UNCHANGED <<effective_prio, next>>

\* Seeded fault: a queued thread changes its priority and stays in its list.
ChangeEffectiveInPlace(tcb, prio) ==
    /\ effective_prio' = [effective_prio EXCEPT ![tcb] = prio]
    /\ rq' = rq

\* set_effective_priority(): a queued thread moves to its new list's tail.
ChangeEffective(tcb, prio) ==
    /\ effective_prio' = [effective_prio EXCEPT ![tcb] = prio]
    /\ rq' = IF IsQueued(rq, tcb)
             THEN EnqueueAt(DequeueAt(rq, tcb, effective_prio[tcb]), tcb, prio)
             ELSE rq

SetEffectivePriority(tcb, prio) ==
    /\ ChangeEffective(tcb, prio)
    /\ UNCHANGED next

\* set_base_priority(); inherited is the highest effective priority among the
\* threads that wait for tcb, which calc_effective_priority() looks up.  The
\* base priority itself is only an input of that computation: see Kernel.
SetBasePriority(tcb, prio, inherited) ==
    LET effective == IF inherited > prio THEN inherited ELSE prio
    IN /\ IF effective # effective_prio[tcb]
          THEN ChangeEffective(tcb, effective)
          ELSE UNCHANGED <<rq, effective_prio>>
       /\ UNCHANGED next

\* Seeded fault: priority 0 is taken for "no thread is ready".
PickNextAboveZero ==
    LET max_prio == GetHighestPriority(rq)
    IN /\ IF max_prio > 0
          THEN /\ next' = Head(rq.prio_queue[max_prio])
               /\ rq' = DequeueAt(rq, next', effective_prio[next'])
          ELSE next' = idle /\ rq' = rq
       /\ UNCHANGED effective_prio

\* The part of schedule() that takes the next thread off the queue.
PickNext ==
    LET max_prio == GetHighestPriority(rq)
    IN /\ IF max_prio >= 0
          THEN /\ next' = Head(rq.prio_queue[max_prio])
               /\ rq' = DequeueAt(rq, next', effective_prio[next'])
          ELSE next' = idle /\ rq' = rq
       /\ UNCHANGED effective_prio

Next ==
    \/ \E tcb \in Threads : Enqueue(tcb) \/ Dequeue(tcb)
    \/ \E tcb \in Threads, prio \in Prio : SetEffectivePriority(tcb, prio)
    \/ \E tcb \in Threads, prio, inherited \in Prio : SetBasePriority(tcb, prio, inherited)
    \/ PickNext

Spec == Init /\ [][Next]_vars

-----------------------------------------------------------------------------
(* Properties                                                              *)

\* Every field holds a value of its C type: bits within a word, a list and a
\* priority for each index the arrays have.
TypeOK ==
    /\ rq \in PrioQueueType
    /\ effective_prio \in [Threads -> Prio]
    /\ next \in Threads \cup {idle}

\* The bit of a priority is set exactly when its list holds a thread.
BitsExact(r) ==
    \A w \in Words, b \in Bits :
        b \in r.prio_bitmap[w] <=> /\ w * BITS_WORD + b \in Prio
                                   /\ r.prio_queue[w * BITS_WORD + b] # <<>>

\* The bit of a bitmap word is set exactly when the word is not zero.
IndexExact(r) ==
    /\ r.index_bitmap \subseteq Words
    /\ \A w \in Words : w \in r.index_bitmap <=> r.prio_bitmap[w] # {}

\* enqueue(), dequeue() and remove_sched_bitmap_bit() keep the two bitmap
\* levels and the lists in step: a set bit means a ready thread and a ready
\* thread means a set bit, at every level (prioqueue.h only promises "may").
BitmapsExact == BitsExact(rq) /\ IndexExact(rq)

\* A thread is linked at most once, and in the list of the priority it has
\* now: dequeue() finds the list through effective_prio, so a thread queued
\* anywhere else would corrupt two lists.
LinkedAtEff(r, eff) ==
    \A p \in Prio :
        /\ NoRepeats(r.prio_queue[p])
        /\ \A tcb \in Members(r.prio_queue[p]) : eff[tcb] = p

QueuedAtEffectivePriority == LinkedAtEff(rq, effective_prio)

\* p is the highest priority at which a thread is ready.
IsHighestReady(r, p) ==
    /\ p \in Prio
    /\ r.prio_queue[p] # <<>>
    /\ \A q \in Prio : r.prio_queue[q] # <<>> => q <= p

\* get_highest_priority() never misses: the two msb() lookups yield the
\* highest priority that has a ready thread, and -1 only when none is ready.
HighestIsFound ==
    LET p == GetHighestPriority(rq)
    IN IF \E q \in Prio : rq.prio_queue[q] # <<>> THEN IsHighestReady(rq, p) ELSE p = -1

\* The bitmap queue is the scheduler's ready queue: each operation has the
\* effect of the abstract one, so threads of a priority are served in the order
\* they were enqueued, and schedule() takes the head of the highest list.
Ready == INSTANCE ReadyQueue WITH prio_queue <- rq.prio_queue
ImplementsReadyQueue == Ready!RQSpec
=============================================================================
