--------------------------- MODULE NanoFutexProofs --------------------------
(***************************************************************************)
(* The inductive invariant of the nanokernel, for every image: any number  *)
(* of threads, priorities, interrupts, futex tags and hash slots.  It      *)
(* says, of a snapshot of the state, what each list holds.  Ready(s, X)    *)
(* leaves out the threads of X, which a handler has in hand; a thread that *)
(* is runnable is in none of the structures of Waits(s).  The scheduler,   *)
(* the futexes and the interrupts keep it, and the image satisfies it.     *)
(***************************************************************************)
EXTENDS NanoThread, WellFoundedInduction, TLAPS

-----------------------------------------------------------------------------
(* The lists of the kernel as sequences, and Min() and Max()               *)

\* q is a sequence over T that lists the elements of M, once each.
IsList(T, q, M) == q \in Seq(T) /\ NoRepeats(q) /\ Members(q) = M

\* Members() and NoRepeats() in terms of the places of the list.
LEMMA Places ==
    ASSUME NEW T, NEW q \in Seq(T)
    PROVE  /\ Len(q) \in Nat /\ DOMAIN q = 1 .. Len(q)
           /\ \A i \in 1 .. Len(q) : q[i] \in T /\ q[i] \in Members(q)
           /\ \A x \in Members(q) : \E i \in 1 .. Len(q) : q[i] = x
           /\ NoRepeats(q) <=> \A i, j \in 1 .. Len(q) : q[i] = q[j] => i = j
  <1>1. Len(q) \in Nat /\ DOMAIN q = 1 .. Len(q) /\ \A i \in 1 .. Len(q) : q[i] \in T
    OBVIOUS
  <1> QED
    BY <1>1, Zenon DEF Members, NoRepeats

\* It is enough to compare places.
LEMMA PlacesDiffer ==
    ASSUME NEW T, NEW r \in Seq(T),
           \A j, k \in 1 .. Len(r) : r[j] = r[k] => j = k
    PROVE  NoRepeats(r)
  BY Places, Zenon

\* A list is empty exactly when it lists nobody.
LEMMA ListEmpty ==
    ASSUME NEW T, NEW q, NEW M, IsList(T, q, M)
    PROVE  q = <<>> <=> M = {}
  <1>1. q \in Seq(T) /\ M = Members(q)
    BY Zenon DEF IsList
  <1>2. ASSUME q = <<>> PROVE M = {}
    BY <1>1, <1>2 DEF Members
  <1>3. ASSUME q # <<>> PROVE M # {}
    <2>1. Len(q) \in Nat \ {0}
      BY <1>1, <1>3
    <2> QED
      BY <1>1, <2>1, Places
  <1> QED
    BY <1>2, <1>3, Zenon

\* ENQUEUE at the tail adds the element.
LEMMA ListAppend ==
    ASSUME NEW T, NEW q, NEW M, NEW e \in T, IsList(T, q, M), e \notin M
    PROVE  IsList(T, Append(q, e), M \cup {e})
  <1> DEFINE r == Append(q, e)
  <1>1. q \in Seq(T) /\ M = Members(q) /\ NoRepeats(q)
    BY Zenon DEF IsList
  <1>2. /\ r \in Seq(T) /\ Len(r) = Len(q) + 1 /\ r[Len(q) + 1] = e
        /\ \A j \in 1 .. Len(q) : r[j] = q[j]
    BY <1>1
  <1> HIDE DEF r
  <1>3. NoRepeats(r)
    BY <1>1, <1>2, Places
  <1>4. Members(r) \subseteq M \cup {e}
    BY <1>1, <1>2, Places
  <1>5. M \subseteq Members(r)
    BY <1>1, <1>2, Places
  <1>6. e \in Members(r)
    BY <1>1, <1>2, Places
  <1> QED
    BY <1>2, <1>3, <1>4, <1>5, <1>6, Zenon DEF IsList, r

\* Taking the head removes it.
LEMMA ListTail ==
    ASSUME NEW T, NEW q, NEW M, IsList(T, q, M), q # <<>>
    PROVE  /\ Head(q) \in M /\ Head(q) \in T
           /\ IsList(T, Tail(q), M \ {Head(q)})
  <1> DEFINE r == Tail(q)
             e == Head(q)
  <1>1. q \in Seq(T) /\ M = Members(q) /\ NoRepeats(q)
    BY Zenon DEF IsList
  <1>2. Len(q) \in Nat \ {0}
    BY <1>1
  <1>3. /\ r \in Seq(T) /\ Len(r) = Len(q) - 1 /\ q[1] = e
        /\ \A j \in 1 .. Len(r) : r[j] = q[j + 1]
    BY <1>1
  <1> HIDE DEF r, e
  <1>4. NoRepeats(r)
    <2>1. ASSUME NEW j \in 1 .. Len(r), NEW k \in 1 .. Len(r), r[j] = r[k] PROVE j = k
      <3>1. j + 1 \in 1 .. Len(q) /\ k + 1 \in 1 .. Len(q) /\ q[j + 1] = q[k + 1]
        BY <1>2, <1>3, <2>1
      <3>2. j + 1 = k + 1
        BY <1>1, <3>1, Places, Zenon
      <3> QED
        BY <3>2
    <2> QED
      BY <1>3, <2>1, PlacesDiffer, Zenon
  <1>5. e \in M /\ e \in T
    BY <1>1, <1>2, <1>3, Places
  <1>6. Members(r) \subseteq M \ {e}
    <2>1. ASSUME NEW x \in Members(r) PROVE x \in M \ {e}
      <3>1. PICK k \in 1 .. Len(r) : r[k] = x
        BY <1>3, Places
      <3>2. k + 1 \in 1 .. Len(q) /\ q[k + 1] = x /\ k + 1 # 1 /\ 1 \in 1 .. Len(q)
        BY <1>2, <1>3, <3>1
      <3> QED
        BY <1>1, <1>3, <3>2, Places
    <2> QED
      BY <2>1, Zenon
  <1>7. ASSUME NEW x \in M \ {e} PROVE x \in Members(r)
    <2>1. PICK k \in 1 .. Len(q) : q[k] = x
      BY <1>1, Places, Zenon
    <2>2. k - 1 \in 1 .. Len(r) /\ r[k - 1] = x
      BY <1>2, <1>3, <2>1
    <2> QED
      BY <1>3, <2>2, Places, Zenon
  <1> QED
    BY <1>3, <1>4, <1>5, <1>6, <1>7, Zenon DEF IsList, r, e

\* Min() of numbers is the least of them.
LEMMA MinIsLeast ==
    ASSUME NEW W \in SUBSET Nat, W # {}
    PROVE  Min(W) \in W /\ \A x \in W : Min(W) <= x
  <1>1. PICK m \in W : \A y \in W : ~(<<y, m>> \in OpToRel(<, Nat))
    BY NatLessThanWellFounded, WFMin, Zenon
  <1>2. ASSUME NEW y \in W PROVE m <= y
    <2>1. y < m => <<y, m>> \in OpToRel(<, Nat)
      BY Zenon DEF OpToRel
    <2>2. ~(y < m)
      BY <1>1, <2>1, Zenon
    <2> QED
      BY <2>2
  <1>3. \E x \in W : \A y \in W : x =< y
    BY <1>2, Zenon
  <1> QED
    BY <1>3, Zenon DEF Min

\* Max() of numbers that have a bound is the greatest of them.
LEMMA MaxIsGreatest ==
    ASSUME NEW n \in Int, NEW W \in SUBSET Int, W # {}, \A x \in W : x <= n
    PROVE  Max(W) \in W /\ \A x \in W : x <= Max(W)
  <1> DEFINE T == {m \in Nat : n - m \in W}
  <1>1. T \in SUBSET Nat /\ T # {}
    <2>1. PICK c \in W : TRUE
      BY Zenon
    <2>2. n - c \in Nat /\ n - (n - c) = c
      BY <2>1
    <2>3. n - c \in T
      BY <2>1, <2>2, Zenon
    <2> QED
      BY <2>3, Zenon
  <1>2. Min(T) \in T /\ \A x \in T : Min(T) <= x
    <2> HIDE DEF T
    <2> QED
      BY <1>1, MinIsLeast, Zenon
  <1>3. ASSUME NEW c \in W PROVE c <= n - Min(T)
    <2>1. n - c \in T
      <3>1. n - c \in Nat /\ n - (n - c) = c
        OBVIOUS
      <3> QED
        BY <3>1, Zenon
    <2>2. Min(T) <= n - c /\ Min(T) \in Nat
      BY <1>1, <1>2, <2>1, Zenon
    <2> QED
      BY <2>2
  <1>4. n - Min(T) \in W
    BY <1>2, Zenon
  <1>5. \E x \in W : \A y \in W : x >= y
    BY <1>1, <1>2, <1>3, <1>4, Zenon
  <1> QED
    BY <1>5, Zenon DEF Max

-----------------------------------------------------------------------------
(* The invariant                                                           *)

Snapshots ==
    [tcb : [Tcbs -> TcbType], current : Tcbs \cup {idle, NULL}, next : Tcbs \cup {idle, NULL},
     ready : [Prio -> Seq(Tcbs)], free : Seq(Tcbs), chain : [Slots -> Seq(Tcbs)],
     pending : Seq(Tags), handler : [Interrupts -> Tcbs \cup {NULL}],
     unmasked : SUBSET Interrupts, failed : SUBSET STRING]

\* The ready lists hold the runnable threads but for those of X, at their priorities.
RunnableAt(s, p, X) ==
    {t \in Tcbs \ X : s.tcb[t].state = "RUNNABLE" /\ s.tcb[t].priority = p}

Ready(s, X) == \A p \in Prio : IsList(Tcbs, s.ready[p], RunnableAt(s, p, X))

\* No thread on the ready lists is above the one that runs.
Highest(s) ==
    /\ s.next \in Tcbs => /\ s.tcb[s.next].state = "RUNNABLE"
                          /\ \A p \in Prio : s.ready[p] # <<>> => p <= s.tcb[s.next].priority
    /\ s.next = idle => \A p \in Prio : s.ready[p] = <<>>

\* The threads that sleep on a futex are in the chain of their tag, the highest priority
\* first, and no signal for their tag is pending.
Sleepers(s, h) ==
    {t \in Tcbs : s.tcb[t].state = "WAIT_FUTEX" /\ hash_tag[s.tcb[t].waits_for] = h}

Falling(s, q) ==
    \A i, j \in DOMAIN q : i < j => s.tcb[q[i]].priority >= s.tcb[q[j]].priority

Futexes(s) ==
    /\ Len(s.pending) <= max_tcbs
    /\ \A h \in Slots : IsList(Tcbs, s.chain[h], Sleepers(s, h)) /\ Falling(s, s.chain[h])
    /\ \A t \in Tcbs : s.tcb[t].state = "WAIT_FUTEX" =>
         /\ s.tcb[t].waits_for \in Tags
         /\ \A i \in DOMAIN s.pending : s.pending[i] # s.tcb[t].waits_for

\* The threads that wait to send are in the list of their destination, which waits for
\* none of them.
IsSender(s, t) == s.tcb[t].state \in {"WAIT_IPC_SEND", "WAIT_IPC_CALL"}

SendersTo(s, d) == {t \in Tcbs : IsSender(s, t) /\ s.tcb[t].waits_for = d}

Messages(s) ==
    /\ \A d \in Tcbs :
         /\ IsList(Tcbs, s.tcb[d].senders, SendersTo(s, d))
         /\ s.tcb[d].state = "WAIT_IPC_RECV" =>
              \A t \in SendersTo(s, d) : s.tcb[d].waits_for \notin {t, NULL}
    /\ \A t \in Tcbs : IsSender(s, t) => s.tcb[t].waits_for \in Tcbs

\* A thread that waits for signals has none of them.
SignalWaits(s) ==
    \A t \in Tcbs : s.tcb[t].state = "WAIT_SIGNAL" =>
        s.tcb[t].waits_for \in SUBSET Signals /\ s.tcb[t].signals \cap s.tcb[t].waits_for = {}

\* The free list holds the halted threads; a thread that joins is the joiner of one
\* thread that lives.
Lives(s) ==
    /\ IsList(Tcbs, s.free, {t \in Tcbs : s.tcb[t].state = "HALTED"})
    /\ \A u \in Tcbs : s.tcb[u].joiner # NULL =>
         s.tcb[u].state \notin DeadStates /\ s.tcb[s.tcb[u].joiner].state = "WAIT_JOIN"
    /\ \A u, v \in Tcbs :
         s.tcb[u].joiner # NULL /\ s.tcb[u].joiner = s.tcb[v].joiner => u = v
    /\ \A t \in Tcbs : s.tcb[t].state = "WAIT_JOIN" => \E u \in Tcbs : s.tcb[u].joiner = t

\* handler and registered_interrupt are inverse to each other, and the interrupts that
\* get through are those of the threads that wait for them.
Handlers(s) ==
    /\ \A i \in Interrupts, t \in Tcbs : s.handler[i] = t <=> s.tcb[t].registered_interrupt = i
    /\ \A t \in Tcbs : s.tcb[t].state \in DeadStates => s.tcb[t].registered_interrupt = NULL
    /\ \A t \in Tcbs : s.tcb[t].state = "WAIT_INT" => s.tcb[t].registered_interrupt # NULL
    /\ \A i \in Interrupts : i \in s.unmasked <=>
         s.handler[i] # NULL /\ s.tcb[s.handler[i]].state = "WAIT_INT"

Waits(s) == Futexes(s) /\ Messages(s) /\ SignalWaits(s) /\ Lives(s) /\ Handlers(s)

\* What a handler finds and what it leaves to the thread that it switches to.
Settled(s) ==
    s \in Snapshots /\ s.failed = {} /\ Ready(s, {s.next}) /\ Highest(s) /\ Waits(s)

\* The inductive invariant.
IInv == Settled(S)

-----------------------------------------------------------------------------
(* The scheduler                                                           *)

\* The names that an image keeps apart.
LEMMA Image ==
    /\ MAX_PRIORITY \in Nat /\ -1 \notin Prio /\ Prio \subseteq Nat
    /\ idle \notin Tcbs /\ NULL \notin Tcbs /\ idle # NULL /\ NULL \notin Interrupts
  BY ImageAssumption DEF Prio

\* The types of a snapshot's fields.
LEMMA Types ==
    ASSUME NEW s \in Snapshots
    PROVE  /\ s.current \in Tcbs \cup {idle, NULL} /\ s.next \in Tcbs \cup {idle, NULL}
           /\ s.tcb \in [Tcbs -> TcbType]
           /\ s.ready \in [Prio -> Seq(Tcbs)] /\ s.chain \in [Slots -> Seq(Tcbs)]
           /\ s.free \in Seq(Tcbs) /\ s.pending \in Seq(Tags)
           /\ s.handler \in [Interrupts -> Tcbs \cup {NULL}]
           /\ s.unmasked \in SUBSET Interrupts /\ s.failed \in SUBSET STRING
           /\ \A t \in Tcbs :
                /\ s.tcb[t].state \in ThreadStates /\ s.tcb[t].priority \in Prio
                /\ s.tcb[t].senders \in Seq(Tcbs) /\ s.tcb[t].signals \in SUBSET Signals
                /\ s.tcb[t].registered_interrupt \in Interrupts \cup {NULL}
                /\ s.tcb[t].joiner \in Tcbs \cup {NULL}
                /\ s.tcb[t].waits_for \in Tags \cup Tcbs \cup (SUBSET Signals) \cup {NULL}
  BY Zenon DEF Snapshots, TcbType

\* get_highest_priority() finds the highest list that is not empty.
LEMMA HighestPriority ==
    ASSUME NEW s
    PROVE  \/ /\ GetHighestPriority(s) = -1
              /\ \A p \in Prio : s.ready[p] = <<>>
           \/ /\ GetHighestPriority(s) \in Prio
              /\ s.ready[GetHighestPriority(s)] # <<>>
              /\ \A p \in Prio : s.ready[p] # <<>> => p <= GetHighestPriority(s)
  <1> DEFINE W == {-1} \cup {p \in Prio : s.ready[p] # <<>>}
  <1>1. MAX_PRIORITY \in Int /\ W \in SUBSET Int /\ W # {} /\ \A x \in W : x <= MAX_PRIORITY
    BY ImageAssumption DEF Prio
  <1>2. Max(W) \in W /\ \A x \in W : x <= Max(W)
    <2> HIDE DEF W
    <2> QED
      BY <1>1, MaxIsGreatest, Zenon
  <1>3. GetHighestPriority(s) = Max(W)
    BY Zenon DEF GetHighestPriority
  <1> HIDE DEF GetHighestPriority
  <1>4. CASE Max(W) = -1
    BY <1>2, <1>3, <1>4, ImageAssumption DEF Prio
  <1>5. CASE Max(W) \in {p \in Prio : s.ready[p] # <<>>}
    BY <1>2, <1>3, <1>5, Zenon
  <1> QED
    BY <1>2, <1>4, <1>5, Zenon

\* What a scheduling decision leaves alone: everything but the ready lists and the
\* thread to switch to.
OnlySchedules(s, r) ==
    /\ r.tcb = s.tcb /\ r.current = s.current /\ r.free = s.free /\ r.chain = s.chain
    /\ r.pending = s.pending /\ r.handler = s.handler /\ r.unmasked = s.unmasked
    /\ r.failed = s.failed

\* do_schedule() takes the first thread of the highest priority from the ready lists.
LEMMA DoScheduleTakes ==
    ASSUME NEW s \in Snapshots, NEW X, Ready(s, X)
    PROVE  /\ DoSchedule(s) \in Snapshots /\ OnlySchedules(s, DoSchedule(s))
           /\ DoSchedule(s).next \in (Tcbs \ X) \cup {idle}
           /\ Ready(DoSchedule(s), X \cup {DoSchedule(s).next})
           /\ Highest(DoSchedule(s))
  <1> DEFINE r == DoSchedule(s)
             p == GetHighestPriority(s)
  <1>1. CASE p = -1
    <2>1. r = [s EXCEPT !.next = idle]
      BY <1>1, Zenon DEF DoSchedule
    <2>2. /\ r.next = idle /\ r.ready = s.ready
          /\ r \in Snapshots /\ OnlySchedules(s, r)
      BY <2>1, Zenon DEF OnlySchedules, Snapshots
    <2>3. \A x \in Prio : s.ready[x] = <<>>
      BY <1>1, HighestPriority, Image, Zenon
    <2>4. Highest(r)
      BY <2>2, <2>3, Image, Zenon DEF Highest
    <2>5. Ready(r, X \cup {r.next})
      <3> HIDE DEF r
      <3>1. ASSUME NEW x \in Prio PROVE RunnableAt(s, x, X) = RunnableAt(r, x, X \cup {idle})
        BY <2>2, Image, Zenon DEF RunnableAt, OnlySchedules
      <3> QED
        BY <2>2, <3>1, Zenon DEF Ready
    <2> QED
      BY <2>2, <2>4, <2>5, Zenon
  <1>2. CASE p # -1
    <2>1. p \in Prio /\ s.ready[p] # <<>> /\ \A x \in Prio : s.ready[x] # <<>> => x <= p
      BY <1>2, HighestPriority, Zenon
    <2> HIDE DEF p
    <2> DEFINE e == Head(s.ready[p])
    <2>2. IsList(Tcbs, s.ready[p], RunnableAt(s, p, X))
      BY <2>1, Zenon DEF Ready
    <2>3. e \in RunnableAt(s, p, X) /\ e \in Tcbs /\ IsList(Tcbs, Tail(s.ready[p]), RunnableAt(s, p, X) \ {e})
      BY <2>1, <2>2, ListTail, Zenon
    <2>4. r = [s EXCEPT !.ready[p] = Tail(@), !.next = e]
      BY <1>2, Zenon DEF DoSchedule, p
    <2>5. Tail(s.ready[p]) \in Seq(Tcbs)
      BY <2>3, Zenon DEF IsList
    <2> HIDE DEF e, r
    <2>6. /\ r.next = e /\ r.ready = [s.ready EXCEPT ![p] = Tail(@)]
          /\ r \in Snapshots /\ OnlySchedules(s, r)
      BY <2>1, <2>3, <2>4, <2>5, Zenon DEF OnlySchedules, Snapshots
    <2>7. Highest(r)
      <3>1. \A x \in Prio : r.ready[x] # <<>> => s.ready[x] # <<>>
        BY <2>1, <2>6, Types, Zenon
      <3>2. s.tcb[e].state = "RUNNABLE" /\ s.tcb[e].priority = p
        BY <2>3, Zenon DEF RunnableAt
      <3> QED
        BY <2>1, <2>3, <2>6, <3>1, <3>2, Image, Zenon DEF Highest, OnlySchedules
    <2>8. ASSUME NEW x \in Prio PROVE IsList(Tcbs, r.ready[x], RunnableAt(r, x, X \cup {e}))
      <3>1. CASE x = p
        <4>1. RunnableAt(r, x, X \cup {e}) = RunnableAt(s, p, X) \ {e}
          BY <2>6, <3>1, Zenon DEF RunnableAt, OnlySchedules
        <4> QED
          BY <2>1, <2>3, <2>6, <3>1, <4>1, Types, Zenon
      <3>2. CASE x # p
        <4>1. RunnableAt(r, x, X \cup {e}) = RunnableAt(s, x, X)
          BY <2>3, <2>6, <3>2, Zenon DEF RunnableAt, OnlySchedules
        <4>2. r.ready[x] = s.ready[x]
          BY <2>6, <3>2, Types, Zenon
        <4> QED
          BY <4>1, <4>2, Zenon DEF Ready
      <3> QED
        BY <3>1, <3>2, Zenon
    <2>9. Ready(r, X \cup {r.next})
      BY <2>6, <2>8, Zenon DEF Ready
    <2>10. r.next \in (Tcbs \ X) \cup {idle}
      BY <2>3, <2>6, Zenon DEF RunnableAt
    <2> QED
      BY <2>6, <2>7, <2>9, <2>10, Zenon DEF r
  <1> QED
    BY <1>1, <1>2, Zenon

\* The part of Waits(s) that is about the other lists.
Linked(s) ==
    Futexes(s) /\ Messages(s) /\ IsList(Tcbs, s.free, {t \in Tcbs : s.tcb[t].state = "HALTED"})

\* It is a part of Waits(s).
LEMMA WaitsLinked ==
    ASSUME NEW s, Waits(s) PROVE Linked(s)
  BY Zenon DEF Waits, Lives, Linked

\* A runnable thread that a handler has in hand is in no list.
LEMMA InHandUnlinked ==
    ASSUME NEW s \in Snapshots, NEW X, NEW t \in Tcbs \cap X,
           Ready(s, X), Linked(s), s.tcb[t].state = "RUNNABLE"
    PROVE  Unlinked(s, t)
  <1>1. \A p \in Prio : t \notin Members(s.ready[p])
    BY Zenon DEF Ready, IsList, RunnableAt
  <1>2. \A h \in Slots : t \notin Members(s.chain[h])
    BY Zenon DEF Linked, Futexes, IsList, Sleepers
  <1>3. \A u \in Tcbs : t \notin Members(s.tcb[u].senders)
    BY DEF Linked, Messages, IsList, SendersTo, IsSender
  <1>4. t \notin Members(s.free)
    BY Zenon DEF Linked, IsList
  <1> QED
    BY <1>1, <1>2, <1>3, <1>4, Zenon DEF Unlinked

\* enqueue() puts a runnable thread that the handler has in hand on its ready list.
LEMMA EnqueueAdds ==
    ASSUME NEW s \in Snapshots, NEW X, NEW t \in Tcbs \cap X,
           Ready(s, X), Linked(s), s.tcb[t].state = "RUNNABLE"
    PROVE  /\ Enqueue(s, t) \in Snapshots /\ OnlySchedules(s, Enqueue(s, t))
           /\ Enqueue(s, t).next = s.next
           /\ Enqueue(s, t).ready = [s.ready EXCEPT ![s.tcb[t].priority] = Append(@, t)]
           /\ Ready(Enqueue(s, t), X \ {t})
  <1> DEFINE r == Enqueue(s, t)
             p == s.tcb[t].priority
  <1>1. p \in Prio /\ s.ready \in [Prio -> Seq(Tcbs)]
    BY Types, Zenon
  <1>2. r = [s EXCEPT !.ready[p] = Append(@, t)]
    BY InHandUnlinked, Zenon DEF Enqueue, Require, EnqueueListTail, PrioOf
  <1>3. IsList(Tcbs, Append(s.ready[p], t), RunnableAt(s, p, X) \cup {t})
    BY <1>1, ListAppend, Zenon DEF Ready, RunnableAt
  <1>4. Append(s.ready[p], t) \in Seq(Tcbs)
    BY <1>3, Zenon DEF IsList
  <1> HIDE DEF r, p
  <1>5. /\ r.next = s.next /\ r.ready = [s.ready EXCEPT ![p] = Append(@, t)]
        /\ r \in Snapshots /\ OnlySchedules(s, r)
    BY <1>1, <1>2, <1>4, Zenon DEF OnlySchedules, Snapshots
  <1>6. ASSUME NEW x \in Prio PROVE IsList(Tcbs, r.ready[x], RunnableAt(r, x, X \ {t}))
    <2>1. CASE x = p
      <3>1. RunnableAt(r, x, X \ {t}) = RunnableAt(s, p, X) \cup {t}
        BY <1>5, <2>1, Zenon DEF RunnableAt, OnlySchedules, p
      <3> QED
        BY <1>1, <1>3, <1>5, <2>1, <3>1, Zenon
    <2>2. CASE x # p
      <3>1. RunnableAt(r, x, X \ {t}) = RunnableAt(s, x, X)
        BY <1>5, <2>2, Zenon DEF RunnableAt, OnlySchedules, p
      <3>2. r.ready[x] = s.ready[x]
        BY <1>1, <1>5, <2>2, Zenon
      <3> QED
        BY <3>1, <3>2, Zenon DEF Ready
    <2> QED
      BY <2>1, <2>2, Zenon
  <1> QED
    BY <1>5, <1>6, Zenon DEF Ready, r, p

\* The scheduler does not touch what threads wait for.
LEMMA SchedulingKeepsWaits ==
    ASSUME NEW s, NEW r, OnlySchedules(s, r), Waits(s)
    PROVE  Waits(r)
  <1>1. Futexes(r)
    BY ZenonT(60) DEF Waits, OnlySchedules, Futexes, Sleepers, Falling
  <1>2. Messages(r)
    BY ZenonT(60) DEF Waits, OnlySchedules, Messages, SendersTo, IsSender
  <1>3. SignalWaits(r)
    BY Zenon DEF Waits, OnlySchedules, SignalWaits
  <1>4. Lives(r)
    BY DEF Waits, OnlySchedules, Lives
  <1>5. Handlers(r)
    BY DEF Waits, OnlySchedules, Handlers
  <1> QED
    BY <1>1, <1>2, <1>3, <1>4, <1>5, Zenon DEF Waits

\* Two snapshots that agree about the ready lists and about who is runnable.
SameRunning(s, r) ==
    /\ r.ready = s.ready /\ r.next = s.next
    /\ \A t \in Tcbs : /\ r.tcb[t].state = "RUNNABLE" <=> s.tcb[t].state = "RUNNABLE"
                       /\ r.tcb[t].priority = s.tcb[t].priority

\* They agree about the scheduling.
LEMMA SameRunningKeeps ==
    ASSUME NEW s, NEW r, SameRunning(s, r)
    PROVE  /\ \A X : Ready(s, X) => Ready(r, X)
           /\ Highest(s) => Highest(r)
  <1>1. ASSUME NEW X, Ready(s, X), NEW p \in Prio
        PROVE  IsList(Tcbs, r.ready[p], RunnableAt(r, p, X))
    <2>1. RunnableAt(r, p, X) = RunnableAt(s, p, X)
      BY Zenon DEF SameRunning, RunnableAt
    <2> QED
      BY <1>1, <2>1, Zenon DEF SameRunning, Ready
  <1>2. \A X : Ready(s, X) => Ready(r, X)
    BY <1>1, Zenon DEF Ready
  <1> QED
    BY <1>2, Zenon DEF SameRunning, Highest

\* t gets another state and waits for something else; but for the scheduling nothing
\* else changes.
Turns(s, r, t, st, w) ==
    /\ r.current = s.current /\ r.free = s.free /\ r.chain = s.chain
    /\ r.pending = s.pending /\ r.handler = s.handler
    /\ r.unmasked = s.unmasked /\ r.failed = s.failed
    /\ \A u \in Tcbs \ {t} : r.tcb[u] = s.tcb[u]
    /\ r.tcb[t].state = st /\ r.tcb[t].waits_for = w
    /\ r.tcb[t].priority = s.tcb[t].priority /\ r.tcb[t].senders = s.tcb[t].senders
    /\ r.tcb[t].signals = s.tcb[t].signals /\ r.tcb[t].joiner = s.tcb[t].joiner
    /\ r.tcb[t].registered_interrupt = s.tcb[t].registered_interrupt

\* The same, and the scheduling does not change either.
Becomes(s, r, t, st, w) == Turns(s, r, t, st, w) /\ r.next = s.next /\ r.ready = s.ready

\* An assignment to the state.
LEMMA StateAssigned ==
    ASSUME NEW s \in Snapshots, NEW t \in Tcbs, NEW st \in ThreadStates
    PROVE  /\ SetState(s, t, st) \in Snapshots
           /\ Becomes(s, SetState(s, t, st), t, st, s.tcb[t].waits_for)
  BY ZenonT(60) DEF SetState, Becomes, Turns, Snapshots, TcbType

\* An assignment to what the thread waits for.
LEMMA WaitAssigned ==
    ASSUME NEW s \in Snapshots, NEW t \in Tcbs,
           NEW w \in Tags \cup Tcbs \cup (SUBSET Signals) \cup {NULL}
    PROVE  /\ WaitFor(s, t, w) \in Snapshots
           /\ Becomes(s, WaitFor(s, t, w), t, s.tcb[t].state, w)
  BY ZenonT(60) DEF WaitFor, Becomes, Turns, Snapshots, TcbType

\* A thread becomes runnable and waits for nothing.
LEMMA RunnableAssigned ==
    ASSUME NEW s \in Snapshots, NEW t \in Tcbs
    PROVE  /\ SetRunnable(s, t) \in Snapshots
           /\ Becomes(s, SetRunnable(s, t), t, "RUNNABLE", NULL)
  <1> DEFINE a == SetState(s, t, "RUNNABLE")
             r == WaitFor(a, t, NULL)
  <1>1. a \in Snapshots /\ Becomes(s, a, t, "RUNNABLE", s.tcb[t].waits_for)
    BY StateAssigned, Zenon DEF ThreadStates
  <1> HIDE DEF a
  <1>2. r \in Snapshots /\ Becomes(a, r, t, a.tcb[t].state, NULL)
    <2>1. NULL \in Tags \cup Tcbs \cup (SUBSET Signals) \cup {NULL}
      BY Zenon
    <2> QED
      BY <1>1, <2>1, WaitAssigned, Zenon
  <1>3. SetRunnable(s, t) = r
    BY Zenon DEF SetRunnable, a
  <1> HIDE DEF r
  <1> QED
    BY <1>1, <1>2, <1>3, Zenon DEF Becomes, Turns

\* deactivate_self_schedule(): current goes to sleep, the highest ready thread is next.
LEMMA Deschedules ==
    ASSUME NEW s \in Snapshots, s.failed = {}, s.current \in Tcbs, Ready(s, {s.current}),
           s.tcb[s.current].state = "RUNNABLE", NEW st \in ThreadStates \ {"RUNNABLE"}
    PROVE  LET r == DeactivateSelfSchedule(s, st)
               d == SetState(s, s.current, st)
           IN /\ r \in Snapshots /\ OnlySchedules(d, r)
              /\ d \in Snapshots /\ Becomes(s, d, s.current, st, s.tcb[s.current].waits_for)
              /\ Ready(r, {r.next}) /\ Highest(r) /\ r.next \in Tcbs \cup {idle}
  <1> DEFINE d == SetState(s, s.current, st)
             r == DeactivateSelfSchedule(s, st)
  <1>1. r = DoSchedule(d)
    BY Zenon DEF DeactivateSelfSchedule, DeactivateSelf, Require, IsRunnable
  <1>2. d \in Snapshots /\ Becomes(s, d, s.current, st, s.tcb[s.current].waits_for)
    BY StateAssigned, Zenon
  <1> HIDE DEF d, r
  <1>3. Ready(d, {})
    <2>1. ASSUME NEW p \in Prio PROVE RunnableAt(d, p, {}) = RunnableAt(s, p, {s.current})
      BY <1>2 DEF RunnableAt, Becomes, Turns
    <2> QED
      BY <1>2, <2>1, Zenon DEF Ready, Becomes, Turns
  <1>4. /\ r \in Snapshots /\ OnlySchedules(d, r) /\ Highest(r)
        /\ r.next \in Tcbs \cup {idle} /\ Ready(r, {} \cup {r.next})
    BY <1>1, <1>2, <1>3, DoScheduleTakes, Zenon
  <1>5. {} \cup {r.next} = {r.next}
    BY Zenon
  <1> QED
    BY <1>2, <1>4, <1>5, Zenon DEF d, r

\* A thread that becomes runnable is in the handler's hand.
LEMMA WokenInHand ==
    ASSUME NEW s \in Snapshots, NEW c, NEW dest \in Tcbs, s.tcb[dest].state # "RUNNABLE",
           Ready(s, {c})
    PROVE  Ready(SetRunnable(s, dest), {c, dest})
  <1> DEFINE r == SetRunnable(s, dest)
  <1>1. r \in Snapshots /\ Becomes(s, r, dest, "RUNNABLE", NULL)
    BY RunnableAssigned, Zenon
  <1> HIDE DEF r
  <1>2. ASSUME NEW p \in Prio PROVE RunnableAt(r, p, {c, dest}) = RunnableAt(s, p, {c})
    BY <1>1 DEF RunnableAt, Becomes, Turns
  <1> QED
    BY <1>1, <1>2, Zenon DEF Ready, Becomes, Turns, r

\* activate() makes dest runnable and puts it on its ready list.
LEMMA Activates ==
    ASSUME NEW s \in Snapshots, NEW c, NEW dest \in Tcbs, dest # c,
           s.tcb[dest].state # "RUNNABLE", Ready(s, {c}), Linked(SetRunnable(s, dest))
    PROVE  /\ Activate(s, dest) \in Snapshots
           /\ OnlySchedules(SetRunnable(s, dest), Activate(s, dest))
           /\ Activate(s, dest).next = s.next
           /\ Ready(Activate(s, dest), {c})
  <1> DEFINE r == SetRunnable(s, dest)
  <1>1. r \in Snapshots /\ Becomes(s, r, dest, "RUNNABLE", NULL)
    BY RunnableAssigned, Zenon
  <1>2. Ready(r, {c, dest})
    BY WokenInHand, Zenon
  <1>3. Activate(s, dest) = Enqueue(r, dest)
    BY Zenon DEF Activate, Require, IsRunnable
  <1> HIDE DEF r
  <1>4. r.tcb[dest].state = "RUNNABLE" /\ r.next = s.next /\ dest \in Tcbs \cap {c, dest}
    BY <1>1, Zenon DEF Becomes, Turns
  <1>5. Linked(r)
    BY Zenon DEF r
  <1>6. /\ Enqueue(r, dest) \in Snapshots /\ OnlySchedules(r, Enqueue(r, dest))
        /\ Enqueue(r, dest).next = r.next /\ Ready(Enqueue(r, dest), {c, dest} \ {dest})
    BY <1>1, <1>2, <1>4, <1>5, EnqueueAdds, Zenon
  <1>7. {c, dest} \ {dest} = {c}
    BY Zenon
  <1> QED
    BY <1>3, <1>4, <1>6, <1>7, Zenon DEF r

\* activate_schedule(): the higher of current and dest is next, the other one is ready.
LEMMA ActivateScheduleSettles ==
    ASSUME NEW s \in Snapshots, NEW dest \in Tcbs, dest # s.current,
           s.failed = {}, s.current \in Tcbs \cup {idle}, s.next = s.current,
           s.tcb[dest].state # "RUNNABLE", Ready(s, {s.current}), Highest(s),
           Waits(SetRunnable(s, dest))
    PROVE  Settled(ActivateSchedule(s, dest))
  <1> DEFINE c == s.current
             w == SetRunnable(s, dest)
             r == ActivateSchedule(s, dest)
  <1>1. w \in Snapshots /\ Becomes(s, w, dest, "RUNNABLE", NULL) /\ Waits(w)
    BY RunnableAssigned, Zenon
  <1>2. Ready(w, {c, dest})
    BY WokenInHand, Zenon
  <1>3. c # idle => IsRunnable(s, c)
    BY Zenon DEF Highest, IsRunnable
  <1>4. r = IF c = idle THEN [w EXCEPT !.next = dest]
            ELSE IF s.tcb[dest].priority > s.tcb[c].priority
            THEN [Enqueue(w, c) EXCEPT !.next = dest] ELSE Enqueue(w, dest)
    BY <1>3, Zenon DEF ActivateSchedule, Require, IsRunnable, PrioOf
  <1> SUFFICES Settled(r)
    BY Zenon DEF r
  <1> HIDE DEF w, r
  <1>5. /\ w.tcb[dest].state = "RUNNABLE" /\ w.next = c /\ w.failed = {} /\ w.ready = s.ready
        /\ w.tcb[dest].priority = s.tcb[dest].priority
        /\ c # idle => w.tcb[c] = s.tcb[c] /\ w.tcb[c].state = "RUNNABLE" /\ c \in Tcbs
    BY <1>1, <1>3, Types, Image DEF Becomes, Turns, IsRunnable
  <1>a. /\ s.tcb[dest].priority \in Nat /\ s.tcb[dest].priority \in Prio
        /\ c # idle => s.tcb[c].priority \in Nat /\ s.tcb[c].priority \in Prio
    BY Types, Image, Zenon
  <1>h. ASSUME c # idle, NEW p \in Prio, s.ready[p] # <<>> PROVE p <= s.tcb[c].priority
    BY <1>h, Zenon DEF Highest
  <1>r. s.ready \in [Prio -> Seq(Tcbs)]
    BY Types, Zenon
  <1>6. CASE c = idle
    <2>1. r = [w EXCEPT !.next = dest]
      BY <1>4, <1>6, Zenon
    <2>2. r \in Snapshots /\ OnlySchedules(w, r) /\ r.next = dest /\ r.ready = w.ready
      BY <1>1, <2>1, Zenon DEF Snapshots, OnlySchedules
    <2>3. Ready(r, {r.next})
      <3>1. ASSUME NEW p \in Prio PROVE RunnableAt(r, p, {dest}) = RunnableAt(w, p, {c, dest})
        BY <1>6, <2>2, Image, Zenon DEF RunnableAt, OnlySchedules
      <3> QED
        BY <1>2, <2>2, <3>1, Zenon DEF Ready
    <2>4. \A p \in Prio : r.ready[p] = <<>>
      BY <1>5, <1>6, <2>2, Zenon DEF Highest
    <2>5. Highest(r) /\ r.failed = {}
      BY <1>5, <2>2, <2>4, Image, Zenon DEF Highest, OnlySchedules
    <2> QED
      BY <1>1, <2>2, <2>3, <2>5, SchedulingKeepsWaits, Zenon DEF Settled
  <1>7. CASE c # idle /\ s.tcb[dest].priority > s.tcb[c].priority
    <2> DEFINE e == Enqueue(w, c)
    <2>0. c \in Tcbs \cap {c, dest}
      BY <1>5, <1>7, Zenon
    <2>1. /\ e \in Snapshots /\ OnlySchedules(w, e)
          /\ e.ready = [w.ready EXCEPT ![w.tcb[c].priority] = Append(@, c)]
          /\ Ready(e, {c, dest} \ {c})
      <3>1. w \in Snapshots /\ Ready(w, {c, dest}) /\ Linked(w) /\ w.tcb[c].state = "RUNNABLE"
        BY <1>1, <1>2, <1>5, <1>7, WaitsLinked, Zenon
      <3> QED
        BY <2>0, <3>1, EnqueueAdds, ZenonT(60)
    <2> HIDE DEF e
    <2>2. r = [e EXCEPT !.next = dest]
      BY <1>4, <1>7, Zenon DEF e
    <2>3. /\ r \in Snapshots /\ OnlySchedules(w, r) /\ r.next = dest /\ r.ready = e.ready
          /\ r.tcb = w.tcb /\ e.tcb = w.tcb
      BY <2>1, <2>2, Zenon DEF Snapshots, OnlySchedules
    <2>4. Ready(r, {r.next})
      <3>1. ASSUME NEW p \in Prio PROVE RunnableAt(r, p, {dest}) = RunnableAt(e, p, {c, dest} \ {c})
        BY <2>3, Zenon DEF RunnableAt
      <3> QED
        BY <2>1, <2>3, <3>1, Zenon DEF Ready
    <2>5. ASSUME NEW p \in Prio, r.ready[p] # <<>> PROVE p <= s.tcb[dest].priority
      <3>1. CASE p = s.tcb[c].priority
        BY <1>7, <1>a, <3>1
      <3>2. CASE p # s.tcb[c].priority
        <4>1. r.ready[p] = s.ready[p]
          <5>1. r.ready = [s.ready EXCEPT ![s.tcb[c].priority] = Append(@, c)]
            BY <1>5, <1>7, <2>1, <2>3, Zenon
          <5> QED
            BY <1>r, <3>2, <5>1, Zenon
        <4>2. p <= s.tcb[c].priority /\ p \in Nat
          BY <1>7, <1>h, <2>5, <4>1, Image, Zenon
        <4> QED
          BY <1>7, <1>a, <4>2
      <3> QED
        BY <3>1, <3>2, Zenon
    <2>6. Highest(r) /\ r.failed = {}
      BY <1>5, <2>3, <2>5, Image, Zenon DEF Highest, OnlySchedules
    <2> QED
      BY <1>1, <2>3, <2>4, <2>6, SchedulingKeepsWaits, Zenon DEF Settled
  <1>8. CASE c # idle /\ ~(s.tcb[dest].priority > s.tcb[c].priority)
    <2>0. dest \in Tcbs \cap {c, dest}
      BY Zenon
    <2>1. r = Enqueue(w, dest)
      BY <1>4, <1>8, Zenon
    <2>2. /\ r \in Snapshots /\ OnlySchedules(w, r) /\ r.next = w.next
          /\ r.ready = [w.ready EXCEPT ![w.tcb[dest].priority] = Append(@, dest)]
          /\ Ready(r, {c, dest} \ {dest})
      <3>1. /\ w \in Snapshots /\ Ready(w, {c, dest}) /\ Linked(w)
            /\ w.tcb[dest].state = "RUNNABLE"
        BY <1>1, <1>2, <1>5, WaitsLinked, Zenon
      <3>2. LET e == Enqueue(w, dest)
            IN /\ e \in Snapshots /\ OnlySchedules(w, e) /\ e.next = w.next
               /\ e.ready = [w.ready EXCEPT ![w.tcb[dest].priority] = Append(@, dest)]
               /\ Ready(e, {c, dest} \ {dest})
        BY <2>0, <3>1, EnqueueAdds, Zenon
      <3> QED
        BY <2>1, <3>2, Zenon
    <2>3. {c, dest} \ {dest} = {r.next}
      BY <1>5, <2>2, Zenon
    <2>4. ASSUME NEW p \in Prio, r.ready[p] # <<>> PROVE p <= s.tcb[c].priority
      <3>1. CASE p = s.tcb[dest].priority
        BY <1>8, <1>a, <3>1
      <3>2. CASE p # s.tcb[dest].priority
        <4>1. r.ready[p] = s.ready[p]
          BY <1>5, <1>r, <2>2, <3>2, Zenon
        <4> QED
          BY <1>8, <1>h, <2>4, <4>1, Zenon
      <3> QED
        BY <3>1, <3>2, Zenon
    <2>5. Highest(r) /\ r.failed = {}
      BY <1>5, <1>8, <2>2, <2>4, Zenon DEF Highest, OnlySchedules
    <2> QED
      BY <1>1, <2>2, <2>3, <2>5, SchedulingKeepsWaits, Zenon DEF Settled
  <1> QED
    BY <1>6, <1>7, <1>8, Zenon

\* A caller that goes to sleep: the state and what it waits for change, and the highest
\* ready thread is next.
LEMMA FallsAsleep ==
    ASSUME NEW s \in Snapshots, s.failed = {}, s.current \in Tcbs, Ready(s, {s.current}),
           s.tcb[s.current].state = "RUNNABLE", NEW st \in ThreadStates \ {"RUNNABLE"},
           NEW w \in Tags \cup Tcbs \cup (SUBSET Signals) \cup {NULL}
    PROVE  LET r == SleepOn(s, st, w)
           IN /\ r \in Snapshots /\ Turns(s, r, s.current, st, w)
              /\ Ready(r, {r.next}) /\ Highest(r) /\ r.next \in Tcbs \cup {idle}
  <1> DEFINE c == s.current
             d == SetState(s, c, st)
             a == DeactivateSelfSchedule(s, st)
             r == WaitFor(a, c, w)
  <1>1. /\ a \in Snapshots /\ OnlySchedules(d, a)
        /\ d \in Snapshots /\ Becomes(s, d, c, st, s.tcb[c].waits_for)
        /\ Ready(a, {a.next}) /\ Highest(a) /\ a.next \in Tcbs \cup {idle}
    BY Deschedules, Zenon
  <1> HIDE DEF a, d
  <1>2. r \in Snapshots /\ Becomes(a, r, c, a.tcb[c].state, w)
    BY <1>1, WaitAssigned, Zenon
  <1>3. SleepOn(s, st, w) = r
    BY Zenon DEF SleepOn, a
  <1> HIDE DEF r
  <1>4. SameRunning(a, r)
    BY <1>2, Zenon DEF SameRunning, Becomes, Turns
  <1>5. Turns(s, r, c, st, w)
    <2>1. Turns(s, a, c, st, s.tcb[c].waits_for)
      BY <1>1 DEF OnlySchedules, Becomes, Turns
    <2>2. Turns(a, r, c, st, w)
      BY <1>2, <2>1, Zenon DEF Becomes, Turns
    <2> QED
      BY <2>1, <2>2 DEF Turns
  <1>6. r.next = a.next /\ Ready(r, {a.next}) /\ Highest(r)
    BY <1>1, <1>4, SameRunningKeeps, Zenon DEF SameRunning
  <1> QED
    BY <1>1, <1>2, <1>3, <1>5, <1>6, Zenon

-----------------------------------------------------------------------------
(* What a system call starts from, and which parts it keeps                *)

\* What a system call starts from: the caller runs.
Called(s) == Settled(s) /\ s.current \in Tcbs /\ s.next = s.current

\* The caller runs and is on no ready list.
LEMMA CallerRuns ==
    ASSUME NEW s, Called(s)
    PROVE  /\ s \in Snapshots /\ s.current \in Tcbs /\ s.next = s.current /\ s.failed = {}
           /\ s.tcb[s.current].state = "RUNNABLE" /\ Ready(s, {s.current}) /\ Highest(s)
           /\ Waits(s) /\ s.current # idle /\ s.current # NULL
  BY Image, Zenon DEF Called, Settled, Highest

\* A call that leaves the ready lists and every state alone leaves the caller running.
LEMMA StaysSettled ==
    ASSUME NEW s, Settled(s), NEW r \in Snapshots, r.failed = s.failed, SameRunning(s, r),
           Waits(r)
    PROVE  Settled(r)
  BY SameRunningKeeps, Zenon DEF Settled, SameRunning

\* yield() lets the other threads of the caller's priority run.
LEMMA YieldSettles ==
    ASSUME NEW s, Called(s)
    PROVE  Settled(Yield(s))
  <1> DEFINE c == s.current
             e == Enqueue(s, c)
             r == DoSchedule(e)
  <1>1. /\ s \in Snapshots /\ c \in Tcbs /\ s.failed = {} /\ s.tcb[c].state = "RUNNABLE"
        /\ Ready(s, {c}) /\ Waits(s)
    BY CallerRuns, Zenon
  <1>2. Yield(s) = IF GetHighestPriority(s) >= PrioOf(s, c) THEN r ELSE s
    BY <1>1, Zenon DEF Yield, Require, IsRunnable
  <1>3. e \in Snapshots /\ OnlySchedules(s, e) /\ Ready(e, {c} \ {c})
    BY <1>1, WaitsLinked, EnqueueAdds, Zenon
  <1> HIDE DEF e
  <1>4. {c} \ {c} = {} /\ {} \cup {r.next} = {r.next}
    BY Zenon
  <1>5. /\ r \in Snapshots /\ OnlySchedules(e, r) /\ Highest(r)
        /\ Ready(r, {} \cup {r.next})
    BY <1>3, <1>4, DoScheduleTakes, Zenon
  <1>6. Settled(r)
    BY <1>1, <1>3, <1>4, <1>5, SchedulingKeepsWaits, Zenon DEF Settled, OnlySchedules
  <1> QED
    BY <1>2, <1>6, Zenon DEF Called

\* r changes nothing that matters to the futexes: the same threads sleep on the same tags.
SameFutexes(s, r) ==
    /\ r.chain = s.chain /\ r.pending = s.pending
    /\ \A t \in Tcbs :
         /\ r.tcb[t].state = "WAIT_FUTEX" <=> s.tcb[t].state = "WAIT_FUTEX"
         /\ s.tcb[t].state = "WAIT_FUTEX" =>
              /\ r.tcb[t].waits_for = s.tcb[t].waits_for
              /\ r.tcb[t].priority = s.tcb[t].priority

\* The same threads wait to send to the same threads; who waits for a message waits for
\* none of its senders.
SameMessages(s, r) ==
    \A t \in Tcbs :
        /\ r.tcb[t].senders = s.tcb[t].senders
        /\ IsSender(r, t) <=> IsSender(s, t)
        /\ IsSender(s, t) => r.tcb[t].waits_for = s.tcb[t].waits_for
        /\ r.tcb[t].state = "WAIT_IPC_RECV" =>
             \/ s.tcb[t].state = "WAIT_IPC_RECV" /\ r.tcb[t].waits_for = s.tcb[t].waits_for
             \/ \A u \in SendersTo(s, t) : r.tcb[t].waits_for \notin {u, NULL}

\* Whoever waits for signals did so before.
SameSignalWaits(s, r) ==
    \A t \in Tcbs : r.tcb[t].state = "WAIT_SIGNAL" =>
        /\ s.tcb[t].state = "WAIT_SIGNAL"
        /\ r.tcb[t].waits_for = s.tcb[t].waits_for /\ r.tcb[t].signals = s.tcb[t].signals

\* The same threads are dead, free, joined and waiting to join.
SameLives(s, r) ==
    /\ r.free = s.free
    /\ \A t \in Tcbs :
         /\ r.tcb[t].joiner = s.tcb[t].joiner
         /\ r.tcb[t].state = "HALTED" <=> s.tcb[t].state = "HALTED"
         /\ r.tcb[t].state \in DeadStates <=> s.tcb[t].state \in DeadStates
         /\ r.tcb[t].state = "WAIT_JOIN" <=> s.tcb[t].state = "WAIT_JOIN"

\* The same threads wait for the same interrupts.
SameHandlers(s, r) ==
    /\ r.handler = s.handler /\ r.unmasked = s.unmasked
    /\ \A t \in Tcbs :
         /\ r.tcb[t].registered_interrupt = s.tcb[t].registered_interrupt
         /\ r.tcb[t].state = "WAIT_INT" <=> s.tcb[t].state = "WAIT_INT"
         /\ r.tcb[t].state \in DeadStates => s.tcb[t].state \in DeadStates

\* A part of the invariant that a call does not touch is kept.
LEMMA Kept ==
    ASSUME NEW s, s \in Snapshots, Waits(s), NEW r
    PROVE  /\ SameFutexes(s, r) => Futexes(r)
           /\ SameMessages(s, r) => Messages(r)
           /\ SameSignalWaits(s, r) => SignalWaits(r)
           /\ SameLives(s, r) => Lives(r)
           /\ SameHandlers(s, r) => Handlers(r)
  <1>w. Futexes(s) /\ Messages(s) /\ SignalWaits(s) /\ Lives(s) /\ Handlers(s)
    BY Zenon DEF Waits
  <1>1. ASSUME SameFutexes(s, r) PROVE Futexes(r)
    <2>1. ASSUME NEW h \in Slots
          PROVE  IsList(Tcbs, r.chain[h], Sleepers(r, h)) /\ Falling(r, r.chain[h])
      <3>1. Sleepers(r, h) = Sleepers(s, h)
        BY <1>1, Zenon DEF Sleepers, SameFutexes
      <3>2. IsList(Tcbs, s.chain[h], Sleepers(s, h)) /\ Falling(s, s.chain[h])
        BY <1>w, Zenon DEF Futexes
      <3>3. \A i \in DOMAIN s.chain[h] : s.chain[h][i] \in Sleepers(s, h)
        BY <3>2, Zenon DEF IsList, Members
      <3>4. Falling(r, s.chain[h])
        BY <1>1, <3>2, <3>3, Zenon DEF Falling, Sleepers, SameFutexes
      <3> QED
        BY <1>1, <3>1, <3>2, <3>4, Zenon DEF SameFutexes
    <2> QED
      BY <1>1, <1>w, <2>1, Zenon DEF Futexes, SameFutexes
  <1>2. ASSUME SameMessages(s, r) PROVE Messages(r)
    <2>1. ASSUME NEW d \in Tcbs PROVE SendersTo(r, d) = SendersTo(s, d)
      BY <1>2 DEF SendersTo, SameMessages
    <2> QED
      BY <1>2, <1>w, <2>1, Zenon DEF Messages, SameMessages
  <1>3. ASSUME SameSignalWaits(s, r) PROVE SignalWaits(r)
    BY <1>3, <1>w, Zenon DEF SignalWaits, SameSignalWaits
  <1>4. ASSUME SameLives(s, r) PROVE Lives(r)
    <2>1. {t \in Tcbs : r.tcb[t].state = "HALTED"} = {t \in Tcbs : s.tcb[t].state = "HALTED"}
      BY <1>4, Zenon DEF SameLives
    <2>2. \A t \in Tcbs : s.tcb[t].joiner \in Tcbs \cup {NULL}
      BY Types, Zenon
    <2> QED
      BY <1>4, <1>w, <2>1, <2>2 DEF Lives, SameLives
  <1>5. ASSUME SameHandlers(s, r) PROVE Handlers(r)
    <2>1. \A i \in Interrupts : s.handler[i] \in Tcbs \cup {NULL}
      BY Types, Zenon
    <2> QED
      BY <1>5, <1>w, <2>1 DEF Handlers, SameHandlers
  <1> QED
    BY <1>1, <1>2, <1>3, <1>4, <1>5, Zenon

\* A thread that waits for a message or a signal is in no list: it may become runnable.
LEMMA WaitsWhenWoken ==
    ASSUME NEW s \in Snapshots, Waits(s), NEW t \in Tcbs,
           s.tcb[t].state \in {"WAIT_IPC_RECV", "WAIT_SIGNAL"}
    PROVE  Waits(SetRunnable(s, t))
  <1> DEFINE r == SetRunnable(s, t)
  <1>1. r \in Snapshots /\ Becomes(s, r, t, "RUNNABLE", NULL)
    BY RunnableAssigned, Zenon
  <1> HIDE DEF r
  <1>2. /\ r.chain = s.chain /\ r.pending = s.pending /\ r.free = s.free
        /\ r.handler = s.handler /\ r.unmasked = s.unmasked
        /\ \A u \in Tcbs \ {t} : r.tcb[u] = s.tcb[u]
        /\ r.tcb[t].state = "RUNNABLE"
        /\ r.tcb[t].senders = s.tcb[t].senders /\ r.tcb[t].joiner = s.tcb[t].joiner
        /\ r.tcb[t].registered_interrupt = s.tcb[t].registered_interrupt
    BY <1>1, Zenon DEF Becomes, Turns
  <1>3. /\ SameFutexes(s, r) /\ SameMessages(s, r) /\ SameSignalWaits(s, r)
        /\ SameLives(s, r) /\ SameHandlers(s, r)
    BY <1>2
       DEF SameFutexes, SameMessages, SameSignalWaits, SameLives, SameHandlers, IsSender, DeadStates
  <1>4. Futexes(r) /\ Messages(r) /\ SignalWaits(r) /\ Lives(r) /\ Handlers(r)
    BY <1>2, <1>3, Kept, Zenon
  <1> QED
    BY <1>4, Zenon DEF Waits, r

\* Only the tcb of t changes, and neither its state nor its priority.
Assigns(s, r, t) ==
    /\ r.current = s.current /\ r.next = s.next /\ r.ready = s.ready /\ r.free = s.free
    /\ r.chain = s.chain /\ r.pending = s.pending /\ r.handler = s.handler
    /\ r.unmasked = s.unmasked /\ r.failed = s.failed
    /\ \A u \in Tcbs \ {t} : r.tcb[u] = s.tcb[u]
    /\ r.tcb[t].state = s.tcb[t].state /\ r.tcb[t].priority = s.tcb[t].priority
    /\ r.tcb[t].waits_for = s.tcb[t].waits_for

-----------------------------------------------------------------------------
(* The first schedule, and the switch to the next thread                   *)

\* __kernel_main(): the first schedule.
LEMMA KernelMainSettles ==
    ASSUME NEW s, Settled(s), s.next = NULL
    PROVE  Settled(DoSchedule(s))
  <1> DEFINE r == DoSchedule(s)
  <1>1. s \in Snapshots /\ Ready(s, {NULL}) /\ Waits(s) /\ s.failed = {}
    BY Zenon DEF Settled
  <1>2. /\ r \in Snapshots /\ OnlySchedules(s, r) /\ Ready(r, {NULL} \cup {r.next})
        /\ Highest(r)
    BY <1>1, DoScheduleTakes, Zenon
  <1> HIDE DEF r
  <1>3. Ready(r, {r.next})
    <2>1. ASSUME NEW p \in Prio
          PROVE  RunnableAt(r, p, {r.next}) = RunnableAt(r, p, {NULL} \cup {r.next})
      BY Image, Zenon DEF RunnableAt
    <2> QED
      BY <1>2, <2>1, Zenon DEF Ready
  <1>4. Waits(r) /\ r.failed = {}
    BY <1>1, <1>2, SchedulingKeepsWaits, Zenon DEF OnlySchedules
  <1> QED
    BY <1>2, <1>3, <1>4, Zenon DEF Settled, r

\* The thread that a handler switches to is the current one of the next handler.
LEMMA Switched ==
    ASSUME NEW s, Settled(s), NEW r, r.tcb = s.tcb, r.current = s.next, r.next = s.next,
           r.ready = s.ready, r.free = s.free, r.chain = s.chain, r.pending = s.pending,
           r.handler = s.handler, r.unmasked = s.unmasked, r.failed = s.failed,
           r \in Snapshots
    PROVE  Settled(r)
  <1>1. s \in Snapshots /\ Waits(s) /\ Ready(s, {s.next}) /\ Highest(s) /\ s.failed = {}
    BY Zenon DEF Settled
  <1>2. Ready(r, {r.next}) /\ Highest(r)
    <2>1. SameRunning(s, r)
      BY Zenon DEF SameRunning
    <2> QED
      BY <1>1, <2>1, SameRunningKeeps, Zenon
  <1>3. /\ SameFutexes(s, r) /\ SameMessages(s, r) /\ SameSignalWaits(s, r)
        /\ SameLives(s, r) /\ SameHandlers(s, r)
    BY <1>1, Zenon
       DEF SameFutexes, SameMessages, SameSignalWaits, SameLives, SameHandlers, IsSender
  <1>4. Futexes(r) /\ Messages(r) /\ SignalWaits(r) /\ Lives(r) /\ Handlers(r)
    BY <1>1, <1>3, Kept, Zenon
  <1> QED
    BY <1>1, <1>2, <1>4, Zenon DEF Settled, Waits

\* switch_to() at the end of a handler.
LEMMA CommitSettles ==
    ASSUME NEW s, Settled(s), Commit(s)
    PROVE  IInv'
  <1> DEFINE r == [tcb |-> s.tcb, current |-> s.next, next |-> s.next, ready |-> s.ready,
                   free |-> s.free, chain |-> s.chain, pending |-> s.pending,
                   handler |-> s.handler, unmasked |-> s.unmasked, failed |-> s.failed]
  <1>1. r \in Snapshots
    BY Zenon DEF Settled, Snapshots
  <1>2. Settled(r)
    BY <1>1, Switched, Zenon
  <1>3. S' = r
    BY Zenon DEF Commit, S
  <1> HIDE DEF r
  <1>4. Settled(S')
    BY <1>2, <1>3, Zenon
  <1> QED
    BY <1>4, Zenon DEF IInv

\* A thread that makes a system call runs, and the invariant holds of what it finds.
LEMMA UserCalls ==
    ASSUME IInv, InUser
    PROVE  Called(S) /\ S.current = current /\ S.tcb = tcb /\ S.handler = handler
  BY Zenon DEF IInv, InUser, Called, S


-----------------------------------------------------------------------------
(* The chains                                                              *)

\* r is q with e in place i, and q without place i.
InsertedAt(T, q, i, e, r) ==
    /\ r \in Seq(T) /\ Len(r) = Len(q) + 1
    /\ \A j \in 1 .. (Len(q) + 1) :
         r[j] = (IF j < i THEN q[j] ELSE IF j = i THEN e ELSE q[j - 1])

RemovedAt(T, q, i, r) ==
    /\ r \in Seq(T) /\ Len(r) = Len(q) - 1
    /\ \A j \in 1 .. (Len(q) - 1) : r[j] = (IF j < i THEN q[j] ELSE q[j + 1])

\* The elements of LinkAt(), as enqueue_futex() uses it.
LEMMA LinkAtElements ==
    ASSUME NEW T, NEW q \in Seq(T), NEW e \in T, NEW i \in 1 .. (Len(q) + 1)
    PROVE  InsertedAt(T, q, i, e, LinkAt(q, i, e))
  <1> DEFINE F(j) == IF j < i THEN q[j] ELSE IF j = i THEN e ELSE q[j - 1]
             r == [j \in 1 .. (Len(q) + 1) |-> F(j)]
  <1>1. Len(q) \in Nat /\ \A j \in 1 .. Len(q) : q[j] \in T
    BY Places, Zenon
  <1>2. \A j \in 1 .. (Len(q) + 1) : F(j) \in T
    BY <1>1
  <1>3. LinkAt(q, i, e) = r
    BY Zenon DEF LinkAt
  <1> HIDE DEF F
  <1>4. r \in Seq(T) /\ Len(r) = Len(q) + 1 /\ \A j \in 1 .. (Len(q) + 1) : r[j] = F(j)
    BY <1>1, <1>2
  <1> QED
    BY <1>3, <1>4, Zenon DEF InsertedAt, F

\* The elements of Unlink(), as signal_futex() uses it.
LEMMA UnlinkElements ==
    ASSUME NEW T, NEW q \in Seq(T), NEW i \in 1 .. Len(q)
    PROVE  RemovedAt(T, q, i, Unlink(q, i))
  <1> DEFINE F(j) == IF j < i THEN q[j] ELSE q[j + 1]
             r == [j \in 1 .. (Len(q) - 1) |-> F(j)]
  <1>1. Len(q) \in Nat /\ \A j \in 1 .. Len(q) : q[j] \in T
    BY Places, Zenon
  <1>2. \A j \in 1 .. (Len(q) - 1) : F(j) \in T
    BY <1>1
  <1>3. Unlink(q, i) = r
    BY Zenon DEF Unlink
  <1> HIDE DEF F
  <1>4. r \in Seq(T) /\ Len(r) = Len(q) - 1 /\ \A j \in 1 .. (Len(q) - 1) : r[j] = F(j)
    BY <1>1, <1>2
  <1> QED
    BY <1>3, <1>4, Zenon DEF RemovedAt, F

\* LinkAt() adds the element.
LEMMA ListInsert ==
    ASSUME NEW T, NEW q, NEW M, NEW e \in T, IsList(T, q, M), e \notin M,
           NEW i \in 1 .. (Len(q) + 1)
    PROVE  IsList(T, LinkAt(q, i, e), M \cup {e})
  <1>1. q \in Seq(T) /\ M = Members(q) /\ NoRepeats(q)
    BY Zenon DEF IsList
  <1> DEFINE r == LinkAt(q, i, e)
  <1>i. InsertedAt(T, q, i, e, r)
    BY <1>1, LinkAtElements, Zenon
  <1> HIDE DEF r
  <1>2. /\ r \in Seq(T) /\ Len(r) = Len(q) + 1
        /\ \A j \in 1 .. (Len(q) + 1) :
             r[j] = (IF j < i THEN q[j] ELSE IF j = i THEN e ELSE q[j - 1])
    BY <1>i, Zenon DEF InsertedAt
  <1>n. Len(q) \in Nat
    BY <1>1, Places, Zenon
  <1> DEFINE P(j) == IF j < i THEN j ELSE j - 1
  <1>p. ASSUME NEW j \in 1 .. Len(r), j # i PROVE P(j) \in 1 .. Len(q) /\ r[j] = q[P(j)]
    BY <1>2, <1>n, <1>p
  <1>3. NoRepeats(r)
    <2>1. ASSUME NEW j \in 1 .. Len(r), NEW k \in 1 .. Len(r), r[j] = r[k] PROVE j = k
      <3>1. CASE j # i /\ k # i
        <4>1. P(j) = P(k)
          <5> HIDE DEF P
          <5>1. P(j) \in 1 .. Len(q) /\ P(k) \in 1 .. Len(q) /\ q[P(j)] = q[P(k)]
            BY <1>p, <2>1, <3>1, Zenon
          <5>2. \A x, y \in 1 .. Len(q) : q[x] = q[y] => x = y
            BY <1>1, Places, Zenon
          <5> QED
            BY <5>1, <5>2, Zenon
        <4> QED
          BY <3>1, <4>1, <1>2, <1>n
      <3>2. ASSUME NEW x \in 1 .. Len(r), x # i PROVE r[x] # r[i]
        <4> HIDE DEF P
        <4> QED
          BY <1>1, <1>2, <1>n, <1>p, <3>2, Places
      <3> QED
        BY <2>1, <3>1, <3>2, Zenon
    <2> QED
      BY <1>2, <2>1, PlacesDiffer, Zenon
  <1>4. Members(r) \subseteq M \cup {e}
    <2>1. ASSUME NEW x \in Members(r), x # e PROVE x \in M
      <3>1. PICK k \in 1 .. Len(r) : r[k] = x
        BY <1>2, Places
      <3>2. k # i
        BY <1>2, <1>n, <2>1, <3>1
      <3> HIDE DEF P
      <3> QED
        BY <1>1, <1>p, <3>1, <3>2, Places, Zenon
    <2> QED
      BY <2>1, Zenon
  <1>5. ASSUME NEW x \in M PROVE x \in Members(r)
    <2>1. PICK k \in 1 .. Len(q) : q[k] = x
      BY <1>1, Places
    <2>2. CASE k < i
      <3>1. k \in 1 .. Len(r) /\ r[k] = x
        BY <1>2, <1>n, <2>1, <2>2
      <3> QED
        BY <1>2, <3>1, Places, Zenon
    <2>3. CASE k >= i
      <3>1. k + 1 \in 1 .. Len(r) /\ r[k + 1] = x
        BY <1>1, <1>2, <2>1, <2>3
      <3> QED
        BY <1>2, <3>1, Places, Zenon
    <2> QED
      BY <1>1, <2>2, <2>3
  <1>6. e \in Members(r)
    BY <1>1, <1>2, Places
  <1> QED
    BY <1>2, <1>3, <1>4, <1>5, <1>6, Zenon DEF IsList, r

\* Unlink() removes one element.
LEMMA ListRemove ==
    ASSUME NEW T, NEW q, NEW M, IsList(T, q, M), NEW i \in 1 .. Len(q)
    PROVE  IsList(T, Unlink(q, i), M \ {q[i]})
  <1> DEFINE r == Unlink(q, i)
  <1>1. q \in Seq(T) /\ M = Members(q) /\ NoRepeats(q)
    BY Zenon DEF IsList
  <1>2. /\ r \in Seq(T) /\ Len(r) = Len(q) - 1
        /\ \A j \in 1 .. (Len(q) - 1) : r[j] = IF j < i THEN q[j] ELSE q[j + 1]
    <2>1. RemovedAt(T, q, i, r)
      BY <1>1, UnlinkElements, Zenon
    <2> QED
      BY <2>1, Zenon DEF RemovedAt
  <1> HIDE DEF r
  <1>n. Len(q) \in Nat
    BY <1>1, Places, Zenon
  <1> DEFINE P(j) == IF j < i THEN j ELSE j + 1
  <1>p. ASSUME NEW j \in 1 .. Len(r)
        PROVE  P(j) \in 1 .. Len(q) /\ P(j) # i /\ r[j] = q[P(j)]
    BY <1>2, <1>n
  <1>3. NoRepeats(r)
    <2>1. ASSUME NEW j \in 1 .. Len(r), NEW k \in 1 .. Len(r), r[j] = r[k] PROVE j = k
      <3>1. P(j) = P(k)
        <4> HIDE DEF P
        <4> QED
          BY <1>1, <1>p, <2>1, Places
      <3> QED
        BY <3>1, <1>2, <1>n
    <2> QED
      BY <1>2, <2>1, PlacesDiffer, Zenon
  <1>4. Members(r) \subseteq M \ {q[i]}
    <2>1. ASSUME NEW x \in Members(r) PROVE x \in M \ {q[i]}
      <3>1. PICK k \in 1 .. Len(r) : r[k] = x
        BY <1>2, Places, Zenon
      <3>2. P(k) \in 1 .. Len(q) /\ q[P(k)] = x /\ P(k) # i
        BY <1>2, <1>n, <1>p, <3>1, Zenon
      <3> HIDE DEF P
      <3>3. x \in Members(q) /\ x # q[i]
        BY <1>1, <3>2, Places, Zenon
      <3> QED
        BY <1>1, <3>3, Zenon
    <2> QED
      BY <2>1, Zenon
  <1>5. ASSUME NEW x \in M \ {q[i]} PROVE x \in Members(r)
    <2>1. PICK k \in 1 .. Len(q) : q[k] = x
      BY <1>1, Places, Zenon
    <2>2. CASE k < i
      <3>1. k \in 1 .. Len(r) /\ r[k] = x
        BY <1>2, <1>n, <2>1, <2>2
      <3> QED
        BY <1>2, <3>1, Places, Zenon
    <2>3. CASE k > i
      <3>1. k - 1 \in 1 .. Len(r) /\ r[k - 1] = x
        BY <1>1, <1>2, <2>1, <2>3
      <3> QED
        BY <1>2, <3>1, Places, Zenon
    <2> QED
      BY <1>1, <2>1, <2>2, <2>3
  <1> QED
    BY <1>2, <1>3, <1>4, <1>5, Zenon DEF IsList, r

\* A chain stays sorted when a thread is put between the higher and the lower ones.
LEMMA InsertSorts ==
    ASSUME NEW s \in Snapshots, NEW q \in Seq(Tcbs), NEW c \in Tcbs, Falling(s, q),
           NEW i \in 1 .. (Len(q) + 1),
           \A j \in 1 .. Len(q) :
               IF j < i THEN s.tcb[q[j]].priority >= s.tcb[c].priority
               ELSE s.tcb[c].priority >= s.tcb[q[j]].priority
    PROVE  Falling(s, LinkAt(q, i, c))
  <1> DEFINE P(t) == s.tcb[t].priority
             r == LinkAt(q, i, c)
  <1>1. Len(q) \in Nat /\ DOMAIN q = 1 .. Len(q)
    BY Places, Zenon
  <1>5. i \in 1 .. (Len(q) + 1)
    BY Zenon
  <1>6. /\ r \in Seq(Tcbs) /\ Len(r) = Len(q) + 1
        /\ \A j \in 1 .. (Len(q) + 1) :
             r[j] = (IF j < i THEN q[j] ELSE IF j = i THEN c ELSE q[j - 1])
    <2>1. InsertedAt(Tcbs, q, i, c, r)
      BY LinkAtElements, Zenon
    <2> HIDE DEF r
    <2> QED
      BY <2>1, Zenon DEF InsertedAt
  <1>7. \A j, k \in 1 .. Len(q) : j < k => P(q[j]) >= P(q[k])
    BY <1>1, Zenon DEF Falling
  <1>8. \A j \in 1 .. Len(q) : j < i => P(q[j]) >= P(c)
    BY Zenon
  <1>9. \A j \in 1 .. Len(q) : j >= i => P(c) >= P(q[j])
    BY <1>1
  <1> HIDE DEF r, P
  <1>10. ASSUME NEW j \in 1 .. Len(r), NEW k \in 1 .. Len(r), j < k
         PROVE  P(r[j]) >= P(r[k])
    <2>1. CASE k < i
      BY <1>1, <1>5, <1>6, <1>7, <1>10, <2>1
    <2>2. CASE k = i
      BY <1>1, <1>5, <1>6, <1>8, <1>10, <2>2
    <2>3. CASE j < i /\ k > i
      <3>1. r[j] = q[j] /\ r[k] = q[k - 1] /\ j \in 1 .. Len(q) /\ k - 1 \in 1 .. Len(q) /\ j < k - 1
        BY <1>1, <1>5, <1>6, <1>10, <2>3
      <3> QED
        BY <1>7, <3>1, Zenon
    <2>4. CASE j = i /\ k > i
      <3>1. r[j] = c /\ r[k] = q[k - 1] /\ k - 1 \in 1 .. Len(q) /\ k - 1 >= i
        BY <1>1, <1>5, <1>6, <1>10, <2>4
      <3> QED
        BY <1>9, <3>1, Zenon
    <2>5. CASE j > i
      <3>1. /\ r[j] = q[j - 1] /\ r[k] = q[k - 1] /\ j - 1 \in 1 .. Len(q)
            /\ k - 1 \in 1 .. Len(q) /\ j - 1 < k - 1
        BY <1>1, <1>5, <1>6, <1>10, <2>5
      <3> QED
        BY <1>7, <3>1, Zenon
    <2>6. k < i \/ k = i \/ (j < i /\ k > i) \/ (j = i /\ k > i) \/ j > i
      BY <1>1, <1>5, <1>6, <1>10
    <2> QED
      BY <2>1, <2>2, <2>3, <2>4, <2>5, <2>6, Zenon
  <1>11. Falling(s, r)
    <2>1. DOMAIN r = 1 .. Len(r)
      BY <1>6, Places, Zenon
    <2> QED
      BY <1>10, <2>1, Zenon DEF Falling, P
  <1> QED
    BY <1>11, Zenon DEF r

\* enqueue_futex() finds such a place.
LEMMA EnqueueFutexSorts ==
    ASSUME NEW s \in Snapshots, NEW q \in Seq(Tcbs), NEW c \in Tcbs, Falling(s, q)
    PROVE  \E i \in 1 .. (Len(q) + 1) :
             EnqueueFutex(s, q, c) = LinkAt(q, i, c) /\ Falling(s, LinkAt(q, i, c))
  <1> DEFINE P(t) == s.tcb[t].priority
             lower == {j \in DOMAIN q : P(c) > P(q[j])}
             W == lower \cup {Len(q) + 1}
  <1>1. /\ Len(q) \in Nat /\ DOMAIN q = 1 .. Len(q)
        /\ \A j \in 1 .. Len(q) : q[j] \in Tcbs
    BY Places, Zenon
  <1>2. ASSUME NEW t \in Tcbs PROVE P(t) \in Nat
    BY Types, Image, Zenon
  <1>3. Min(W) \in W /\ \A x \in W : Min(W) <= x
    <2>1. W \in SUBSET Nat /\ W # {}
      BY <1>1
    <2> HIDE DEF W
    <2> QED
      BY <2>1, MinIsLeast, Zenon
  <1>4. EnqueueFutex(s, q, c) = LinkAt(q, Min(W), c)
    BY Zenon DEF EnqueueFutex, PrioOf
  <1>5. PICK i \in W : i = Min(W) /\ \A x \in W : i <= x
    <2> HIDE DEF W
    <2> QED
      BY <1>3, Zenon
  <1>6. i \in 1 .. (Len(q) + 1)
    BY <1>1
  <1> HIDE DEF P
  <1>7. \A j, k \in 1 .. Len(q) : j < k => P(q[j]) >= P(q[k])
    BY <1>1, Zenon DEF Falling, P
  <1>8. ASSUME NEW j \in 1 .. Len(q), j < i PROVE P(q[j]) >= P(c)
    <2>1. j \notin lower
      <3> SUFFICES ASSUME j \in W PROVE FALSE
        BY Zenon
      <3>1. i <= j
        <4> HIDE DEF W
        <4> QED
          BY <1>5, Zenon
      <3> QED
        BY <1>1, <1>6, <1>8, <3>1
    <2>2. P(q[j]) \in Nat /\ P(c) \in Nat
      BY <1>1, <1>2, Zenon
    <2>3. ~(P(c) > P(q[j]))
      BY <1>1, <2>1, Zenon
    <2> QED
      BY <2>2, <2>3
  <1>9. ASSUME NEW j \in 1 .. Len(q), ~(j < i) PROVE P(c) >= P(q[j])
    <2>1. i \in lower /\ i \in 1 .. Len(q)
      BY <1>1, <1>5, <1>6, <1>9
    <2>2. P(c) > P(q[i]) /\ P(q[i]) \in Nat /\ P(q[j]) \in Nat /\ P(c) \in Nat
      BY <1>1, <1>2, <2>1, Zenon
    <2>3. P(q[i]) >= P(q[j])
      BY <1>1, <1>7, <1>9, <2>1, <2>2
    <2> QED
      BY <2>2, <2>3
  <1>10. Falling(s, LinkAt(q, i, c))
    <2> HIDE DEF W
    <2> QED
      BY <1>6, <1>8, <1>9, InsertSorts, Zenon DEF P
  <1> QED
    BY <1>4, <1>5, <1>6, <1>10, Zenon

\* A chain stays sorted when a thread leaves it.
LEMMA RemoveSorts ==
    ASSUME NEW s \in Snapshots, NEW q \in Seq(Tcbs), NEW i \in 1 .. Len(q), Falling(s, q)
    PROVE  Falling(s, Unlink(q, i))
  <1> DEFINE r == Unlink(q, i)
             N(j) == IF j < i THEN j ELSE j + 1
  <1>1. Len(q) \in Nat /\ DOMAIN q = 1 .. Len(q)
    BY Places, Zenon
  <1>2. /\ r \in Seq(Tcbs) /\ Len(r) = Len(q) - 1
        /\ \A j \in 1 .. (Len(q) - 1) : r[j] = (IF j < i THEN q[j] ELSE q[j + 1])
    <2>1. RemovedAt(Tcbs, q, i, r)
      BY UnlinkElements, Zenon
    <2> HIDE DEF r
    <2> QED
      BY <2>1, Zenon DEF RemovedAt
  <1> HIDE DEF r
  <1>3. DOMAIN r = 1 .. Len(r)
    BY <1>2, Places, Zenon
  <1>4. ASSUME NEW j \in 1 .. Len(r) PROVE N(j) \in 1 .. Len(q) /\ r[j] = q[N(j)]
    <2>1. j \in 1 .. (Len(q) - 1)
      BY <1>2, Zenon
    <2>2. r[j] = IF j < i THEN q[j] ELSE q[j + 1]
      BY <1>2, <2>1, Zenon
    <2> QED
      BY <1>1, <2>1, <2>2
  <1>5. ASSUME NEW j \in 1 .. Len(r), NEW k \in 1 .. Len(r), j < k PROVE N(j) < N(k)
    BY <1>1, <1>2, <1>5
  <1> HIDE DEF N
  <1>6. Falling(s, r)
    BY <1>1, <1>3, <1>4, <1>5 DEF Falling
  <1> QED
    BY <1>6, Zenon DEF r

-----------------------------------------------------------------------------
(* Futexes                                                                 *)

\* sys_futex_wait() takes a pending signal.
LEMMA TakePendingSettles ==
    ASSUME NEW s, Called(s), NEW i \in DOMAIN s.pending
    PROVE  Settled(TakePending(s, i))
  <1> DEFINE p == s.pending
             F(j) == p[IF j = i THEN Len(p) ELSE j]
             q == [j \in 1 .. (Len(p) - 1) |-> F(j)]
             r == [s EXCEPT !.pending = q]
  <1>1. /\ s \in Snapshots /\ s.failed = {} /\ Settled(s) /\ Waits(s)
    BY CallerRuns, Zenon DEF Called
  <1>2. p \in Seq(Tags) /\ Len(p) \in Nat /\ DOMAIN p = 1 .. Len(p) /\ i \in 1 .. Len(p)
    BY <1>1, Types
  <1>4. \A j \in 1 .. (Len(p) - 1) : F(j) \in Tags /\ (F(j) = p[j] \/ F(j) = p[Len(p)])
    <2> HIDE DEF p
    <2> QED
      BY <1>2
  <1>5. TakePending(s, i) = r
    BY Zenon DEF TakePending
  <1> HIDE DEF F, r
  <1>6. /\ q \in Seq(Tags) /\ Len(q) = Len(p) - 1
        /\ \A j \in 1 .. (Len(p) - 1) : q[j] = F(j)
    <2> HIDE DEF p
    <2> QED
      BY <1>2, <1>4
  <1> HIDE DEF q
  <1>7. /\ r \in Snapshots /\ r.pending = q /\ r.tcb = s.tcb /\ r.chain = s.chain
        /\ r.free = s.free /\ r.handler = s.handler /\ r.unmasked = s.unmasked
        /\ r.failed = {} /\ r.next = s.next /\ r.ready = s.ready
    BY <1>1, <1>6, Zenon DEF r, Snapshots
  <1>8. \A j \in DOMAIN q : \E k \in DOMAIN p : q[j] = p[k]
    <2>1. DOMAIN q = 1 .. (Len(p) - 1) /\ Len(p) \in DOMAIN p
      BY <1>2, <1>6
    <2>2. ASSUME NEW j \in DOMAIN q PROVE q[j] = p[j] \/ q[j] = p[Len(p)]
      BY <1>2, <1>4, <1>6, <2>1, Zenon
    <2> QED
      BY <1>2, <2>1, <2>2
  <1>9. Futexes(r)
    <2>1. Len(q) <= max_tcbs
      <3>1. max_tcbs \in Nat /\ Len(p) <= max_tcbs
        BY <1>1, ImageAssumption, Zenon DEF Waits, Futexes
      <3> QED
        BY <1>2, <1>6, <3>1
    <2>2. \A h \in Slots : IsList(Tcbs, r.chain[h], Sleepers(r, h)) /\ Falling(r, r.chain[h])
      BY <1>1, <1>7, Zenon DEF Waits, Futexes, Sleepers, Falling
    <2>3. \A t \in Tcbs : r.tcb[t].state = "WAIT_FUTEX" =>
            /\ r.tcb[t].waits_for \in Tags
            /\ \A j \in DOMAIN q : q[j] # r.tcb[t].waits_for
      BY <1>1, <1>7, <1>8 DEF Waits, Futexes
    <2> QED
      BY <1>7, <2>1, <2>2, <2>3, Zenon DEF Futexes
  <1>10. Waits(r)
    <2>1. SameMessages(s, r) /\ SameSignalWaits(s, r) /\ SameLives(s, r) /\ SameHandlers(s, r)
      BY <1>7, Zenon DEF SameMessages, SameSignalWaits, SameLives, SameHandlers, IsSender
    <2>2. Messages(r) /\ SignalWaits(r) /\ Lives(r) /\ Handlers(r)
      BY <1>1, <2>1, Kept, Zenon
    <2> QED
      BY <1>9, <2>2, Zenon DEF Waits
  <1>11. SameRunning(s, r)
    BY <1>7, Zenon DEF SameRunning
  <1> QED
    BY <1>1, <1>5, <1>7, <1>10, <1>11, StaysSettled, Zenon

\* sys_futex_wait() without a pending signal: the caller sleeps in the chain of its tag.
LEMMA FutexSleepSettles ==
    ASSUME NEW s, Called(s), NEW tag \in Tags, PendingFor(s, tag) = {}
    PROVE  Settled([SleepOn(s, "WAIT_FUTEX", tag)
                    EXCEPT !.chain[hash_tag[tag]] = EnqueueFutex(s, @, s.current)])
  <1> DEFINE c == s.current
             h == hash_tag[tag]
             a == SleepOn(s, "WAIT_FUTEX", tag)
             q == EnqueueFutex(s, s.chain[h], c)
             r == [a EXCEPT !.chain[h] = EnqueueFutex(s, @, c)]
  <1>1. /\ s \in Snapshots /\ s.failed = {} /\ Waits(s) /\ c \in Tcbs
        /\ s.tcb[c].state = "RUNNABLE" /\ Ready(s, {c})
    BY CallerRuns, Zenon
  <1>2. /\ a \in Snapshots /\ Turns(s, a, c, "WAIT_FUTEX", tag)
        /\ Ready(a, {a.next}) /\ Highest(a)
    BY <1>1, FallsAsleep, Zenon DEF ThreadStates, WaitStates
  <1>3. h \in Slots /\ s.chain \in [Slots -> Seq(Tcbs)]
    BY <1>1, Types, ImageAssumption, Zenon
  <1> SUFFICES Settled(r)
    BY Zenon
  <1> HIDE DEF a, c, h
  <1>4. a.chain = s.chain
    BY <1>2, Zenon DEF Turns
  <1>5. c \notin Sleepers(s, h) /\ IsList(Tcbs, s.chain[h], Sleepers(s, h)) /\ Falling(s, s.chain[h])
    BY <1>1, <1>3, Zenon DEF Waits, Futexes, Sleepers
  <1>6. PICK i \in 1 .. (Len(s.chain[h]) + 1) :
          q = LinkAt(s.chain[h], i, c) /\ Falling(s, LinkAt(s.chain[h], i, c))
    BY <1>1, <1>3, <1>5, EnqueueFutexSorts, Zenon
  <1>7. IsList(Tcbs, q, Sleepers(s, h) \cup {c}) /\ Falling(s, q)
    BY <1>1, <1>5, <1>6, ListInsert
  <1>8. q \in Seq(Tcbs)
    BY <1>7, Zenon DEF IsList
  <1> HIDE DEF q
  <1>9. r = [a EXCEPT !.chain[h] = q]
    BY <1>4, Zenon DEF q
  <1> HIDE DEF r
  <1>10. /\ r \in Snapshots /\ r.chain = [s.chain EXCEPT ![h] = q] /\ r.tcb = a.tcb
         /\ r.pending = s.pending /\ r.free = s.free /\ r.handler = s.handler
         /\ r.unmasked = s.unmasked /\ r.failed = {} /\ r.next = a.next /\ r.ready = a.ready
    BY <1>1, <1>2, <1>3, <1>4, <1>8, <1>9, Zenon DEF Snapshots, Turns
  <1>11. /\ \A u \in Tcbs \ {c} : r.tcb[u] = s.tcb[u]
         /\ r.tcb[c].state = "WAIT_FUTEX" /\ r.tcb[c].waits_for = tag
         /\ r.tcb[c].priority = s.tcb[c].priority /\ r.tcb[c].senders = s.tcb[c].senders
         /\ r.tcb[c].joiner = s.tcb[c].joiner
         /\ r.tcb[c].registered_interrupt = s.tcb[c].registered_interrupt
    BY <1>2, <1>10, Zenon DEF Turns
  <1>12. Futexes(r)
    <2>1. ASSUME NEW x \in Slots
          PROVE  IsList(Tcbs, r.chain[x], Sleepers(r, x)) /\ Falling(r, r.chain[x])
      <3>1. CASE x = h
        <4>1. Sleepers(r, h) = Sleepers(s, h) \cup {c}
          BY <1>1, <1>11, Zenon DEF Sleepers, h
        <4>2. Falling(r, q)
          <5>1. \A t \in Tcbs : r.tcb[t].priority = s.tcb[t].priority
            BY <1>11, Zenon
          <5>2. \A j \in DOMAIN q : q[j] \in Tcbs
            BY <1>8, Places
          <5> QED
            BY <1>7, <5>1, <5>2, Zenon DEF Falling
        <4>3. r.chain[h] = q
          BY <1>3, <1>10, Zenon
        <4> QED
          BY <1>7, <3>1, <4>1, <4>2, <4>3, Zenon
      <3>2. CASE x # h
        <4>1. Sleepers(r, x) = Sleepers(s, x)
          BY <1>1, <1>11, <3>2, Zenon DEF Sleepers, h
        <4>2. IsList(Tcbs, s.chain[x], Sleepers(s, x)) /\ Falling(s, s.chain[x])
          BY <1>1, Zenon DEF Waits, Futexes
        <4>3. Falling(r, s.chain[x])
          <5>1. \A t \in Tcbs : r.tcb[t].priority = s.tcb[t].priority
            BY <1>11, Zenon
          <5>2. \A j \in DOMAIN s.chain[x] : s.chain[x][j] \in Tcbs
            BY <1>3, Places
          <5> QED
            BY <4>2, <5>1, <5>2, Zenon DEF Falling
        <4>4. r.chain[x] = s.chain[x]
          BY <1>3, <1>10, <3>2, Zenon
        <4> QED
          BY <4>1, <4>2, <4>3, <4>4, Zenon
      <3> QED
        BY <3>1, <3>2, Zenon
    <2>2. \A t \in Tcbs : r.tcb[t].state = "WAIT_FUTEX" =>
            /\ r.tcb[t].waits_for \in Tags
            /\ \A j \in DOMAIN r.pending : r.pending[j] # r.tcb[t].waits_for
      BY <1>1, <1>10, <1>11 DEF Waits, Futexes, PendingFor
    <2> QED
      BY <1>1, <1>10, <2>1, <2>2, Zenon DEF Waits, Futexes
  <1>f. r.free = s.free /\ r.handler = s.handler /\ r.unmasked = s.unmasked
    BY <1>10, Zenon
  <1>13. /\ SameMessages(s, r) /\ SameSignalWaits(s, r)
         /\ SameLives(s, r) /\ SameHandlers(s, r)
    BY <1>f, <1>1, <1>11
       DEF SameMessages, SameSignalWaits, SameLives, SameHandlers, IsSender, DeadStates
  <1>14. Messages(r) /\ SignalWaits(r) /\ Lives(r) /\ Handlers(r)
    BY <1>1, <1>13, Kept, Zenon
  <1>17. SameRunning(a, r)
    BY <1>10, Zenon DEF SameRunning
  <1> QED
    BY <1>2, <1>10, <1>12, <1>14, <1>17, SameRunningKeeps, Zenon DEF Settled, Waits

\* signal_futex() wakes the first thread with the tag.
LEMMA FutexWakeSettles ==
    ASSUME NEW s, Called(s), NEW tag \in Tags, WaitersFor(s, tag) # {}
    PROVE  Settled(FutexSignal(s, tag))
  <1> DEFINE c == s.current
             h == hash_tag[tag]
             q == s.chain[h]
             i == Min(WaitersFor(s, tag))
             t == q[i]
             a == [s EXCEPT !.chain[h] = Unlink(@, i)]
             r == SetRunnable(a, t)
  <1>1. /\ s \in Snapshots /\ s.failed = {} /\ Waits(s) /\ c \in Tcbs /\ s.next = c
        /\ s.tcb[c].state = "RUNNABLE" /\ Ready(s, {c}) /\ Highest(s)
    BY CallerRuns, Zenon
  <1>2. h \in Slots /\ s.chain \in [Slots -> Seq(Tcbs)]
    BY <1>1, Types, ImageAssumption, Zenon
  <1>3. q \in Seq(Tcbs) /\ Len(q) \in Nat /\ DOMAIN q = 1 .. Len(q)
    BY <1>2, Places
  <1>4. i \in WaitersFor(s, tag)
    <2>1. WaitersFor(s, tag) \in SUBSET Nat
      BY <1>3 DEF WaitersFor
    <2> QED
      BY <2>1, MinIsLeast, Zenon
  <1>5. i \in 1 .. Len(q) /\ s.tcb[t].waits_for = tag
    BY <1>3, <1>4, Zenon DEF WaitersFor
  <1>6. FutexSignal(s, tag) = ActivateSchedule(a, t)
    BY Zenon DEF FutexSignal
  <1> HIDE DEF h, q, i, t, a
  <1>7. IsList(Tcbs, q, Sleepers(s, h)) /\ Falling(s, q)
    BY <1>1, <1>2, Zenon DEF Waits, Futexes, q
  <1>8. t \in Tcbs /\ t \in Sleepers(s, h)
    BY <1>3, <1>5, <1>7, Places DEF IsList, t
  <1>9. s.tcb[t].state = "WAIT_FUTEX" /\ t # c
    BY <1>1, <1>8, Zenon DEF Sleepers
  <1>10. IsList(Tcbs, Unlink(q, i), Sleepers(s, h) \ {t}) /\ Falling(s, Unlink(q, i))
    BY <1>1, <1>3, <1>5, <1>7, ListRemove, RemoveSorts, Zenon DEF t
  <1>11. Unlink(q, i) \in Seq(Tcbs)
    BY <1>10, Zenon DEF IsList
  <1>12. /\ a \in Snapshots /\ a.chain = [s.chain EXCEPT ![h] = Unlink(q, i)]
         /\ a.tcb = s.tcb /\ a.pending = s.pending /\ a.free = s.free
         /\ a.handler = s.handler /\ a.unmasked = s.unmasked /\ a.failed = {}
         /\ a.current = c /\ a.next = s.next /\ a.ready = s.ready
    BY <1>1, <1>2, <1>11, Zenon DEF a, q, Snapshots
  <1>13. r \in Snapshots /\ Becomes(a, r, t, "RUNNABLE", NULL)
    BY <1>8, <1>12, RunnableAssigned, Zenon
  <1> HIDE DEF r
  <1>c. r.chain = [s.chain EXCEPT ![h] = Unlink(q, i)]
    BY <1>12, <1>13, Zenon DEF Becomes, Turns
  <1>14. /\ r.pending = s.pending /\ r.free = s.free /\ r.handler = s.handler /\ r.unmasked = s.unmasked
         /\ \A u \in Tcbs \ {t} : r.tcb[u] = s.tcb[u]
         /\ r.tcb[t].state = "RUNNABLE"
         /\ r.tcb[t].priority = s.tcb[t].priority /\ r.tcb[t].senders = s.tcb[t].senders
         /\ r.tcb[t].joiner = s.tcb[t].joiner
         /\ r.tcb[t].registered_interrupt = s.tcb[t].registered_interrupt
    BY <1>12, <1>13 DEF Becomes, Turns
  <1>15. Futexes(r)
    <2>1. ASSUME NEW x \in Slots
          PROVE  IsList(Tcbs, r.chain[x], Sleepers(r, x)) /\ Falling(r, r.chain[x])
      <3>p. \A u \in Tcbs : r.tcb[u].priority = s.tcb[u].priority
        BY <1>14, Zenon
      <3>1. CASE x = h
        <4>1. Sleepers(r, h) = Sleepers(s, h) \ {t}
          BY <1>14, Zenon DEF Sleepers
        <4>2. \A j \in DOMAIN Unlink(q, i) : Unlink(q, i)[j] \in Tcbs
          BY <1>11, Places
        <4>3. Falling(r, Unlink(q, i))
          BY <1>10, <3>p, <4>2, Zenon DEF Falling
        <4>4. r.chain[h] = Unlink(q, i)
          BY <1>2, <1>c, Zenon
        <4> QED
          BY <1>10, <3>1, <4>1, <4>3, <4>4, Zenon
      <3>2. CASE x # h
        <4>1. Sleepers(r, x) = Sleepers(s, x)
          BY <1>8, <1>14, <3>2 DEF Sleepers
        <4>2. IsList(Tcbs, s.chain[x], Sleepers(s, x)) /\ Falling(s, s.chain[x])
          BY <1>1, Zenon DEF Waits, Futexes
        <4>3. \A j \in DOMAIN s.chain[x] : s.chain[x][j] \in Tcbs
          BY <1>2, Places
        <4>4. Falling(r, s.chain[x])
          BY <3>p, <4>2, <4>3, Zenon DEF Falling
        <4>5. r.chain[x] = s.chain[x]
          BY <1>2, <1>c, <3>2, Zenon
        <4> QED
          BY <4>1, <4>2, <4>4, <4>5, Zenon
      <3> QED
        BY <3>1, <3>2, Zenon
    <2>2. \A u \in Tcbs : r.tcb[u].state = "WAIT_FUTEX" =>
            /\ r.tcb[u].waits_for \in Tags
            /\ \A j \in DOMAIN r.pending : r.pending[j] # r.tcb[u].waits_for
      BY <1>1, <1>14 DEF Waits, Futexes
    <2> QED
      BY <1>1, <1>14, <2>1, <2>2, Zenon DEF Waits, Futexes
  <1>16. /\ SameMessages(s, r) /\ SameSignalWaits(s, r)
         /\ SameLives(s, r) /\ SameHandlers(s, r)
    BY <1>1, <1>9, <1>14, Zenon
       DEF SameMessages, SameSignalWaits, SameLives, SameHandlers, IsSender, DeadStates
  <1>17. Messages(r) /\ SignalWaits(r) /\ Lives(r) /\ Handlers(r)
    BY <1>1, <1>16, Kept, Zenon
  <1>20. SameRunning(s, a)
    BY <1>12, Zenon DEF SameRunning
  <1>21. Ready(a, {a.current}) /\ Highest(a)
    BY <1>1, <1>12, <1>20, SameRunningKeeps, Zenon
  <1>22. Waits(SetRunnable(a, t))
    BY <1>15, <1>17, Zenon DEF Waits, r
  <1> QED
    BY <1>1, <1>6, <1>8, <1>9, <1>12, <1>21, <1>22, ActivateScheduleSettles

\* A signal for which nobody waits is kept.
LEMMA FutexKeepSettles ==
    ASSUME NEW s, Called(s), NEW tag \in Tags, WaitersFor(s, tag) = {},
           ~(Len(s.pending) >= max_tcbs)
    PROVE  Settled([s EXCEPT !.pending = Append(@, tag)])
  <1> DEFINE q == Append(s.pending, tag)
             r == [s EXCEPT !.pending = Append(@, tag)]
  <1>1. s \in Snapshots /\ s.failed = {} /\ Settled(s) /\ Waits(s)
    BY CallerRuns, Zenon DEF Called
  <1>2. s.pending \in Seq(Tags) /\ s.chain \in [Slots -> Seq(Tcbs)]
    BY <1>1, Types, Zenon
  <1>3. /\ q \in Seq(Tags) /\ Len(q) = Len(s.pending) + 1 /\ q[Len(s.pending) + 1] = tag
        /\ \A j \in 1 .. Len(s.pending) : q[j] = s.pending[j]
    BY <1>2
  <1> HIDE DEF q
  <1>4. /\ r \in Snapshots /\ r.pending = q /\ r.tcb = s.tcb /\ r.chain = s.chain
        /\ r.free = s.free /\ r.handler = s.handler /\ r.unmasked = s.unmasked
        /\ r.failed = {} /\ r.next = s.next /\ r.ready = s.ready
    BY <1>1, <1>3, Zenon DEF Snapshots, q
  <1> HIDE DEF r
  <1>5. \A j \in DOMAIN q : q[j] = tag \/ \E k \in DOMAIN s.pending : q[j] = s.pending[k]
    <2>1. /\ DOMAIN q = 1 .. (Len(s.pending) + 1) /\ DOMAIN s.pending = 1 .. Len(s.pending)
          /\ Len(s.pending) \in Nat
      BY <1>2, <1>3
    <2>2. ASSUME NEW j \in DOMAIN q
          PROVE  q[j] = tag \/ \E k \in DOMAIN s.pending : q[j] = s.pending[k]
      <3>1. j = Len(s.pending) + 1 \/ j \in 1 .. Len(s.pending)
        BY <2>1
      <3> QED
        BY <1>3, <2>1, <3>1, Zenon
    <2> QED
      BY <2>2, Zenon
  <1>6. \A t \in Tcbs : s.tcb[t].state = "WAIT_FUTEX" => s.tcb[t].waits_for # tag
    <2> SUFFICES ASSUME NEW t \in Tcbs, s.tcb[t].state = "WAIT_FUTEX", s.tcb[t].waits_for = tag
                 PROVE  FALSE
      BY Zenon
    <2> DEFINE x == s.chain[hash_tag[tag]]
    <2>1. hash_tag[tag] \in Slots /\ x \in Seq(Tcbs)
      BY <1>2, ImageAssumption, Zenon
    <2>2. t \in Members(x)
      BY <1>1, <2>1, Zenon DEF Waits, Futexes, IsList, Sleepers
    <2>3. PICK k \in 1 .. Len(x) : x[k] = t
      BY <2>1, <2>2, Places
    <2>4. k \in DOMAIN x
      BY <2>1, <2>3, Places
    <2> QED
      BY <2>3, <2>4, Zenon DEF WaitersFor
  <1>7. Futexes(r)
    <2>1. Len(q) <= max_tcbs
      <3>1. max_tcbs \in Nat /\ Len(s.pending) \in Nat
        BY <1>2, ImageAssumption
      <3> QED
        BY <1>3, <3>1
    <2>2. \A h \in Slots : IsList(Tcbs, r.chain[h], Sleepers(r, h)) /\ Falling(r, r.chain[h])
      BY <1>1, <1>4, Zenon DEF Waits, Futexes, Sleepers, Falling
    <2>3. \A t \in Tcbs : r.tcb[t].state = "WAIT_FUTEX" =>
            /\ r.tcb[t].waits_for \in Tags
            /\ \A j \in DOMAIN q : q[j] # r.tcb[t].waits_for
      BY <1>1, <1>4, <1>5, <1>6 DEF Waits, Futexes
    <2> QED
      BY <1>4, <2>1, <2>2, <2>3, Zenon DEF Futexes
  <1>8. Waits(r)
    <2>1. SameMessages(s, r) /\ SameSignalWaits(s, r) /\ SameLives(s, r) /\ SameHandlers(s, r)
      BY <1>4, Zenon DEF SameMessages, SameSignalWaits, SameLives, SameHandlers, IsSender
    <2>2. Messages(r) /\ SignalWaits(r) /\ Lives(r) /\ Handlers(r)
      BY <1>1, <2>1, Kept, Zenon
    <2> QED
      BY <1>7, <2>2, Zenon DEF Waits
  <1>9. SameRunning(s, r)
    BY <1>4, Zenon DEF SameRunning
  <1> QED
    BY <1>1, <1>4, <1>8, <1>9, StaysSettled, Zenon DEF r

\* sys_futex_wait() and sys_futex_signal().
LEMMA FutexCallsSettle ==
    ASSUME NEW s, Called(s), NEW tag \in Tags
    PROVE  Settled(FutexWait(s, tag)) /\ Settled(FutexSignal(s, tag))
  <1>1. Settled(FutexWait(s, tag))
    <2>1. CASE PendingFor(s, tag) = {}
      BY <2>1, FutexSleepSettles, Zenon DEF FutexWait
    <2>2. CASE PendingFor(s, tag) # {}
      <3> DEFINE W == PendingFor(s, tag)
      <3>1. s.pending \in Seq(Tags)
        BY CallerRuns, Types, Zenon
      <3>2. Len(s.pending) \in Nat /\ DOMAIN s.pending = 1 .. Len(s.pending)
        BY <3>1
      <3>3. /\ W \in SUBSET Int /\ W # {} /\ Len(s.pending) \in Int
            /\ \A x \in W : x <= Len(s.pending)
        BY <2>2, <3>2 DEF PendingFor
      <3>4. Max(W) \in W
        <4> HIDE DEF W
        <4> QED
          BY <3>3, MaxIsGreatest, Zenon
      <3>5. Max(W) \in DOMAIN s.pending
        BY <3>4, Zenon DEF PendingFor
      <3> QED
        BY <2>2, <3>5, TakePendingSettles, Zenon DEF FutexWait
    <2> QED
      BY <2>1, <2>2, Zenon
  <1>2. Settled(FutexSignal(s, tag))
    <2>1. CASE WaitersFor(s, tag) # {}
      BY <2>1, FutexWakeSettles, Zenon
    <2>2. CASE WaitersFor(s, tag) = {} /\ Len(s.pending) >= max_tcbs
      BY <2>2, Zenon DEF FutexSignal, Called
    <2>3. CASE WaitersFor(s, tag) = {} /\ ~(Len(s.pending) >= max_tcbs)
      BY <2>3, FutexKeepSettles, Zenon DEF FutexSignal
    <2> QED
      BY <2>1, <2>2, <2>3, Zenon
  <1> QED
    BY <1>1, <1>2, Zenon

-----------------------------------------------------------------------------
(* Interrupts                                                              *)

\* sys_interrupt_wait(): the caller sleeps, and its interrupt is let through.
LEMMA InterruptWaitSettles ==
    ASSUME NEW s, Called(s), s.tcb[s.current].registered_interrupt # NULL
    PROVE  Settled(InterruptWait(s))
  <1> DEFINE c == s.current
             i == s.tcb[c].registered_interrupt
             d == SetState(s, c, "WAIT_INT")
             a == DeactivateSelfSchedule(s, "WAIT_INT")
             r == [a EXCEPT !.unmasked = @ \cup {i}]
  <1>1. /\ s \in Snapshots /\ s.failed = {} /\ Waits(s) /\ c \in Tcbs
        /\ s.tcb[c].state = "RUNNABLE" /\ Ready(s, {c}) /\ c # NULL
    BY CallerRuns, Zenon
  <1>2. /\ a \in Snapshots /\ OnlySchedules(d, a)
        /\ d \in Snapshots /\ Becomes(s, d, c, "WAIT_INT", s.tcb[c].waits_for)
        /\ Ready(a, {a.next}) /\ Highest(a)
    BY <1>1, Deschedules, Zenon DEF ThreadStates, WaitStates
  <1>3. i \in Interrupts
    BY <1>1, Types, Zenon
  <1>4. InterruptWait(s) = r
    BY Zenon DEF InterruptWait
  <1> SUFFICES Settled(r)
    BY <1>4, Zenon
  <1> HIDE DEF a, d, i
  <1>5. /\ r \in Snapshots /\ r.unmasked = a.unmasked \cup {i} /\ r.tcb = a.tcb
        /\ r.ready = a.ready /\ r.next = a.next /\ r.chain = a.chain /\ r.free = a.free
        /\ r.pending = a.pending /\ r.handler = a.handler /\ r.failed = a.failed
    BY <1>2, <1>3, Zenon DEF Snapshots
  <1> HIDE DEF r
  <1>6. Ready(r, {r.next}) /\ Highest(r)
    <2>1. SameRunning(a, r)
      BY <1>5, Zenon DEF SameRunning
    <2> QED
      BY <1>2, <2>1, SameRunningKeeps, Zenon DEF SameRunning
  <1>7. /\ r.chain = s.chain /\ r.pending = s.pending /\ r.free = s.free
        /\ r.handler = s.handler /\ r.unmasked = s.unmasked \cup {i} /\ r.failed = {}
        /\ r.tcb[c].state = "WAIT_INT"
        /\ \A u \in Tcbs : u # c => r.tcb[u] = s.tcb[u]
        /\ \A u \in Tcbs : /\ r.tcb[u].senders = s.tcb[u].senders
                           /\ r.tcb[u].waits_for = s.tcb[u].waits_for
                           /\ r.tcb[u].priority = s.tcb[u].priority
                           /\ r.tcb[u].signals = s.tcb[u].signals
                           /\ r.tcb[u].joiner = s.tcb[u].joiner
                           /\ r.tcb[u].registered_interrupt = s.tcb[u].registered_interrupt
    BY <1>1, <1>2, <1>5 DEF Becomes, Turns, OnlySchedules
  <1>8. /\ SameFutexes(s, r) /\ SameMessages(s, r)
        /\ SameSignalWaits(s, r) /\ SameLives(s, r)
    BY <1>1, <1>7, Zenon
       DEF SameFutexes, SameMessages, SameSignalWaits, SameLives, IsSender, DeadStates
  <1>9. Futexes(r) /\ Messages(r) /\ SignalWaits(r) /\ Lives(r)
    BY <1>1, <1>8, Kept, Zenon
  <1>12. Handlers(r)
    <2>1. ASSUME NEW k \in Interrupts
          PROVE  k \in r.unmasked <=> r.handler[k] # NULL /\ r.tcb[r.handler[k]].state = "WAIT_INT"
      <3>1. s.handler[k] \in Tcbs \cup {NULL} /\ r.handler[k] = s.handler[k]
        BY <1>1, <1>7, Types, Zenon
      <3>2. k = i <=> s.handler[k] = c
        BY <1>1 DEF Waits, Handlers, i
      <3>3. k \in s.unmasked <=> s.handler[k] # NULL /\ s.tcb[s.handler[k]].state = "WAIT_INT"
        BY <1>1, Zenon DEF Waits, Handlers
      <3>4. CASE k = i
        BY <1>1, <1>7, <3>1, <3>2, <3>4
      <3>5. CASE k # i
        BY <1>7, <3>1, <3>2, <3>3, <3>5, Zenon
      <3> QED
        BY <3>4, <3>5, Zenon
    <2>2. \A k \in Interrupts, t \in Tcbs :
            r.handler[k] = t <=> r.tcb[t].registered_interrupt = k
      BY <1>1, <1>7 DEF Waits, Handlers
    <2>3. \A t \in Tcbs : r.tcb[t].state \in DeadStates => r.tcb[t].registered_interrupt = NULL
      BY <1>1, <1>7 DEF Waits, Handlers, DeadStates
    <2>4. \A t \in Tcbs : r.tcb[t].state = "WAIT_INT" => r.tcb[t].registered_interrupt # NULL
      BY <1>1, <1>7 DEF Waits, Handlers
    <2> QED
      BY <2>1, <2>2, <2>3, <2>4, Zenon DEF Handlers
  <1> QED
    BY <1>5, <1>6, <1>7, <1>9, <1>12, Zenon DEF Settled, Waits

\* c_handle_interrupt(): the interrupt finds its handler waiting, in user code and in the
\* idle loop.
LEMMA HandleInterruptSettles ==
    ASSUME NEW s, Settled(s), s.current \in Tcbs \cup {idle}, s.next = s.current,
           NEW i \in s.unmasked
    PROVE  Settled(HandleInterrupt(s, i))
  <1> DEFINE c == s.current
             t == s.handler[i]
             e == [s EXCEPT !.unmasked = @ \ {i}]
             w == SetRunnable(e, t)
  <1>1. /\ s \in Snapshots /\ s.failed = {} /\ Waits(s) /\ Ready(s, {c}) /\ Highest(s)
        /\ i \in Interrupts
    BY Types, Zenon DEF Settled
  <1>2. t \in Tcbs /\ s.tcb[t].state = "WAIT_INT" /\ s.tcb[t].registered_interrupt = i
    <2>1. t # NULL /\ s.tcb[t].state = "WAIT_INT" /\ t \in Tcbs \cup {NULL}
      BY <1>1, Types DEF Waits, Handlers
    <2> QED
      BY <1>1, <2>1, Zenon DEF Waits, Handlers
  <1>3. HandleInterrupt(s, i) = ActivateSchedule(e, t)
    BY <1>2, Image, Zenon DEF HandleInterrupt
  <1> SUFFICES Settled(ActivateSchedule(e, t))
    BY <1>3, Zenon
  <1> HIDE DEF t
  <1>4. /\ e \in Snapshots /\ e.unmasked = s.unmasked \ {i} /\ e.tcb = s.tcb
        /\ e.ready = s.ready /\ e.next = s.next /\ e.chain = s.chain /\ e.free = s.free
        /\ e.pending = s.pending /\ e.handler = s.handler /\ e.failed = s.failed
        /\ e.current = c
    BY <1>1, Zenon DEF Snapshots
  <1> HIDE DEF e
  <1>5. Ready(e, {c}) /\ Highest(e)
    <2>1. SameRunning(s, e)
      BY <1>4, Zenon DEF SameRunning
    <2> QED
      BY <1>1, <2>1, SameRunningKeeps, Zenon
  <1>6. w \in Snapshots /\ Becomes(e, w, t, "RUNNABLE", NULL)
    BY <1>2, <1>4, RunnableAssigned, Zenon
  <1> HIDE DEF w
  <1>7. /\ w.chain = s.chain /\ w.pending = s.pending /\ w.free = s.free
        /\ w.handler = s.handler /\ w.unmasked = s.unmasked \ {i}
        /\ w.tcb[t].state = "RUNNABLE"
        /\ \A u \in Tcbs : u # t => w.tcb[u] = s.tcb[u]
        /\ \A u \in Tcbs : /\ w.tcb[u].senders = s.tcb[u].senders
                           /\ w.tcb[u].signals = s.tcb[u].signals
                           /\ w.tcb[u].joiner = s.tcb[u].joiner
                           /\ w.tcb[u].registered_interrupt = s.tcb[u].registered_interrupt
    BY <1>2, <1>4, <1>6 DEF Becomes, Turns
  <1>8. /\ SameFutexes(s, w) /\ SameMessages(s, w)
        /\ SameSignalWaits(s, w) /\ SameLives(s, w)
    BY <1>1, <1>2, <1>7, Zenon
       DEF SameFutexes, SameMessages, SameSignalWaits, SameLives, IsSender, DeadStates
  <1>9. Futexes(w) /\ Messages(w) /\ SignalWaits(w) /\ Lives(w)
    BY <1>1, <1>8, Kept, Zenon
  <1>12. Handlers(w)
    <2>1. ASSUME NEW k \in Interrupts
          PROVE  k \in w.unmasked <=> w.handler[k] # NULL /\ w.tcb[w.handler[k]].state = "WAIT_INT"
      <3>1. s.handler[k] \in Tcbs \cup {NULL} /\ w.handler[k] = s.handler[k]
        BY <1>1, <1>7, Types, Zenon
      <3>2. k = i <=> s.handler[k] = t
        BY <1>1, <1>2 DEF Waits, Handlers
      <3>3. k \in s.unmasked <=> s.handler[k] # NULL /\ s.tcb[s.handler[k]].state = "WAIT_INT"
        BY <1>1, Zenon DEF Waits, Handlers
      <3>4. CASE k = i
        BY <1>7, <3>1, <3>2, <3>4, Zenon
      <3>5. CASE k # i
        BY <1>7, <3>1, <3>2, <3>3, <3>5, Zenon
      <3> QED
        BY <3>4, <3>5, Zenon
    <2>2. \A k \in Interrupts, u \in Tcbs :
            w.handler[k] = u <=> w.tcb[u].registered_interrupt = k
      BY <1>1, <1>7 DEF Waits, Handlers
    <2>3. \A u \in Tcbs : w.tcb[u].state \in DeadStates => w.tcb[u].registered_interrupt = NULL
      BY <1>1, <1>7 DEF Waits, Handlers, DeadStates
    <2>4. \A u \in Tcbs : w.tcb[u].state = "WAIT_INT" => w.tcb[u].registered_interrupt # NULL
      BY <1>1, <1>7 DEF Waits, Handlers
    <2> QED
      BY <2>1, <2>2, <2>3, <2>4, Zenon DEF Handlers
  <1>13. Waits(w)
    BY <1>9, <1>12, Zenon DEF Waits
  <1>14. t # c
    BY <1>1, <1>2, Image, Zenon DEF Highest
  <1> QED
    BY <1>1, <1>2, <1>4, <1>5, <1>13, <1>14, ActivateScheduleSettles, Zenon DEF w

\* Only the interrupt of the caller changes.
Registers(s, r, c, i, h, j) ==
    /\ r.current = s.current /\ r.next = s.next /\ r.ready = s.ready /\ r.free = s.free
    /\ r.chain = s.chain /\ r.pending = s.pending /\ r.unmasked = s.unmasked
    /\ r.failed = s.failed
    /\ \A k \in Interrupts : r.handler[k] = (IF k = i THEN h ELSE s.handler[k])
    /\ \A u \in Tcbs : /\ r.tcb[u].state = s.tcb[u].state
                       /\ r.tcb[u].senders = s.tcb[u].senders
                       /\ r.tcb[u].waits_for = s.tcb[u].waits_for
                       /\ r.tcb[u].priority = s.tcb[u].priority
                       /\ r.tcb[u].signals = s.tcb[u].signals
                       /\ r.tcb[u].joiner = s.tcb[u].joiner
                       /\ r.tcb[u].registered_interrupt =
                            (IF u = c THEN j ELSE s.tcb[u].registered_interrupt)

\* The assignments of sys_interrupt_register() and sys_interrupt_deregister().
LEMMA InterruptAssigned ==
    ASSUME NEW s \in Snapshots, NEW c \in Tcbs, NEW i \in Interrupts,
           NEW h \in Tcbs \cup {NULL}, NEW j \in Interrupts \cup {NULL}
    PROVE  LET r == [s EXCEPT !.handler[i] = h, !.tcb[c].registered_interrupt = j]
           IN r \in Snapshots /\ Registers(s, r, c, i, h, j)
  <1> DEFINE a == [s EXCEPT !.handler[i] = h]
             v == [a.tcb[c] EXCEPT !.registered_interrupt = j]
             r == [a EXCEPT !.tcb[c].registered_interrupt = j]
  <1>1. /\ a \in Snapshots /\ a.handler = [s.handler EXCEPT ![i] = h] /\ a.tcb = s.tcb
        /\ a.current = s.current /\ a.next = s.next /\ a.ready = s.ready /\ a.free = s.free
        /\ a.chain = s.chain /\ a.pending = s.pending
        /\ a.unmasked = s.unmasked /\ a.failed = s.failed
    BY Zenon DEF Snapshots
  <1>2. s.handler \in [Interrupts -> Tcbs \cup {NULL}] /\ a.tcb[c] \in TcbType
    BY <1>1, Zenon DEF Snapshots
  <1> HIDE DEF a
  <1>3. /\ v \in TcbType /\ v.state = a.tcb[c].state /\ v.senders = a.tcb[c].senders
        /\ v.joiner = a.tcb[c].joiner /\ v.waits_for = a.tcb[c].waits_for
        /\ v.priority = a.tcb[c].priority /\ v.signals = a.tcb[c].signals
        /\ v.registered_interrupt = j
    BY <1>2, Zenon DEF TcbType
  <1>4. r = [a EXCEPT !.tcb[c] = v]
    BY <1>1, <1>2, Zenon DEF Snapshots
  <1> HIDE DEF r, v
  <1>5. /\ r \in Snapshots /\ r.tcb = [a.tcb EXCEPT ![c] = v]
        /\ r.current = a.current /\ r.next = a.next /\ r.ready = a.ready /\ r.free = a.free
        /\ r.chain = a.chain /\ r.pending = a.pending /\ r.handler = a.handler
        /\ r.unmasked = a.unmasked /\ r.failed = a.failed
    BY <1>1, <1>3, <1>4, Zenon DEF Snapshots
  <1>6. r.tcb[c] = v /\ \A u \in Tcbs : u # c => r.tcb[u] = s.tcb[u]
    BY <1>1, <1>5 DEF Snapshots
  <1>7. \A k \in Interrupts : r.handler[k] = (IF k = i THEN h ELSE s.handler[k])
    BY <1>1, <1>2, <1>5, Zenon
  <1>8. Registers(s, r, c, i, h, j)
    BY <1>1, <1>3, <1>5, <1>6, <1>7, Zenon DEF Registers
  <1>9. r = [s EXCEPT !.handler[i] = h, !.tcb[c].registered_interrupt = j]
    BY Zenon DEF r, a
  <1> QED
    BY <1>5, <1>8, <1>9, Zenon

\* The caller takes an interrupt that nobody has, or gives up its own.
LEMMA RegistersSettles ==
    ASSUME NEW s, Called(s), NEW r \in Snapshots, NEW i \in Interrupts,
           NEW h \in Tcbs \cup {NULL}, NEW j \in Interrupts \cup {NULL},
           Registers(s, r, s.current, i, h, j),
           \/ /\ h = s.current /\ j = i /\ s.handler[i] = NULL
              /\ s.tcb[s.current].registered_interrupt = NULL
           \/ h = NULL /\ j = NULL /\ s.handler[i] = s.current
    PROVE  Called(r)
  <1> DEFINE c == s.current
  <1>1. /\ s \in Snapshots /\ Waits(s) /\ c \in Tcbs /\ s.tcb[c].state = "RUNNABLE"
        /\ Settled(s) /\ s.next = c
    BY CallerRuns, Zenon DEF Called
  <1>2. /\ r.chain = s.chain /\ r.pending = s.pending /\ r.free = s.free
        /\ r.unmasked = s.unmasked /\ r.failed = s.failed /\ r.current = c /\ SameRunning(s, r)
        /\ \A k \in Interrupts : r.handler[k] = (IF k = i THEN h ELSE s.handler[k])
        /\ \A u \in Tcbs : /\ r.tcb[u].state = s.tcb[u].state
                           /\ r.tcb[u].senders = s.tcb[u].senders
                           /\ r.tcb[u].waits_for = s.tcb[u].waits_for
                           /\ r.tcb[u].priority = s.tcb[u].priority
                           /\ r.tcb[u].signals = s.tcb[u].signals
                           /\ r.tcb[u].joiner = s.tcb[u].joiner
                           /\ r.tcb[u].registered_interrupt =
                                (IF u = c THEN j ELSE s.tcb[u].registered_interrupt)
    BY Zenon DEF Registers, SameRunning
  <1>3. /\ SameFutexes(s, r) /\ SameMessages(s, r)
        /\ SameSignalWaits(s, r) /\ SameLives(s, r)
    BY <1>1, <1>2, Zenon DEF SameFutexes, SameMessages, SameSignalWaits, SameLives, IsSender
  <1>4. Futexes(r) /\ Messages(r) /\ SignalWaits(r) /\ Lives(r)
    BY <1>1, <1>3, Kept, Zenon
  <1>7. Handlers(r)
    <2>h. Handlers(s) /\ \A k \in Interrupts : s.handler[k] \in Tcbs \cup {NULL}
      BY <1>1, Types, Zenon DEF Waits
    <2>1. /\ \A k \in Interrupts, t \in Tcbs :
               s.handler[k] = t <=> s.tcb[t].registered_interrupt = k
          /\ \A k \in Interrupts : k \in s.unmasked <=>
               s.handler[k] # NULL /\ s.tcb[s.handler[k]].state = "WAIT_INT"
          /\ \A k \in Interrupts : s.handler[k] \in Tcbs \cup {NULL}
      BY <2>h, Zenon DEF Handlers
    <2>2. \A k \in Interrupts, t \in Tcbs : r.handler[k] = t <=> r.tcb[t].registered_interrupt = k
      BY <1>1, <1>2, <2>1, Image
    <2>3. ASSUME NEW k \in Interrupts
          PROVE  k \in r.unmasked <=> r.handler[k] # NULL /\ r.tcb[r.handler[k]].state = "WAIT_INT"
      BY <1>1, <1>2, <2>1, Image
    <2>4. \A t \in Tcbs : r.tcb[t].state \in DeadStates => r.tcb[t].registered_interrupt = NULL
      BY <1>1, <1>2 DEF Waits, Handlers, DeadStates
    <2>5. \A t \in Tcbs : r.tcb[t].state = "WAIT_INT" => r.tcb[t].registered_interrupt # NULL
      BY <1>1, <1>2 DEF Waits, Handlers
    <2> QED
      BY <2>2, <2>3, <2>4, <2>5, Zenon DEF Handlers
  <1>8. Settled(r)
    BY <1>1, <1>2, <1>4, <1>7, StaysSettled, Zenon DEF Waits
  <1> QED
    BY <1>1, <1>2, <1>8, Zenon DEF Called, SameRunning

-----------------------------------------------------------------------------
(* The image                                                               *)

\* The priority of a thread of the image is that of its list.
LEMMA ImagePriority ==
    ASSUME NEW t \in Tcbs, t \notin Members(Spare)
    PROVE  /\ LiveThread(t).priority \in Prio
           /\ \A p \in Prio : t \in Members(threads_at_priority[p]) <=> LiveThread(t).priority = p
  <1> DEFINE x == CHOOSE p \in Prio : t \in Members(threads_at_priority[p])
  <1>1. \E p \in Prio : t \in Members(threads_at_priority[p])
    BY ImageAssumption, Zenon
  <1>2. x \in Prio /\ t \in Members(threads_at_priority[x])
    BY <1>1, Zenon
  <1>3. LiveThread(t).priority = x
    BY Zenon DEF LiveThread, EmptyThread
  <1> HIDE DEF x
  <1>4. \A p \in Prio : t \in Members(threads_at_priority[p]) => p = x
    BY <1>2, ImageAssumption, Zenon
  <1> QED
    BY <1>2, <1>3, <1>4, Zenon

\* The empty list.
LEMMA EmptyIsList == \A T : IsList(T, <<>>, {})
  BY DEF IsList, Members, NoRepeats

\* The image satisfies the invariant.
LEMMA InitSettles == Init => IInv
  <1> SUFFICES ASSUME Init PROVE Settled(S)
    BY Zenon DEF IInv
  <1>1. /\ S.tcb = [t \in Tcbs |-> IF t \in Members(Spare) THEN EmptyThread ELSE LiveThread(t)]
        /\ S.current = NULL /\ S.next = NULL /\ S.ready = threads_at_priority
        /\ S.free = Spare /\ S.chain = [h \in Slots |-> <<>>] /\ S.pending = <<>>
        /\ S.handler = [i \in Interrupts |-> NULL] /\ S.unmasked = {} /\ S.failed = {}
    BY Zenon DEF Init, S
  <1>2. /\ EmptyThread \in TcbType /\ EmptyThread.state = "HALTED"
        /\ EmptyThread.senders = <<>> /\ EmptyThread.joiner = NULL
        /\ EmptyThread.registered_interrupt = NULL
    <2>1. 0 \in Prio /\ NULL \in Tags \cup Tcbs \cup (SUBSET Signals) \cup {NULL}
      BY Image DEF Prio
    <2>2. "HALTED" \in ThreadStates
      BY Zenon DEF ThreadStates, DeadStates
    <2> QED
      BY <2>1, <2>2 DEF EmptyThread, TcbType
  <1>3. ASSUME NEW t \in Tcbs, t \notin Members(Spare)
        PROVE  /\ LiveThread(t) \in TcbType /\ LiveThread(t).state = "RUNNABLE"
               /\ LiveThread(t).senders = <<>> /\ LiveThread(t).joiner = NULL
               /\ LiveThread(t).registered_interrupt = NULL
    <2> DEFINE x == CHOOSE p \in Prio : t \in Members(threads_at_priority[p])
    <2>1. x \in Prio
      BY <1>3, ImageAssumption, Zenon
    <2>2. LiveThread(t) = [EmptyThread EXCEPT !.state = "RUNNABLE", !.priority = x]
      BY Zenon DEF LiveThread
    <2> HIDE DEF x
    <2>3. ASSUME NEW e \in TcbType
          PROVE  LET v == [e EXCEPT !.state = "RUNNABLE", !.priority = x]
                 IN /\ v \in TcbType /\ v.state = "RUNNABLE" /\ v.senders = e.senders
                    /\ v.joiner = e.joiner /\ v.registered_interrupt = e.registered_interrupt
      BY <2>1, Zenon DEF TcbType, ThreadStates
    <2> QED
      BY <1>2, <2>2, <2>3, Zenon
  <1>4. /\ \A t \in Members(Spare) : t \in Tcbs
        /\ IsList(Tcbs, Spare, Members(Spare))
        /\ threads_at_priority \in [Prio -> Seq(Tcbs)]
    BY ImageAssumption, Places DEF IsList
  <1>5. \A t \in Tcbs : S.tcb[t] = IF t \in Members(Spare) THEN EmptyThread ELSE LiveThread(t)
    BY <1>1, Zenon
  <1>6. \A t \in Tcbs : /\ S.tcb[t] \in TcbType
                        /\ S.tcb[t].state = IF t \in Members(Spare) THEN "HALTED" ELSE "RUNNABLE"
                        /\ S.tcb[t].senders = <<>> /\ S.tcb[t].joiner = NULL
                        /\ S.tcb[t].registered_interrupt = NULL
    BY <1>2, <1>3, <1>5, Zenon
  <1>7. S \in Snapshots
    <2>1. S.tcb \in [Tcbs -> TcbType]
      BY <1>1, <1>6, Zenon
    <2>2. /\ S.chain \in [Slots -> Seq(Tcbs)] /\ S.pending \in Seq(Tags)
          /\ S.handler \in [Interrupts -> Tcbs \cup {NULL}]
          /\ S.free \in Seq(Tcbs)
      BY <1>1, <1>4 DEF IsList
    <2> QED
      BY <1>1, <1>4, <2>1, <2>2, Zenon DEF Snapshots, S
  <1>8. Ready(S, {NULL})
    <2>1. ASSUME NEW p \in Prio
          PROVE  IsList(Tcbs, threads_at_priority[p], RunnableAt(S, p, {NULL}))
      <3>1. threads_at_priority[p] \in Seq(Tcbs) /\ NoRepeats(threads_at_priority[p])
        BY <1>4, ImageAssumption, Zenon
      <3>2. \A t \in Members(threads_at_priority[p]) : t \in Tcbs /\ t \notin Members(Spare)
        BY <3>1, Places, ImageAssumption
      <3>3. \A t \in Tcbs \ Members(Spare) :
              t \in Members(threads_at_priority[p]) <=> S.tcb[t].priority = p
        BY <1>5, ImagePriority, Zenon
      <3>4. Members(threads_at_priority[p]) = RunnableAt(S, p, {NULL})
        BY <1>6, <3>2, <3>3, Image, Zenon DEF RunnableAt
      <3> QED
        BY <3>1, <3>4, Zenon DEF IsList
    <2> QED
      BY <1>1, <2>1, Zenon DEF Ready
  <1>9. Highest(S)
    BY <1>1, Image, Zenon DEF Highest
  <1>10. Futexes(S)
    <2>1. Len(S.pending) <= max_tcbs
      BY <1>1, ImageAssumption
    <2>2. ASSUME NEW h \in Slots
          PROVE  IsList(Tcbs, S.chain[h], Sleepers(S, h)) /\ Falling(S, S.chain[h])
      <3>1. Sleepers(S, h) = {} /\ S.chain[h] = <<>>
        BY <1>1, <1>6, Zenon DEF Sleepers
      <3>2. IsList(Tcbs, <<>>, {})
        BY EmptyIsList, Zenon
      <3> QED
        BY <3>1, <3>2 DEF Falling
    <2> QED
      BY <1>6, <2>1, <2>2, Zenon DEF Futexes
  <1>11. Messages(S)
    <2>1. ASSUME NEW d \in Tcbs PROVE SendersTo(S, d) = {} /\ IsList(Tcbs, S.tcb[d].senders, {})
      <3>1. IsList(Tcbs, <<>>, {})
        BY EmptyIsList, Zenon
      <3> QED
        BY <1>6, <3>1, Zenon DEF SendersTo, IsSender
    <2> QED
      BY <1>6, <2>1, Zenon DEF Messages, IsSender
  <1>12. SignalWaits(S)
    BY <1>6, Zenon DEF SignalWaits
  <1>13. Lives(S)
    <2>1. {t \in Tcbs : S.tcb[t].state = "HALTED"} = Members(Spare)
      BY <1>4, <1>6, Zenon
    <2> QED
      BY <1>1, <1>4, <1>6, <2>1, Zenon DEF Lives
  <1>14. Handlers(S)
    BY <1>1, <1>6, Image DEF Handlers
  <1> QED
    BY <1>1, <1>7, <1>8, <1>9, <1>10, <1>11, <1>12, <1>13, <1>14 DEF Settled, Waits

-----------------------------------------------------------------------------
(* What the calls do to the threads and to the signals that are kept       *)

\* Only t changes.
Changes(s, r, t, st, w) ==
    /\ \A u \in Tcbs \ {t} : r.tcb[u] = s.tcb[u]
    /\ r.tcb[t].state = st /\ r.tcb[t].waits_for = w

\* activate_schedule() makes dest runnable.
LEMMA ActivateScheduleChanges ==
    ASSUME NEW s \in Snapshots, NEW dest \in Tcbs, s.current \in Tcbs \cup {idle},
           s.tcb[dest].state # "RUNNABLE",
           s.current \in Tcbs => s.tcb[s.current].state = "RUNNABLE"
    PROVE  /\ Changes(s, ActivateSchedule(s, dest), dest, "RUNNABLE", NULL)
           /\ ActivateSchedule(s, dest).pending = s.pending
  <1> DEFINE w == SetRunnable(s, dest)
             r == ActivateSchedule(s, dest)
             n(x) == [x EXCEPT !.next = dest]
  <1>1. s.current # idle => s.current \in Tcbs /\ IsRunnable(s, s.current)
    BY Zenon DEF IsRunnable
  <1>2. r = IF s.current = idle THEN n(w)
            ELSE IF PrioOf(s, dest) > PrioOf(s, s.current)
            THEN n(Enqueue(w, s.current)) ELSE Enqueue(w, dest)
    BY <1>1, Zenon DEF ActivateSchedule, Require, IsRunnable
  <1> HIDE DEF r
  <1>3. w \in Snapshots /\ Becomes(s, w, dest, "RUNNABLE", NULL)
    BY RunnableAssigned, Zenon
  <1> HIDE DEF w
  <1>4. ASSUME NEW t \in Tcbs
        PROVE  /\ Enqueue(w, t).tcb = w.tcb /\ Enqueue(w, t).pending = w.pending
               /\ n(Enqueue(w, t)).tcb = w.tcb /\ n(Enqueue(w, t)).pending = w.pending
    <2> DEFINE e == [w EXCEPT !.ready[PrioOf(w, t)] = EnqueueListTail(@, t)]
    <2>1. PrioOf(w, t) \in Prio /\ w.ready \in [Prio -> Seq(Tcbs)]
      BY <1>3, Types, Zenon DEF PrioOf
    <2>2. EnqueueListTail(w.ready[PrioOf(w, t)], t) \in Seq(Tcbs)
      BY <2>1 DEF EnqueueListTail
    <2>3. e \in Snapshots /\ e.tcb = w.tcb /\ e.pending = w.pending
      BY <1>3, <2>1, <2>2, Zenon DEF Snapshots
    <2>4. Enqueue(w, t) = IF Unlinked(w, t) THEN e
                          ELSE [e EXCEPT !.failed = @ \cup {"enqueue: in another list"}]
      BY Zenon DEF Enqueue, Require
    <2> HIDE DEF e
    <2>5. CASE Unlinked(w, t)
      BY <2>3, <2>4, <2>5, Zenon DEF Snapshots
    <2>6. CASE ~Unlinked(w, t)
      BY <2>3, <2>4, <2>6, Zenon DEF Snapshots
    <2> QED
      BY <2>5, <2>6, Zenon
  <1>5. n(w).tcb = w.tcb /\ n(w).pending = w.pending
    BY <1>3, Zenon DEF Snapshots
  <1>6. r.tcb = w.tcb /\ r.pending = w.pending
    <2> HIDE DEF n
    <2> QED
      BY <1>1, <1>2, <1>4, <1>5, Zenon
  <1> QED
    BY <1>3, <1>6, Zenon DEF Becomes, Turns, Changes, r

\* sys_futex_wait() takes the last signal for the tag that is kept, or the caller sleeps.
LEMMA FutexWaitDoes ==
    ASSUME NEW s, Called(s), NEW tag \in Tags
    PROVE  LET r == FutexWait(s, tag)
           IN \/ /\ r.tcb = s.tcb
                 /\ \E i \in PendingFor(s, tag) : /\ r.pending = TakePending(s, i).pending
                                                  /\ \A j \in PendingFor(s, tag) : j <= i
              \/ /\ PendingFor(s, tag) = {} /\ r.pending = s.pending
                 /\ Changes(s, r, s.current, "WAIT_FUTEX", tag)
  <1> DEFINE r == FutexWait(s, tag)
  <1>1. /\ s \in Snapshots /\ s.failed = {} /\ s.current \in Tcbs
        /\ s.tcb[s.current].state = "RUNNABLE" /\ Ready(s, {s.current})
    BY CallerRuns, Zenon
  <1>2. CASE PendingFor(s, tag) # {}
    <2> DEFINE W == PendingFor(s, tag)
    <2>1. s.pending \in Seq(Tags)
      BY <1>1, Types, Zenon
    <2>2. Len(s.pending) \in Nat /\ DOMAIN s.pending = 1 .. Len(s.pending)
      BY <2>1
    <2>3. /\ W \in SUBSET Int /\ W # {} /\ Len(s.pending) \in Int
          /\ \A x \in W : x <= Len(s.pending)
      BY <1>2, <2>2 DEF PendingFor
    <2> HIDE DEF W
    <2>4. Max(W) \in W /\ \A x \in W : x <= Max(W)
      BY <2>3, MaxIsGreatest, Zenon
    <2>5. r = TakePending(s, Max(W))
      BY <1>2, Zenon DEF FutexWait, W
    <2>6. r.tcb = s.tcb
      BY <1>1, <2>5, Zenon DEF TakePending, Snapshots
    <2> QED
      BY <2>4, <2>5, <2>6, Zenon DEF W
  <1>3. CASE PendingFor(s, tag) = {}
    <2> DEFINE a == SleepOn(s, "WAIT_FUTEX", tag)
    <2>1. a \in Snapshots /\ Turns(s, a, s.current, "WAIT_FUTEX", tag)
      BY <1>1, FallsAsleep, Zenon DEF ThreadStates, WaitStates
    <2>2. r = [a EXCEPT !.chain[hash_tag[tag]] = EnqueueFutex(s, @, s.current)]
      BY <1>3, Zenon DEF FutexWait
    <2> HIDE DEF a, r
    <2>3. r.tcb = a.tcb /\ r.pending = a.pending
      BY <2>1, <2>2, Zenon DEF Snapshots
    <2>4. Changes(s, r, s.current, "WAIT_FUTEX", tag) /\ r.pending = s.pending
      BY <2>1, <2>3, Zenon DEF Turns, Changes
    <2> QED
      BY <1>3, <2>4, Zenon DEF r
  <1> QED
    BY <1>2, <1>3, Zenon

\* No thread sleeps on a tag for which the chain has no waiting thread.
LEMMA NobodyWaits ==
    ASSUME NEW s, Called(s), NEW tag \in Tags, WaitersFor(s, tag) = {}
    PROVE  \A t \in Tcbs : s.tcb[t].state = "WAIT_FUTEX" => s.tcb[t].waits_for # tag
  <1> SUFFICES ASSUME NEW t \in Tcbs, s.tcb[t].state = "WAIT_FUTEX", s.tcb[t].waits_for = tag
               PROVE  FALSE
    BY Zenon
  <1> DEFINE x == s.chain[hash_tag[tag]]
  <1>1. s \in Snapshots /\ Waits(s)
    BY CallerRuns, Zenon
  <1>2. hash_tag[tag] \in Slots /\ x \in Seq(Tcbs)
    <2>1. s.chain \in [Slots -> Seq(Tcbs)] /\ hash_tag \in [Tags -> Slots]
      BY <1>1, Types, ImageAssumption, Zenon
    <2> QED
      BY <2>1, Zenon
  <1>3. t \in Members(x)
    BY <1>1, <1>2, Zenon DEF Waits, Futexes, IsList, Sleepers
  <1>4. PICK k \in 1 .. Len(x) : x[k] = t
    BY <1>2, <1>3, Places
  <1>5. k \in DOMAIN x
    BY <1>2, <1>4, Places
  <1> QED
    BY <1>4, <1>5, Zenon DEF WaitersFor

\* sys_futex_signal() wakes a thread that sleeps on the tag, or keeps the signal if there
\* is none and there is room for it.
LEMMA FutexSignalDoes ==
    ASSUME NEW s, Called(s), NEW tag \in Tags, Len(s.pending) < max_tcbs
    PROVE  LET r == FutexSignal(s, tag)
           IN \/ /\ r.pending = s.pending
                 /\ \E u \in Tcbs : /\ s.tcb[u].state = "WAIT_FUTEX" /\ s.tcb[u].waits_for = tag
                                    /\ Changes(s, r, u, "RUNNABLE", NULL)
              \/ /\ \A u \in Tcbs : s.tcb[u].state = "WAIT_FUTEX" => s.tcb[u].waits_for # tag
                 /\ r.tcb = s.tcb /\ r.pending = Append(s.pending, tag)
  <1> DEFINE r == FutexSignal(s, tag)
             h == hash_tag[tag]
             q == s.chain[h]
             i == Min(WaitersFor(s, tag))
             a == [s EXCEPT !.chain[h] = Unlink(@, i)]
  <1>1. s \in Snapshots /\ Waits(s) /\ s.current \in Tcbs /\ s.tcb[s.current].state = "RUNNABLE"
    BY CallerRuns, Zenon
  <1>2. h \in Slots /\ s.chain \in [Slots -> Seq(Tcbs)]
    BY <1>1, Types, ImageAssumption, Zenon
  <1>3. CASE WaitersFor(s, tag) # {}
    <2>1. q \in Seq(Tcbs) /\ Len(q) \in Nat /\ DOMAIN q = 1 .. Len(q)
      BY <1>2, Places
    <2>2. i \in WaitersFor(s, tag)
      <3>1. WaitersFor(s, tag) \in SUBSET Nat
        BY <2>1 DEF WaitersFor
      <3> QED
        BY <1>3, <3>1, MinIsLeast, Zenon
    <2>3. i \in 1 .. Len(q) /\ s.tcb[q[i]].waits_for = tag
      BY <2>1, <2>2, Zenon DEF WaitersFor
    <2>4. r = ActivateSchedule(a, q[i])
      BY <1>3, Zenon DEF FutexSignal
    <2> HIDE DEF h, q, i, r
    <2>5. IsList(Tcbs, q, Sleepers(s, h))
      BY <1>1, <1>2, Zenon DEF Waits, Futexes, q
    <2>6. q[i] \in Tcbs /\ s.tcb[q[i]].state = "WAIT_FUTEX"
      <3>1. q[i] \in Tcbs /\ q[i] \in Members(q)
        BY <2>1, <2>3, Places
      <3> QED
        BY <2>5, <3>1, Zenon DEF IsList, Sleepers
    <2>7. Unlink(q, i) \in Seq(Tcbs)
      BY <2>1, <2>3, UnlinkElements, Zenon DEF RemovedAt
    <2>8. a \in Snapshots /\ a.tcb = s.tcb /\ a.pending = s.pending /\ a.current = s.current
      BY <1>1, <1>2, <2>7, Zenon DEF q, Snapshots
    <2> HIDE DEF a
    <2>9. Changes(a, r, q[i], "RUNNABLE", NULL) /\ r.pending = a.pending
      BY <1>1, <2>4, <2>6, <2>8, ActivateScheduleChanges
    <2>10. Changes(s, r, q[i], "RUNNABLE", NULL) /\ r.pending = s.pending
      BY <2>8, <2>9, Zenon DEF Changes
    <2> QED
      BY <2>3, <2>6, <2>10, Zenon DEF r
  <1>4. CASE WaitersFor(s, tag) = {}
    <2>1. s.pending \in Seq(Tags) /\ max_tcbs \in Nat
      BY <1>1, Types, ImageAssumption, Zenon
    <2>2. ~(Len(s.pending) >= max_tcbs)
      BY <2>1
    <2>3. r = [s EXCEPT !.pending = Append(@, tag)]
      BY <1>4, <2>2, Zenon DEF FutexSignal
    <2>4. r.tcb = s.tcb /\ r.pending = Append(s.pending, tag)
      BY <1>1, <2>3, Zenon DEF Snapshots
    <2> QED
      BY <1>4, <2>4, NobodyWaits, Zenon
  <1> QED
    BY <1>3, <1>4, Zenon

\* sys_interrupt_wait() puts the caller to sleep.
LEMMA InterruptWaitDoes ==
    ASSUME NEW s, Called(s), s.tcb[s.current].registered_interrupt # NULL
    PROVE  /\ \E w : Changes(s, InterruptWait(s), s.current, "WAIT_INT", w)
           /\ InterruptWait(s).pending = s.pending
  <1> DEFINE c == s.current
             d == SetState(s, c, "WAIT_INT")
             a == DeactivateSelfSchedule(s, "WAIT_INT")
             r == InterruptWait(s)
  <1>1. /\ s \in Snapshots /\ s.failed = {} /\ c \in Tcbs
        /\ s.tcb[c].state = "RUNNABLE" /\ Ready(s, {c})
    BY CallerRuns, Zenon
  <1>2. /\ a \in Snapshots /\ OnlySchedules(d, a)
        /\ Becomes(s, d, c, "WAIT_INT", s.tcb[c].waits_for)
    BY <1>1, Deschedules, Zenon DEF ThreadStates, WaitStates
  <1>3. r = [a EXCEPT !.unmasked = @ \cup {s.tcb[c].registered_interrupt}]
    BY Zenon DEF InterruptWait
  <1> HIDE DEF a, d, r
  <1>4. r.tcb = a.tcb /\ r.pending = a.pending
    BY <1>2, <1>3, Zenon DEF Snapshots
  <1>5. Changes(s, r, c, "WAIT_INT", s.tcb[c].waits_for) /\ r.pending = s.pending
    BY <1>2, <1>4, Zenon DEF OnlySchedules, Becomes, Turns, Changes
  <1> QED
    BY <1>5, Zenon DEF r

\* c_handle_interrupt() wakes a thread that waits for an interrupt.
LEMMA HandleInterruptDoes ==
    ASSUME NEW s, Settled(s), s.current \in Tcbs \cup {idle}, s.next = s.current,
           NEW i \in s.unmasked
    PROVE  /\ \E t \in Tcbs : /\ s.tcb[t].state = "WAIT_INT"
                              /\ Changes(s, HandleInterrupt(s, i), t, "RUNNABLE", NULL)
           /\ HandleInterrupt(s, i).pending = s.pending
  <1> DEFINE t == s.handler[i]
             e == [s EXCEPT !.unmasked = @ \ {i}]
  <1>1. /\ s \in Snapshots /\ Waits(s) /\ i \in Interrupts
        /\ s.current \in Tcbs => s.tcb[s.current].state = "RUNNABLE"
    BY Types, Zenon DEF Settled, Highest
  <1>2. t \in Tcbs /\ t # NULL /\ s.tcb[t].state = "WAIT_INT"
    BY <1>1, Types DEF Waits, Handlers
  <1>3. HandleInterrupt(s, i) = ActivateSchedule(e, t)
    BY <1>2, Zenon DEF HandleInterrupt
  <1> HIDE DEF t
  <1>4. e \in Snapshots /\ e.tcb = s.tcb /\ e.pending = s.pending /\ e.current = s.current
    BY <1>1, Zenon DEF Snapshots
  <1> HIDE DEF e
  <1>5. Changes(e, ActivateSchedule(e, t), t, "RUNNABLE", NULL) /\ ActivateSchedule(e, t).pending = e.pending
    BY <1>1, <1>2, <1>4, ActivateScheduleChanges
  <1>6. Changes(s, ActivateSchedule(e, t), t, "RUNNABLE", NULL)
    BY <1>4, <1>5, Zenon DEF Changes
  <1> QED
    BY <1>2, <1>3, <1>4, <1>5, <1>6, Zenon
=============================================================================
