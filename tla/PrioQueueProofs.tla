-------------------------- MODULE PrioQueueProofs ---------------------------
(***************************************************************************)
(* Proofs about PrioQueue for every number of threads, every MAX_PRIO and  *)
(* every word size.                                                        *)
(***************************************************************************)
EXTENDS PrioQueue, WellFoundedInduction, TLAPS

-----------------------------------------------------------------------------
(* Arithmetic of the bitmap indices                                        *)

\* Multiplying by the word size keeps the order.
LEMMA TimesMonotone ==
    ASSUME NEW a \in Int, NEW b \in Int, NEW n \in Nat, a <= b
    PROVE  a * n <= b * n
  OBVIOUS

\* Division with remainder by the word size.
LEMMA DivMod ==
    ASSUME NEW a \in Nat, NEW n \in Nat \ {0}
    PROVE  /\ a \div n \in Nat
           /\ a % n \in 0 .. (n - 1)
           /\ a = (a \div n) * n + (a % n)
  OBVIOUS

\* A word index and a bit index name a single number.
LEMMA IndexUnique ==
    ASSUME NEW n \in Nat \ {0}, NEW w \in Nat, NEW v \in Nat,
           NEW b \in 0 .. (n - 1), NEW c \in 0 .. (n - 1),
           w * n + b = v * n + c
    PROVE  w = v /\ b = c
  <1>1. ASSUME NEW x \in Nat, NEW y \in Nat, x < y PROVE x * n + n <= y * n
    BY <1>1, TimesMonotone, x + 1 <= y, (x + 1) * n = x * n + n
  <1>2. ~(w < v)
    BY <1>1
  <1>3. ~(v < w)
    BY <1>1
  <1> QED
    BY <1>2, <1>3

\* Each priority has its bit: the word and the bit that enqueue() and
\* remove_sched_bitmap_bit() compute exist, and name that priority only.
LEMMA PrioHasItsBit ==
    ASSUME NEW p \in Prio
    PROVE  /\ p \div BITS_WORD \in Words
           /\ p % BITS_WORD \in Bits
           /\ p = (p \div BITS_WORD) * BITS_WORD + (p % BITS_WORD)
           /\ \A w \in Words, b \in Bits :
                  w * BITS_WORD + b = p <=> w = p \div BITS_WORD /\ b = p % BITS_WORD
  <1> DEFINE n == BITS_WORD
             k == p \div n
             m == BITMAP_WORDS
  <1>1. n \in Nat \ {0} /\ MAX_PRIO \in Nat /\ p \in Nat /\ p <= MAX_PRIO
    BY MaxPrioAssumption, BitsWordAssumption DEF Prio
  <1>2. k \in Nat /\ p % n \in 0 .. (n - 1) /\ p = k * n + (p % n)
    BY <1>1, DivMod, Zenon
  <1>3. /\ m \in Nat
        /\ (MAX_PRIO + n) % n \in 0 .. (n - 1)
        /\ MAX_PRIO + n = m * n + ((MAX_PRIO + n) % n)
    <2>1. MAX_PRIO + n \in Nat
      BY <1>1
    <2> QED
      BY <1>1, <2>1, DivMod, Zenon DEF BITMAP_WORDS
  <1>4. k < m
    <2>1. SUFFICES ASSUME m <= k PROVE FALSE
      BY <1>2, <1>3
    <2> HIDE DEF k, m, n
    <2>2. m * n <= k * n
      BY <2>1, <1>1, <1>2, <1>3, TimesMonotone
    <2>3. MAX_PRIO < m * n
      BY <1>1, <1>3
    <2> QED
      BY <1>1, <1>2, <1>3, <2>2, <2>3
  <1>5. k \in Words
    BY <1>2, <1>3, <1>4 DEF Words
  <1>6. ASSUME NEW w \in Words, NEW b \in Bits, w * n + b = p
        PROVE  w = k /\ b = p % n
    <2>1. w \in Nat /\ b \in 0 .. (n - 1)
      BY DEF Words, Bits
    <2> QED
      BY <1>1, <1>2, <1>6, <2>1, IndexUnique
  <1> QED
    BY <1>2, <1>5, <1>6 DEF Bits

-----------------------------------------------------------------------------
(* The list macros                                                         *)

\* ENQUEUE_LIST_TAIL links the new element and keeps the others.
LEMMA EnqueueTailMembers ==
    ASSUME NEW S, NEW q \in Seq(S), NEW e \in S
    PROVE  /\ EnqueueListTail(q, e) \in Seq(S)
           /\ EnqueueListTail(q, e) # <<>>
           /\ Members(EnqueueListTail(q, e)) = Members(q) \cup {e}
           /\ NoRepeats(q) /\ e \notin Members(q) => NoRepeats(EnqueueListTail(q, e))
  <1> DEFINE r == Append(q, e)
  <1>1. /\ r \in Seq(S) /\ Len(r) = Len(q) + 1 /\ Len(q) \in Nat
        /\ \A i \in 1 .. Len(q) : r[i] = q[i]
        /\ r[Len(q) + 1] = e
    OBVIOUS
  <1> HIDE DEF r
  <1>2. r # <<>>
    BY <1>1
  <1>3. Members(r) = Members(q) \cup {e}
    <2>1. Members(r) \subseteq Members(q) \cup {e}
      BY <1>1 DEF Members
    <2>2. e \in Members(r)
      BY <1>1 DEF Members
    <2>3. ASSUME NEW i \in DOMAIN q PROVE q[i] \in Members(r)
      BY <1>1 DEF Members
    <2> QED
      BY <2>1, <2>2, <2>3, Zenon DEF Members
  <1>4. ASSUME NoRepeats(q), e \notin Members(q) PROVE NoRepeats(r)
    BY <1>1, <1>4 DEF Members, NoRepeats
  <1> QED
    BY <1>1, <1>2, <1>3, <1>4 DEF EnqueueListTail, r

\* DEQUEUE_LIST unlinks the element it is given, and that element only.
LEMMA DequeueMembers ==
    ASSUME NEW S, NEW q \in Seq(S), NEW e \in Members(q), NoRepeats(q)
    PROVE  /\ DequeueList(q, e) \in Seq(S)
           /\ Members(DequeueList(q, e)) = Members(q) \ {e}
           /\ NoRepeats(DequeueList(q, e))
  <1> DEFINE k == IndexOf(q, e)
             r == Unlink(q, k)
  <1>1. k \in 1 .. Len(q) /\ q[k] = e
    BY DEF IndexOf, Members
  <1> HIDE DEF k
  <1>2. /\ r \in Seq(S) /\ Len(r) = Len(q) - 1 /\ Len(r) \in Nat
        /\ \A j \in 1 .. (Len(q) - 1) : r[j] = IF j < k THEN q[j] ELSE q[j + 1]
    BY <1>1 DEF Unlink
  <1> HIDE DEF r
  <1>3. ASSUME NEW j \in 1 .. Len(r) PROVE r[j] \in Members(q) /\ r[j] # e
    <2>1. CASE j < k
      <3>1. j \in DOMAIN q /\ k \in DOMAIN q /\ j # k /\ r[j] = q[j]
        BY <1>1, <1>2, <2>1
      <3> QED
        BY <1>1, <3>1 DEF Members, NoRepeats
    <2>2. CASE ~(j < k)
      <3>1. j + 1 \in DOMAIN q /\ k \in DOMAIN q /\ j + 1 # k /\ r[j] = q[j + 1]
        BY <1>1, <1>2, <2>2
      <3> QED
        BY <1>1, <3>1 DEF Members, NoRepeats
    <2> QED
      BY <2>1, <2>2
  <1>4. ASSUME NEW x \in Members(q), x # e PROVE x \in Members(r)
    <2>1. PICK i \in 1 .. Len(q) : q[i] = x
      BY DEF Members
    <2>2. CASE i < k
      <3>1. i \in 1 .. (Len(q) - 1) /\ r[i] = x
        BY <1>1, <1>2, <2>1, <2>2
      <3> QED BY <1>2, <3>1 DEF Members
    <2>3. CASE i > k
      <3>1. (i - 1) \in 1 .. (Len(q) - 1) /\ r[i - 1] = x
        BY <1>1, <1>2, <2>1, <2>3
      <3> QED BY <1>2, <3>1 DEF Members
    <2> QED
      BY <1>1, <1>4, <2>1, <2>2, <2>3
  <1>5. NoRepeats(r)
    <2> DEFINE src(j) == IF j < k THEN j ELSE j + 1
    <2>1. ASSUME NEW i \in 1 .. Len(r), NEW j \in 1 .. Len(r), r[i] = r[j] PROVE i = j
      <3>1. src(i) \in DOMAIN q /\ src(j) \in DOMAIN q
        BY <1>1, <1>2
      <3>2. r[i] = q[src(i)] /\ r[j] = q[src(j)]
        BY <1>2
      <3>3. src(i) = src(j)
        BY <2>1, <3>1, <3>2, Zenon DEF NoRepeats
      <3> QED
        BY <1>1, <3>3
    <2> QED
      BY <1>2, <2>1 DEF NoRepeats
  <1> QED
    <2>1. Members(r) \subseteq Members(q) \ {e}
      BY <1>2, <1>3 DEF Members
    <2>2. Members(q) \ {e} \subseteq Members(r)
      BY <1>4
    <2> QED
      BY <1>2, <1>5, <2>1, <2>2 DEF DequeueList, k, r

\* A list is empty when it links nothing.
LEMMA EmptyMembers ==
    ASSUME NEW S, NEW q \in Seq(S)
    PROVE  q = <<>> <=> Members(q) = {}
  BY DEF Members

-----------------------------------------------------------------------------
(* The inductive invariant, as a predicate of the fields and priorities    *)

\* What every operation keeps: the bitmaps say exactly which lists are not
\* empty, and a linked thread is in the list of its effective priority.
QueueInv(r, eff) ==
    /\ r \in PrioQueueType
    /\ BitsExact(r)
    /\ IndexExact(r)
    /\ LinkedAtEff(r, eff)

\* enqueue() keeps the invariant.
LEMMA EnqueueKeepsInv ==
    ASSUME NEW r, NEW eff \in [Threads -> Prio], NEW tcb \in Threads,
           QueueInv(r, eff), ~IsQueued(r, tcb)
    PROVE  /\ QueueInv(EnqueueAt(r, tcb, eff[tcb]), eff)
           /\ EnqueueAt(r, tcb, eff[tcb]).prio_queue
                 = [r.prio_queue EXCEPT ![eff[tcb]] = EnqueueListTail(@, tcb)]
  <1> DEFINE p == eff[tcb]
             w0 == p \div BITS_WORD
             b0 == p % BITS_WORD
             s == EnqueueAt(r, tcb, p)
             q == EnqueueListTail(r.prio_queue[p], tcb)
  <1>1. /\ p \in Prio /\ w0 \in Words /\ b0 \in Bits
        /\ p = w0 * BITS_WORD + b0
        /\ \A w \in Words, b \in Bits : w * BITS_WORD + b = p <=> w = w0 /\ b = b0
    BY PrioHasItsBit
  <1>2. /\ r.prio_queue \in [Prio -> Seq(Threads)]
        /\ r.index_bitmap \in SUBSET Bits
        /\ r.prio_bitmap \in [Words -> SUBSET Bits]
    BY DEF QueueInv, PrioQueueType
  <1>3. tcb \notin Members(r.prio_queue[p]) /\ NoRepeats(r.prio_queue[p])
    BY <1>1 DEF IsQueued, QueueInv, LinkedAtEff
  <1>4. /\ q \in Seq(Threads) /\ q # <<>> /\ NoRepeats(q)
        /\ Members(q) = Members(r.prio_queue[p]) \cup {tcb}
    BY <1>1, <1>2, <1>3, EnqueueTailMembers
  <1>5. /\ s.prio_queue = [r.prio_queue EXCEPT ![p] = q]
        /\ s.index_bitmap = r.index_bitmap \cup {w0}
        /\ s.prio_bitmap = [r.prio_bitmap EXCEPT ![w0] = @ \cup {b0}]
        /\ s = [prio_queue |-> s.prio_queue, index_bitmap |-> s.index_bitmap,
                prio_bitmap |-> s.prio_bitmap]
    BY DEF EnqueueAt
  <1>6. Words \subseteq Bits
    <2>1. BITMAP_WORDS <= BITS_WORD /\ BITS_WORD \in Nat
      BY IndexFitsAssumption, BitsWordAssumption
    <2>2. BITMAP_WORDS \in Int
      BY MaxPrioAssumption, BitsWordAssumption DEF BITMAP_WORDS
    <2> QED
      BY <2>1, <2>2 DEF Words, Bits
  <1> HIDE DEF s, q, p, w0, b0
  <1>7. s \in PrioQueueType
    <2>1. s.prio_queue \in [Prio -> Seq(Threads)]
      BY <1>1, <1>2, <1>4, <1>5
    <2>2. s.index_bitmap \in SUBSET Bits
      BY <1>1, <1>2, <1>5, <1>6
    <2>3. s.prio_bitmap \in [Words -> SUBSET Bits]
      BY <1>1, <1>2, <1>5
    <2> QED
      BY <1>5, <2>1, <2>2, <2>3 DEF PrioQueueType
  <1>8. BitsExact(s)
    <2>1. SUFFICES ASSUME NEW w \in Words, NEW b \in Bits
                   PROVE  b \in s.prio_bitmap[w]
                            <=> /\ w * BITS_WORD + b \in Prio
                                /\ s.prio_queue[w * BITS_WORD + b] # <<>>
      BY DEF BitsExact
    <2>2. b \in r.prio_bitmap[w] <=> /\ w * BITS_WORD + b \in Prio
                                     /\ r.prio_queue[w * BITS_WORD + b] # <<>>
      BY DEF QueueInv, BitsExact
    <2>3. CASE w = w0 /\ b = b0
      BY <1>1, <1>2, <1>4, <1>5, <2>3
    <2>4. CASE ~(w = w0 /\ b = b0)
      <3>1. w * BITS_WORD + b # p
        BY <1>1, <2>4
      <3>2. b \in s.prio_bitmap[w] <=> b \in r.prio_bitmap[w]
        BY <1>1, <1>2, <1>5, <2>4
      <3>3. w * BITS_WORD + b \in Prio =>
               s.prio_queue[w * BITS_WORD + b] = r.prio_queue[w * BITS_WORD + b]
        BY <1>2, <1>5, <3>1
      <3> QED
        BY <2>2, <3>2, <3>3
    <2> QED
      BY <2>3, <2>4
  <1>9. IndexExact(s)
    <2>1. /\ r.index_bitmap \subseteq Words
          /\ \A w \in Words : w \in r.index_bitmap <=> r.prio_bitmap[w] # {}
      BY DEF QueueInv, IndexExact
    <2>2. s.index_bitmap \subseteq Words
      BY <1>1, <1>5, <2>1
    <2>3. ASSUME NEW w \in Words PROVE w \in s.index_bitmap <=> s.prio_bitmap[w] # {}
      <3>1. CASE w = w0
        <4>1. b0 \in s.prio_bitmap[w]
          BY <1>1, <1>2, <1>5, <3>1
        <4> QED
          BY <1>5, <3>1, <4>1
      <3>2. CASE w # w0
        <4>1. s.prio_bitmap[w] = r.prio_bitmap[w]
          BY <1>1, <1>2, <1>5, <3>2
        <4> QED
          BY <1>5, <2>1, <3>2, <4>1
      <3> QED
        BY <3>1, <3>2
    <2> QED
      BY <2>2, <2>3 DEF IndexExact
  <1>10. LinkedAtEff(s, eff)
    <2>1. SUFFICES ASSUME NEW x \in Prio
                   PROVE  /\ NoRepeats(s.prio_queue[x])
                          /\ \A u \in Members(s.prio_queue[x]) : eff[u] = x
      BY DEF LinkedAtEff
    <2>2. /\ NoRepeats(r.prio_queue[x])
          /\ \A u \in Members(r.prio_queue[x]) : eff[u] = x
      BY DEF QueueInv, LinkedAtEff
    <2> QED
      BY <1>1, <1>2, <1>4, <1>5, <2>2, Zenon DEF p
  <1> QED
    BY <1>5, <1>7, <1>8, <1>9, <1>10 DEF QueueInv, s, q, p

\* dequeue() keeps the invariant and takes the thread off its list.
LEMMA DequeueKeepsInv ==
    ASSUME NEW r, NEW eff \in [Threads -> Prio], NEW tcb \in Threads,
           QueueInv(r, eff), IsQueued(r, tcb)
    PROVE  /\ QueueInv(DequeueAt(r, tcb, eff[tcb]), eff)
           /\ ~IsQueued(DequeueAt(r, tcb, eff[tcb]), tcb)
           /\ DequeueAt(r, tcb, eff[tcb]).prio_queue
                 = [r.prio_queue EXCEPT ![eff[tcb]] = DequeueList(@, tcb)]
  <1> DEFINE p == eff[tcb]
             w0 == p \div BITS_WORD
             b0 == p % BITS_WORD
             s == DequeueAt(r, tcb, p)
             q == DequeueList(r.prio_queue[p], tcb)
             rest == r.prio_bitmap[w0] \ {b0}
  <1>1. /\ p \in Prio /\ w0 \in Words /\ b0 \in Bits
        /\ p = w0 * BITS_WORD + b0
        /\ \A w \in Words, b \in Bits : w * BITS_WORD + b = p <=> w = w0 /\ b = b0
    BY PrioHasItsBit
  <1>2. /\ r.prio_queue \in [Prio -> Seq(Threads)]
        /\ r.index_bitmap \in SUBSET Bits
        /\ r.prio_bitmap \in [Words -> SUBSET Bits]
        /\ r = [prio_queue |-> r.prio_queue, index_bitmap |-> r.index_bitmap,
                prio_bitmap |-> r.prio_bitmap]
    BY DEF QueueInv, PrioQueueType
  <1>3. tcb \in Members(r.prio_queue[p]) /\ NoRepeats(r.prio_queue[p])
    BY <1>1 DEF IsQueued, QueueInv, LinkedAtEff
  <1>4. /\ q \in Seq(Threads) /\ NoRepeats(q)
        /\ Members(q) = Members(r.prio_queue[p]) \ {tcb}
    BY <1>1, <1>2, <1>3, DequeueMembers
  <1>5. /\ s.prio_queue = [r.prio_queue EXCEPT ![p] = q]
        /\ s.prio_bitmap = IF q = <<>> THEN [r.prio_bitmap EXCEPT ![w0] = rest]
                                       ELSE r.prio_bitmap
        /\ s.index_bitmap = IF q = <<>> /\ rest = {} THEN r.index_bitmap \ {w0}
                                                      ELSE r.index_bitmap
        /\ s = [prio_queue |-> s.prio_queue, index_bitmap |-> s.index_bitmap,
                prio_bitmap |-> s.prio_bitmap]
    <2>1. CASE q = <<>>
      BY <1>1, <1>2, <2>1, Zenon DEF DequeueAt, RemoveSchedBitmapBit
    <2>2. CASE q # <<>>
      BY <1>1, <1>2, <2>2, Zenon DEF DequeueAt
    <2> QED
      BY <2>1, <2>2
  <1> HIDE DEF s, q, p, w0, b0
  <1>6. s \in PrioQueueType
    <2>1. s.prio_queue \in [Prio -> Seq(Threads)]
      BY <1>1, <1>2, <1>4, <1>5
    <2>2. s.index_bitmap \in SUBSET Bits
      BY <1>2, <1>5
    <2>3. s.prio_bitmap \in [Words -> SUBSET Bits]
      BY <1>1, <1>2, <1>5
    <2> QED
      BY <1>5, <2>1, <2>2, <2>3 DEF PrioQueueType
  <1>7. BitsExact(s)
    <2>1. SUFFICES ASSUME NEW w \in Words, NEW b \in Bits
                   PROVE  b \in s.prio_bitmap[w]
                            <=> /\ w * BITS_WORD + b \in Prio
                                /\ s.prio_queue[w * BITS_WORD + b] # <<>>
      BY DEF BitsExact
    <2>2. b \in r.prio_bitmap[w] <=> /\ w * BITS_WORD + b \in Prio
                                     /\ r.prio_queue[w * BITS_WORD + b] # <<>>
      BY DEF QueueInv, BitsExact
    <2>3. CASE w = w0 /\ b = b0
      <3>1. s.prio_queue[w * BITS_WORD + b] = q /\ w * BITS_WORD + b \in Prio
        BY <1>1, <1>2, <1>5, <2>3
      <3>2. r.prio_queue[w * BITS_WORD + b] # <<>>
        BY <1>1, <1>2, <1>3, <2>3, EmptyMembers
      <3>3. b \in s.prio_bitmap[w] <=> q # <<>>
        BY <1>1, <1>2, <1>5, <2>2, <2>3, <3>1, <3>2
      <3> QED
        BY <3>1, <3>3
    <2>4. CASE ~(w = w0 /\ b = b0)
      <3>1. w * BITS_WORD + b # p
        BY <1>1, <2>4
      <3>2. b \in s.prio_bitmap[w] <=> b \in r.prio_bitmap[w]
        BY <1>1, <1>2, <1>5, <2>4
      <3>3. w * BITS_WORD + b \in Prio =>
               s.prio_queue[w * BITS_WORD + b] = r.prio_queue[w * BITS_WORD + b]
        BY <1>2, <1>5, <3>1
      <3> QED
        BY <2>2, <3>2, <3>3
    <2> QED
      BY <2>3, <2>4
  <1>8. IndexExact(s)
    <2>1. /\ r.index_bitmap \subseteq Words
          /\ \A w \in Words : w \in r.index_bitmap <=> r.prio_bitmap[w] # {}
      BY DEF QueueInv, IndexExact
    <2>2. b0 \in r.prio_bitmap[w0]
      BY <1>1, <1>2, <1>3, EmptyMembers DEF QueueInv, BitsExact
    <2>3. ASSUME NEW w \in Words PROVE w \in s.index_bitmap <=> s.prio_bitmap[w] # {}
      BY <1>1, <1>2, <1>5, <2>1, <2>2
    <2> QED
      BY <1>5, <2>1, <2>3 DEF IndexExact
  <1>9. ASSUME NEW x \in Prio
        PROVE  /\ NoRepeats(s.prio_queue[x])
               /\ \A u \in Members(s.prio_queue[x]) : eff[u] = x /\ u # tcb
    <2>1. /\ NoRepeats(r.prio_queue[x])
          /\ \A u \in Members(r.prio_queue[x]) : eff[u] = x
      BY DEF QueueInv, LinkedAtEff
    <2>2. CASE x = p
      BY <1>1, <1>2, <1>4, <1>5, <2>1, <2>2
    <2>3. CASE x # p
      BY <1>1, <1>2, <1>5, <2>1, <2>3 DEF p
    <2> QED
      BY <2>2, <2>3
  <1> QED
    BY <1>5, <1>6, <1>7, <1>8, <1>9 DEF QueueInv, LinkedAtEff, IsQueued, s, q, p

-----------------------------------------------------------------------------
(* The lookup of the highest priority                                      *)

\* A word that is not zero has a highest set bit.
LEMMA MsbIsMaximum ==
    ASSUME NEW n \in Nat, NEW word \in SUBSET (0 .. n), word # {}
    PROVE  Msb(word) \in word /\ \A c \in word : c <= Msb(word)
  <1> DEFINE T == {m \in 0 .. n : n - m \in word}
  <1>1. T \subseteq Nat /\ T # {}
    <2>1. PICK c \in word : TRUE
      BY Zenon
    <2>2. n - c \in T
      BY <2>1
    <2> QED
      BY <2>2
  <1>2. PICK x \in T : \A y \in T : ~(<<y, x>> \in OpToRel(<, Nat))
    <2> HIDE DEF T
    <2> QED
      BY <1>1, NatLessThanWellFounded, WFMin, Zenon
  <1>3. ASSUME NEW y \in T PROVE x <= y
    <2>1. x \in Nat /\ y \in Nat
      BY <1>1
    <2>2. y < x => <<y, x>> \in OpToRel(<, Nat)
      BY <2>1 DEF OpToRel
    <2>3. ~(y < x)
      BY <1>2, <2>2, Zenon
    <2> QED
      BY <2>1, <2>3
  <1>4. ASSUME NEW c \in word PROVE c <= n - x
    <2>1. n - c \in T
      OBVIOUS
    <2>2. x <= n - c
      BY <1>3, <2>1
    <2> QED
      BY <1>1, <2>2
  <1>5. \E b \in word : \A c \in word : c <= b
    BY <1>1, <1>4
  <1> QED
    BY <1>5, Zenon DEF Msb

\* The two msb() lookups of get_highest_priority() find the highest priority
\* of a ready thread, and report -1 exactly when no thread is ready.
LEMMA LookupFindsHighest ==
    ASSUME NEW r, NEW eff, QueueInv(r, eff)
    PROVE  LET p == GetHighestPriority(r)
           IN IF \E x \in Prio : r.prio_queue[x] # <<>> THEN IsHighestReady(r, p) ELSE p = -1
  <1> DEFINE n == BITS_WORD
             w0 == Msb(r.index_bitmap)
             b0 == Msb(r.prio_bitmap[w0])
  <1>1. n \in Nat \ {0} /\ Bits = 0 .. (n - 1) /\ (n - 1) \in Nat
    BY BitsWordAssumption DEF Bits
  <1>2. /\ r.index_bitmap \in SUBSET Bits /\ r.index_bitmap \subseteq Words
        /\ r.prio_bitmap \in [Words -> SUBSET Bits]
        /\ \A w \in Words : w \in r.index_bitmap <=> r.prio_bitmap[w] # {}
        /\ \A w \in Words, b \in Bits :
              b \in r.prio_bitmap[w] <=> /\ w * n + b \in Prio
                                         /\ r.prio_queue[w * n + b] # <<>>
    BY DEF QueueInv, PrioQueueType, IndexExact, BitsExact
  <1>3. ASSUME NEW x \in Prio, r.prio_queue[x] # <<>>
        PROVE  /\ x \div n \in r.index_bitmap
               /\ x % n \in r.prio_bitmap[x \div n]
    BY <1>2, <1>3, PrioHasItsBit
  <1>4. CASE r.index_bitmap = {}
    BY <1>3, <1>4 DEF GetHighestPriority
  <1>5. CASE r.index_bitmap # {}
    <2>1. w0 \in r.index_bitmap /\ \A c \in r.index_bitmap : c <= w0
      BY <1>1, <1>2, <1>5, MsbIsMaximum, Zenon
    <2> HIDE DEF w0
    <2>2. w0 \in Words /\ r.prio_bitmap[w0] # {} /\ r.prio_bitmap[w0] \in SUBSET Bits
      BY <1>2, <2>1
    <2>3. b0 \in r.prio_bitmap[w0] /\ \A c \in r.prio_bitmap[w0] : c <= b0
      BY <1>1, <2>2, MsbIsMaximum, Zenon
    <2> HIDE DEF b0
    <2>4. w0 * n + b0 \in Prio /\ r.prio_queue[w0 * n + b0] # <<>>
      BY <1>2, <2>2, <2>3
    <2>5. ASSUME NEW x \in Prio, r.prio_queue[x] # <<>> PROVE x <= w0 * n + b0
      <3> DEFINE v == x \div n
                 c == x % n
      <3>1. /\ v \in Words /\ c \in Bits /\ x = v * n + c
            /\ v <= w0 /\ (v = w0 => c <= b0)
        BY <1>3, <2>1, <2>3, <2>5, PrioHasItsBit
      <3>2. /\ v \in Nat /\ w0 \in Nat /\ c \in Nat /\ b0 \in Nat
            /\ c < n /\ n \in Nat
        <4>1. BITMAP_WORDS \in Int
          BY MaxPrioAssumption, BitsWordAssumption DEF BITMAP_WORDS
        <4>2. v \in Nat /\ w0 \in Nat
          BY <2>2, <3>1, <4>1 DEF Words
        <4>3. b0 \in Bits /\ c \in Bits
          BY <2>2, <2>3, <3>1
        <4> HIDE DEF v, c
        <4> QED
          BY <1>1, <4>2, <4>3
      <3> HIDE DEF v, c
      <3>3. CASE v = w0
        BY <3>1, <3>2, <3>3
      <3>4. CASE v + 1 <= w0
        <4>1. (v + 1) * n <= w0 * n /\ (v + 1) * n = v * n + n
          BY <3>2, <3>4, TimesMonotone
        <4> QED
          BY <3>1, <3>2, <4>1
      <3> QED
        BY <3>1, <3>2, <3>3, <3>4
    <2>6. GetHighestPriority(r) = w0 * n + b0
      BY <1>5 DEF GetHighestPriority, w0, b0
    <2> QED
      BY <2>4, <2>5, <2>6 DEF IsHighestReady
  <1> QED
    BY <1>4, <1>5

-----------------------------------------------------------------------------
(* The theorems                                                            *)

\* The inductive invariant: the types and QueueInv.
Inv == TypeOK /\ QueueInv(rq, effective_prio)

\* The zeroed queue satisfies the invariant.
LEMMA InitInv == Init => Inv
  <1> SUFFICES ASSUME Init PROVE Inv
    OBVIOUS
  <1>1. /\ rq.prio_queue = [p \in Prio |-> <<>>]
        /\ rq.index_bitmap = {}
        /\ rq.prio_bitmap = [w \in Words |-> {}]
        /\ rq = [prio_queue |-> rq.prio_queue, index_bitmap |-> rq.index_bitmap,
                 prio_bitmap |-> rq.prio_bitmap]
    BY DEF Init, EmptyQueue
  <1>2. rq \in PrioQueueType
    <2>1. rq.prio_queue \in [Prio -> Seq(Threads)]
      BY <1>1
    <2>2. rq.index_bitmap \in SUBSET Bits /\ rq.prio_bitmap \in [Words -> SUBSET Bits]
      BY <1>1
    <2> QED
      BY <1>1, <2>1, <2>2, Zenon DEF PrioQueueType
  <1>3. BitsExact(rq) /\ IndexExact(rq)
    BY <1>1 DEF BitsExact, IndexExact
  <1>4. LinkedAtEff(rq, effective_prio)
    BY <1>1 DEF LinkedAtEff, Members, NoRepeats
  <1> QED
    BY <1>2, <1>3, <1>4 DEF Inv, QueueInv, TypeOK, Init

\* A thread that is on no list may change its effective priority.
LEMMA UnqueuedMayChange ==
    ASSUME NEW r, NEW eff \in [Threads -> Prio], NEW tcb \in Threads, NEW p \in Prio,
           QueueInv(r, eff), ~IsQueued(r, tcb)
    PROVE  QueueInv(r, [eff EXCEPT ![tcb] = p])
  BY DEF QueueInv, LinkedAtEff, IsQueued, PrioQueueType, Members

\* set_effective_priority() keeps the invariant, for queued threads and others.
LEMMA ChangeEffectiveKeepsInv ==
    ASSUME Inv, NEW tcb \in Threads, NEW p \in Prio, ChangeEffective(tcb, p)
    PROVE  /\ effective_prio' \in [Threads -> Prio]
           /\ QueueInv(rq', effective_prio')
           /\ rq'.prio_queue =
                IF IsQueued(rq, tcb)
                THEN [[rq.prio_queue EXCEPT ![effective_prio[tcb]] = DequeueList(@, tcb)]
                         EXCEPT ![p] = EnqueueListTail(@, tcb)]
                ELSE rq.prio_queue
  <1> DEFINE eff2 == [effective_prio EXCEPT ![tcb] = p]
             mid == DequeueAt(rq, tcb, effective_prio[tcb])
  <1>1. effective_prio \in [Threads -> Prio] /\ QueueInv(rq, effective_prio)
    BY DEF Inv, TypeOK
  <1>2. eff2 \in [Threads -> Prio] /\ effective_prio' = eff2 /\ eff2[tcb] = p
    BY <1>1 DEF ChangeEffective
  <1>3. CASE ~IsQueued(rq, tcb)
    <2>1. QueueInv(rq, eff2)
      BY <1>1, <1>3, UnqueuedMayChange, Zenon
    <2>2. rq' = rq
      BY <1>3 DEF ChangeEffective
    <2> HIDE DEF eff2
    <2> QED
      BY <1>2, <1>3, <2>1, <2>2
  <1>4. CASE IsQueued(rq, tcb)
    <2>1. rq' = EnqueueAt(mid, tcb, eff2[tcb])
      BY <1>2, <1>4 DEF ChangeEffective
    <2>2. /\ QueueInv(mid, effective_prio) /\ ~IsQueued(mid, tcb)
          /\ mid.prio_queue = [rq.prio_queue EXCEPT ![effective_prio[tcb]] = DequeueList(@, tcb)]
      BY <1>1, <1>4, DequeueKeepsInv
    <2> HIDE DEF mid, eff2
    <2>3. QueueInv(mid, eff2)
      BY <1>1, <2>2, UnqueuedMayChange, Zenon DEF eff2
    <2>4. /\ QueueInv(rq', eff2)
          /\ rq'.prio_queue = [mid.prio_queue EXCEPT ![eff2[tcb]] = EnqueueListTail(@, tcb)]
      BY <1>2, <2>1, <2>2, <2>3, EnqueueKeepsInv
    <2> QED
      BY <1>2, <1>4, <2>2, <2>4
  <1> QED
    BY <1>3, <1>4

\* The head of the highest list is the thread that PickNext dequeues, from the
\* list of its effective priority.
LEMMA HeadIsQueued ==
    ASSUME Inv, NEW p \in Prio, rq.prio_queue[p] # <<>>
    PROVE  LET h == Head(rq.prio_queue[p])
           IN h \in Threads /\ effective_prio[h] = p /\ IsQueued(rq, h)
  <1>1. rq.prio_queue[p] \in Seq(Threads)
    BY DEF Inv, TypeOK, PrioQueueType
  <1>2. Head(rq.prio_queue[p]) \in Members(rq.prio_queue[p])
    BY <1>1 DEF Members
  <1> QED
    BY <1>1, <1>2 DEF Inv, QueueInv, LinkedAtEff, IsQueued

\* Every operation keeps the invariant.
LEMMA NextInv == Inv /\ [Next]_vars => Inv'
  <1> SUFFICES ASSUME Inv, [Next]_vars PROVE Inv'
    OBVIOUS
  <1>1. /\ effective_prio \in [Threads -> Prio] /\ QueueInv(rq, effective_prio)
        /\ next \in Threads \cup {idle}
    BY DEF Inv, TypeOK
  <1>2. SUFFICES /\ effective_prio' \in [Threads -> Prio]
                 /\ QueueInv(rq', effective_prio')
                 /\ next' \in Threads \cup {idle}
    BY DEF Inv, TypeOK, QueueInv
  <1>3. CASE UNCHANGED vars
    BY <1>1, <1>3 DEF vars
  <1>4. ASSUME NEW tcb \in Threads, Enqueue(tcb) PROVE <1>2!1
    BY <1>1, <1>4, EnqueueKeepsInv, Zenon DEF Enqueue
  <1>5. ASSUME NEW tcb \in Threads, Dequeue(tcb) PROVE <1>2!1
    BY <1>1, <1>5, DequeueKeepsInv, Zenon DEF Dequeue
  <1>6. ASSUME NEW tcb \in Threads, NEW prio \in Prio, SetEffectivePriority(tcb, prio)
        PROVE  <1>2!1
    BY <1>1, <1>6, ChangeEffectiveKeepsInv, Zenon DEF SetEffectivePriority
  <1>7. ASSUME NEW tcb \in Threads, NEW prio \in Prio, NEW inherited \in Prio,
               SetBasePriority(tcb, prio, inherited)
        PROVE  <1>2!1
    <2> DEFINE e == IF inherited > prio THEN inherited ELSE prio
    <2>1. e \in Prio /\ next' = next
      BY <1>7 DEF SetBasePriority
    <2>2. ChangeEffective(tcb, e) \/ UNCHANGED <<rq, effective_prio>>
      BY <1>7 DEF SetBasePriority
    <2> HIDE DEF e
    <2> QED
      BY <1>1, <2>1, <2>2, ChangeEffectiveKeepsInv, Zenon
  <1>8. CASE PickNext
    <2> DEFINE p == GetHighestPriority(rq)
    <2>1. CASE p >= 0
      <3>1. IsHighestReady(rq, p)
        BY <1>1, <2>1, LookupFindsHighest
      <3>2. next' \in Threads /\ IsQueued(rq, next')
        BY <1>8, <2>1, <3>1, HeadIsQueued DEF PickNext, IsHighestReady
      <3>3. /\ rq' = DequeueAt(rq, next', effective_prio[next'])
            /\ effective_prio' = effective_prio
        BY <1>8, <2>1 DEF PickNext
      <3>4. QueueInv(DequeueAt(rq, next', effective_prio[next']), effective_prio)
        BY <1>1, <3>2, DequeueKeepsInv, Zenon
      <3> QED
        BY <1>1, <3>2, <3>3, <3>4
    <2>2. CASE ~(p >= 0)
      BY <1>1, <1>8, <2>2 DEF PickNext
    <2> QED
      BY <2>1, <2>2
  <1> QED
    BY <1>3, <1>4, <1>5, <1>6, <1>7, <1>8 DEF Next

\* Every reachable state satisfies the inductive invariant.
THEOREM InvAlways == Spec => []Inv
  BY InitInv, NextInv, PTL DEF Spec

\* The fields of the ready queue keep their types for every word size and
\* number of priorities (index_bitmap never needs a bit it does not have).
THEOREM TypeCorrect == Spec => []TypeOK
  <1>1. Inv => TypeOK
    BY DEF Inv
  <1> QED
    BY <1>1, InvAlways, PTL

\* The bitmaps of prioqueue.cc say exactly which lists hold a ready thread.
THEOREM BitmapsAlwaysExact == Spec => []BitmapsExact
  <1>1. Inv => BitmapsExact
    BY DEF Inv, QueueInv, BitmapsExact
  <1> QED
    BY <1>1, InvAlways, PTL

\* A ready thread is linked once, in the list of its effective priority, where
\* prio_queue_t::dequeue() will look for it.
THEOREM AlwaysQueuedAtEffectivePriority == Spec => []QueuedAtEffectivePriority
  <1>1. Inv => QueuedAtEffectivePriority
    BY DEF Inv, QueueInv, QueuedAtEffectivePriority
  <1> QED
    BY <1>1, InvAlways, PTL

\* get_highest_priority() yields the highest priority of a ready thread.
THEOREM HighestAlwaysFound == Spec => []HighestIsFound
  <1>1. Inv => HighestIsFound
    BY LookupFindsHighest DEF Inv, HighestIsFound
  <1> QED
    BY <1>1, InvAlways, PTL

\* A step of the bitmap queue is a step of the abstract ready queue.
LEMMA StepRefines == Inv /\ [Next]_vars => [Ready!RQNext]_(Ready!rqVars)
  <1> SUFFICES ASSUME Inv, [Next]_vars PROVE Ready!RQNext \/ UNCHANGED Ready!rqVars
    OBVIOUS
  <1>0. \A q, e : /\ Ready!DequeueList(q, e) = DequeueList(q, e)
                 /\ Ready!EnqueueListTail(q, e) = EnqueueListTail(q, e)
                 /\ Ready!Members(q) = Members(q)
    BY DEF Ready!DequeueList, Ready!Unlink, Ready!IndexOf, Ready!EnqueueListTail, Ready!Members,
           DequeueList, Unlink, IndexOf, EnqueueListTail, Members
  <1>1. /\ effective_prio \in [Threads -> Prio] /\ QueueInv(rq, effective_prio)
        /\ Ready!ReadyPrio = Prio
        /\ \A tcb : Ready!Listed(tcb) <=> IsQueued(rq, tcb)
    BY <1>0 DEF Inv, TypeOK, Ready!Listed, IsQueued, Ready!ReadyPrio, Prio
  <1>2. CASE UNCHANGED vars
    BY <1>2 DEF vars, Ready!rqVars
  <1>3. ASSUME NEW tcb \in Threads, Enqueue(tcb) PROVE Ready!RQEnqueue(tcb)
    <2>1. rq'.prio_queue = [rq.prio_queue EXCEPT ![effective_prio[tcb]] = EnqueueListTail(@, tcb)]
      BY <1>1, <1>3, EnqueueKeepsInv DEF Enqueue
    <2> QED
      BY <1>0, <1>1, <1>3, <2>1 DEF Enqueue, Ready!RQEnqueue
  <1>4. ASSUME NEW tcb \in Threads, Dequeue(tcb) PROVE Ready!RQDequeue(tcb)
    <2>1. rq'.prio_queue = [rq.prio_queue EXCEPT ![effective_prio[tcb]] = DequeueList(@, tcb)]
      BY <1>1, <1>4, DequeueKeepsInv DEF Dequeue
    <2> QED
      BY <1>0, <1>1, <1>4, <2>1 DEF Dequeue, Ready!RQDequeue
  <1>5. ASSUME NEW tcb \in Threads, NEW prio \in Prio, ChangeEffective(tcb, prio), next' = next
        PROVE  Ready!RQSetEffectivePriority(tcb, prio)
    <2>1. effective_prio' = [effective_prio EXCEPT ![tcb] = prio]
      BY <1>5 DEF ChangeEffective
    <2>2. rq'.prio_queue =
             IF IsQueued(rq, tcb)
             THEN [[rq.prio_queue EXCEPT ![effective_prio[tcb]] = DequeueList(@, tcb)]
                      EXCEPT ![prio] = EnqueueListTail(@, tcb)]
             ELSE rq.prio_queue
      BY <1>5, ChangeEffectiveKeepsInv
    <2> QED
      BY <1>0, <1>1, <1>5, <2>1, <2>2 DEF Ready!RQSetEffectivePriority
  <1>6. ASSUME NEW tcb \in Threads, NEW prio \in Prio, NEW inherited \in Prio,
               SetBasePriority(tcb, prio, inherited)
        PROVE  Ready!RQNext \/ UNCHANGED Ready!rqVars
    <2> DEFINE e == IF inherited > prio THEN inherited ELSE prio
    <2>1. e \in Prio /\ next' = next
      BY <1>6 DEF SetBasePriority
    <2>2. ChangeEffective(tcb, e) \/ UNCHANGED <<rq, effective_prio>>
      BY <1>6 DEF SetBasePriority
    <2> HIDE DEF e
    <2> QED
      BY <1>1, <1>5, <2>1, <2>2 DEF Ready!RQNext, Ready!rqVars
  <1>7. ASSUME PickNext PROVE Ready!RQPick
    <2> DEFINE p == GetHighestPriority(rq)
    <2>1. CASE p >= 0
      <3>1. IsHighestReady(rq, p)
        BY <1>1, <2>1, LookupFindsHighest
      <3>2. /\ next' = Head(rq.prio_queue[p])
            /\ rq' = DequeueAt(rq, next', effective_prio[next'])
            /\ effective_prio' = effective_prio
        BY <1>7, <2>1 DEF PickNext
      <3> HIDE DEF p
      <3>3. next' \in Threads /\ IsQueued(rq, next') /\ effective_prio[next'] = p
        BY <3>1, <3>2, HeadIsQueued DEF IsHighestReady
      <3>4. rq'.prio_queue = [rq.prio_queue EXCEPT ![p] = DequeueList(@, next')]
        BY <1>1, <3>2, <3>3, DequeueKeepsInv
      <3>5. p \in Ready!ReadyPrio /\ Ready!IsHighest(p)
        BY <1>1, <3>1 DEF IsHighestReady, Ready!IsHighest
      <3> QED
        BY <1>0, <3>2, <3>4, <3>5 DEF Ready!RQPick
    <2>2. CASE ~(p >= 0)
      <3>1. \A x \in Prio : rq.prio_queue[x] = <<>>
        <4>1. SUFFICES ASSUME \E x \in Prio : rq.prio_queue[x] # <<>> PROVE FALSE
          OBVIOUS
        <4>2. p \in Prio
          BY <1>1, <4>1, LookupFindsHighest DEF IsHighestReady
        <4> QED
          BY <2>2, <4>2, MaxPrioAssumption DEF Prio
      <3> QED
        BY <1>1, <1>7, <2>2, <3>1 DEF PickNext, Ready!RQPick
    <2> QED
      BY <2>1, <2>2
  <1> QED
    BY <1>1, <1>2, <1>3, <1>4, <1>5, <1>6, <1>7
    DEF Next, SetEffectivePriority, Ready!RQNext

\* The bitmap queue implements the scheduler's ready queue: schedule() takes
\* the thread that has waited longest at the highest priority.
THEOREM RefinesReadyQueue == Spec => ImplementsReadyQueue
  <1>1. Init => Ready!RQInit
    BY DEF Init, EmptyQueue, Ready!RQInit, Ready!ReadyPrio, Prio
  <1> QED
    BY <1>1, StepRefines, InvAlways, PTL DEF Spec, ImplementsReadyQueue, Ready!RQSpec
=============================================================================
