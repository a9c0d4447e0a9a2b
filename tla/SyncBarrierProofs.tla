------------------------- MODULE SyncBarrierProofs --------------------------
(***************************************************************************)
(* The barrier of NanoSync keeps what SyncObjectProofs says of the objects *)
(* (Obeyed), and so do an interrupt and the first state; and there are     *)
(* never as many kept signals as threads (Bounded).  NanoSyncProofs shows  *)
(* that the kernel serves the calls (Serves) and draws the conclusions.    *)
(***************************************************************************)
EXTENDS SyncObjectProofs

-----------------------------------------------------------------------------
(* The barrier                                                             *)

\* The workers are finitely many; the sets of the barrier are sets of workers.
LEMMA WorkersFinite ==
    /\ IsFiniteSet(Workers) /\ expected \in Nat /\ expected >= 2
    /\ \A A \in SUBSET Workers : IsFiniteSet(A) /\ Cardinality(A) \in Nat /\ Cardinality(A) <= expected
    /\ \A A \in SUBSET Workers : Cardinality(A) = expected => A = Workers
    /\ \A A \in SUBSET Workers : Cardinality(A) = 0 <=> A = {}
  <1>1. IsFiniteSet(Workers)
    <2>1. Workers \subseteq Tcbs /\ IsFiniteSet(Tcbs)
      BY SyncAssumption, ImageAssumption, Zenon
    <2> QED
      BY <2>1, FS_Subset, Zenon
  <1>2. expected \in Nat /\ expected >= 2
    BY SyncAssumption DEF expected
  <1>3. ASSUME NEW A \in SUBSET Workers
        PROVE  /\ IsFiniteSet(A) /\ Cardinality(A) \in Nat /\ Cardinality(A) <= expected
               /\ Cardinality(A) = expected => A = Workers
               /\ Cardinality(A) = 0 <=> A = {}
    <2>1. IsFiniteSet(A) /\ Cardinality(A) <= Cardinality(Workers)
          /\ (Cardinality(A) = Cardinality(Workers) => A = Workers)
      BY <1>1, FS_Subset, Zenon
    <2>2. Cardinality(A) \in Nat /\ (Cardinality(A) = 0 <=> A = {})
      BY <2>1, FS_CardinalityType, FS_EmptySet, Zenon
    <2> QED
      BY <2>1, <2>2, Zenon DEF expected
  <1> QED
    BY <1>1, <1>2, <1>3, Zenon

\* One more or one less.
LEMMA OneMore ==
    ASSUME NEW A \in SUBSET Workers, NEW c \in Workers
    PROVE  /\ c \notin A => Cardinality(A \cup {c}) = Cardinality(A) + 1
           /\ c \in A => Cardinality(A \ {c}) = Cardinality(A) - 1
           /\ c \notin A => Cardinality(A) < expected /\ Cardinality(A) # expected /\ A # Workers
  <1>1. IsFiniteSet(A)
    BY WorkersFinite, Zenon
  <1>2. /\ c \notin A => Cardinality(A \cup {c}) = Cardinality(A) + 1
        /\ c \in A => Cardinality(A \ {c}) = Cardinality(A) - 1
    BY <1>1, FS_AddElement, FS_RemoveElement, Zenon
  <1>3. c \notin A => A # Workers
    BY Zenon
  <1>4. Cardinality(A) \in Nat /\ Cardinality(A) <= expected /\ expected \in Nat
        /\ (Cardinality(A) = expected => A = Workers)
    BY WorkersFinite, Zenon
  <1> QED
    BY <1>2, <1>3, <1>4

\* What the stages look like from outside.
Seen ==
    /\ Gathering => Arrived = Now /\ Leaving = Old
    /\ Handing => Arrived = Now /\ Leaving = Old
    /\ \A b \in Inside : /\ Passing(b) => Arrived = Now /\ Leaving = Old
                         /\ Opening(b) => Arrived = {} /\ Leaving = Workers
                         /\ Releasing(b) => Arrived = {} /\ Leaving = Workers

\* It opens for all at once.
LEMMA Views == Library => Seen
  <1> SUFFICES ASSUME Library PROVE Seen
    BY Zenon
  <1>1. /\ mem.version \in {0, 1} /\ Now \subseteq Workers /\ Old \subseteq Workers /\ Inside \subseteq Workers
        /\ Now \cap Old = {}
    BY Zenon DEF Library, Typed, Memories, Now, Old, Inside
  <1>2. ASSUME mem.count # expected, \A u \in Workers : pc[u] # <<"barrier", "flip">>
        PROVE  Arrived = Now /\ Leaving = Old
    BY <1>2, Zenon DEF Arrived, Leaving, Now, Old, Inside, Opened
  <1>3. \A u \in Workers : pc[u] = <<"barrier", "flip">> => u \in Inside /\ ~Waiting(u)
    BY DEF Inside, InBarrier, Waiting
  <1>4. ASSUME NEW b \in Old PROVE Cardinality(Now) # expected
    <2>1. Now \in SUBSET Workers /\ b \in Workers /\ b \notin Now
      BY <1>1, Zenon
    <2> QED
      BY <2>1, OneMore, Zenon
  <1>5. ASSUME Gathering PROVE Arrived = Now /\ Leaving = Old
    <2>1. mem.count \in Int /\ expected \in Int
      BY SyncAssumption DEF Library, Typed, Memories, expected
    <2>2. mem.count # expected
      BY <1>5, <2>1 DEF Gathering
    <2> QED
      BY <1>2, <1>3, <1>5, <2>2, Zenon DEF Gathering
  <1>6. ASSUME Handing PROVE Arrived = Now /\ Leaving = Old
    <2>1. PICK b \in Old : TRUE
      BY <1>6, Zenon DEF Handing
    <2>2. mem.count # expected
      BY <1>6, <1>4, <2>1, Zenon DEF Handing
    <2> QED
      BY <1>2, <1>3, <1>6, <2>2, Zenon DEF Handing
  <1>7. ASSUME NEW b \in Inside, Passing(b)
        PROVE  Arrived = Now /\ Leaving = Old
    <2>1. mem.count # expected
      BY <1>7, <1>4, Zenon DEF Passing
    <2> QED
      BY <1>2, <1>3, <1>7, <2>1 DEF Passing, OthersWait
  <1>8. ASSUME NEW b \in Inside, Opening(b)
        PROVE  Arrived = {} /\ Leaving = Workers
    <2>1. Workers \subseteq Inside
      BY <1>8, Zenon DEF Opening, Now
    <2>2. \A t \in Workers : Opened(t)
      BY <1>1, <1>8, Zenon DEF Opening, Opened
    <2> QED
      BY <2>1, <2>2, Zenon DEF Arrived, Leaving, Inside
  <1>9. ASSUME NEW b \in Inside, Releasing(b)
        PROVE  Arrived = {} /\ Leaving = Workers
    <2>1. \A t \in Workers : Opened(t) /\ t \in Inside
      BY <1>1, <1>9, Zenon DEF Releasing, Opened, Old
    <2> QED
      BY <2>1, Zenon DEF Arrived, Leaving, Inside
  <1> QED
    BY <1>5, <1>6, <1>7, <1>8, <1>9, Zenon DEF Seen

\* And behind a step.
LEMMA ViewsNext == Library' => Seen'
  BY Views, PTL

OfBarrier(p) == p \in Points /\ (p[1] = "barrier" \/ p = <<"start", "mutex">>)

\* The fields of the other objects.
BarrierMemory ==
    /\ mem'.lock = mem.lock /\ mem'.owner = mem.owner /\ mem'.nested = mem.nested
    /\ mem'.sem = mem.sem

\* A step of the barrier is outside the other objects.
LEMMA BarrierPart ==
    ASSUME NEW c, Ran(c), NEW p, NEW q, Moves(c, p, q), OfBarrier(p), OfBarrier(q),
           NEW v \in {0, 1}, Quiet \/ Waited(barrier_tag[v]) \/ Signalled(barrier_tag[v]),
           sleep'[c] = NULL \/ (q = <<"barrier", "woken">> /\ val'[c] = v),
           q[2] = "str" => current' = c /\ reg'[c] = mem'.count,
           BarrierMemory, Typed' /\ EachThread' => Meets', Library' => BarrierObeys
    PROVE  Obeyed
  <1>1. /\ kept' \in [UsedTags -> Nat] /\ Woken(c) /\ sleep'[c] \in {NULL, barrier_tag[v]}
        /\ Untouched(lock_tag) /\ Untouched(sem_tag)
    <2>1. barrier_tag[v] \in UsedTags /\ lock_tag \in UsedTags \ {barrier_tag[v]} /\ sem_tag \in UsedTags \ {barrier_tag[v]}
      BY Addresses, Zenon
    <2> QED
      BY <2>1, CallTouches, Zenon
  <1>2. Asleep(c)'
    BY <1>1, Zenon DEF Asleep, Moves
  <1>3. /\ OutsideLock(p) /\ OutsideLock(q) /\ OutsideSem(p) /\ OutsideSem(q)
        /\ q \notin {<<"try_down", "ldr">>, <<"try_down", "str">>}
    BY DEF OfBarrier, OutsideLock, OutsideSem
  <1>4. q[2] = "str" => current' = c /\ reg'[c] = mem'[Field(q[1])]
    <2>1. q[2] = "str" => Field(q[1]) = "count"
      BY DEF OfBarrier, Field, Points
    <2> QED
      BY <2>1, Zenon
  <1>5. Typed' /\ EachThread'
    BY <1>1, <1>2, <1>3, <1>4, ThreadsMove, Zenon
  <1>6. LockObeys /\ Counted'
    BY <1>1, <1>3, LockAside, Zenon DEF BarrierMemory
  <1>7. SemObeys
    BY <1>1, <1>3, SemAside, Zenon DEF BarrierMemory
  <1> QED
    BY <1>5, <1>6, <1>7, Zenon DEF Obeyed, Library

\* The thread that neither waits nor is about to is the one the stage is about.
LEMMA Alone ==
    ASSUME NEW c, Ran(c), InBarrier(c), ~Waiting(c)
    PROVE  c \in Inside /\ val[c] \in {0, 1} /\ (Opening(c) \/ Releasing(c) \/ Passing(c))
  <1>1. c \in Inside /\ Meets
    BY Zenon DEF Inside, Ran, Library
  <1>2. ~Gathering /\ ~Handing /\ \A b \in Inside : OthersWait(b) => b = c
    BY <1>1, Zenon DEF Gathering, Handing, OthersWait
  <1>3. \A b \in Inside : Opening(b) \/ Releasing(b) \/ Passing(b) => OthersWait(b)
    BY Zenon DEF Opening, Releasing, Passing
  <1> QED
    BY <1>1, <1>2, <1>3, Zenon DEF Meets

\* The caller moves on inside the barrier.
LEMMA MovesInside ==
    ASSUME NEW c, Ran(c), NEW p, NEW q, Moves(c, p, q), InBarrier(c), InBarrier(c)', val' = val,
           mem'.version = mem.version
    PROVE  Inside' = Inside /\ Now' = Now /\ Old' = Old
  <1>1. \A t \in Workers : InBarrier(t)' <=> InBarrier(t)
    BY Zenon DEF Moves, InBarrier
  <1>2. Inside' = Inside
    BY <1>1, Zenon DEF Inside
  <1> QED
    BY <1>2, Zenon DEF Now, Old

\* The others wait as they did.
LEMMA OthersStay ==
    ASSUME NEW c, Ran(c), NEW p, NEW q, Moves(c, p, q), Quiet
    PROVE  /\ \A t \in Workers \ {c} : (InBarrier(t)' <=> InBarrier(t)) /\ (Waiting(t)' <=> Waiting(t))
           /\ NoneKept' <=> NoneKept
  BY Zenon DEF Moves, InBarrier, Waiting, Quiet, NoneKept

\* In that case the barrier is what it was for those outside.
LEMMA StaysObeyed ==
    ASSUME NEW c, Ran(c), NEW p, NEW q, Moves(c, p, q), OfBarrier(p), OfBarrier(q), q[2] # "str", Quiet,
           BarrierMemory, c \in Inside, c \in Inside',
           \/ (Opening(c) \/ Releasing(c)) /\ (Opening(c) \/ Releasing(c))'
           \/ Passing(c) /\ Passing(c)' /\ Now' = Now /\ Old' = Old,
           Typed' => Meets'
    PROVE  Obeyed
  <1>1. Seen /\ (Library' => Seen')
    BY Views, ViewsNext, Zenon DEF Ran
  <1>2. Library' => BarrierObeys
    BY <1>1, Zenon DEF Seen, BarrierObeys
  <1>3. sleep'[c] = NULL
    BY CallReturns, Addresses, Zenon
  <1> QED
    BY <1>2, <1>3, BarrierPart, Zenon

\* The versions that the threads have read, when the caller alone has moved.
LEMMA VersionsStay ==
    ASSUME NEW c, Ran(c), NEW p, NEW q, Moves(c, p, q), val' = val, mem'.version = mem.version,
           q \notin {<<"barrier", "ldr">>, <<"barrier", "str">>}, Inside' \subseteq Inside,
           \/ Gathering' \/ Handing'
           \/ \E b \in Inside' : (Opening(b) \/ Releasing(b) \/ Passing(b))'
    PROVE  Meets'
  <1>1. Meets
    BY Zenon DEF Ran, Library
  <1>2. ASSUME NEW t \in Workers, pc'[t] \in {<<"barrier", "ldr">>, <<"barrier", "str">>}
        PROVE  val'[t] = mem'.version
    BY <1>1, <1>2, Zenon DEF Meets, Moves
  <1>3. \A t \in Inside' : val'[t] \in {0, 1}
    BY <1>1, Zenon DEF Meets
  <1> QED
    BY <1>2, <1>3, Zenon DEF Meets

\* The last thread resets the barrier.
LEMMA ResetObeys ==
    ASSUME NEW c, Ran(c), At("barrier", "reset"), Goto("barrier", "flip"), Memory("count", 0),
           UNCHANGED <<vars, reg, val>>
    PROVE  Obeyed
  <1> DEFINE p == <<"barrier", "reset">>  q == <<"barrier", "flip">>
  <1>1. /\ c \in Workers /\ c = current /\ Quiet /\ val' = val /\ pc[c] = p /\ mem \in Memories
        /\ mem' = [mem EXCEPT !.count = 0]
    BY QuietStep, Zenon DEF Ran, Library, Typed, At, vars, Memory
  <1>2. mem' \in Memories /\ BarrierMemory /\ mem'.count = 0 /\ mem'.version = mem.version
    BY <1>1 DEF Memories, BarrierMemory
  <1>3. Moves(c, p, q)
    BY <1>1, <1>2, Zenon DEF Goto, Moves, Points, Ran, Library, Typed
  <1>4. InBarrier(c) /\ InBarrier(c)' /\ ~Waiting(c) /\ OfBarrier(p) /\ OfBarrier(q)
    BY <1>1, <1>3 DEF InBarrier, Waiting, Moves, OfBarrier, Points
  <1>5. c \in Inside /\ Opening(c)
    BY <1>1, <1>4, Alone DEF Releasing, Passing
  <1>6. Inside' = Inside /\ Now' = Now /\ Old' = Old
    BY <1>1, <1>2, <1>3, <1>4, MovesInside, Zenon
  <1>7. Opening(c)'
    <2>1. \A t \in Inside \ {c} : Waiting(t)' <=> Waiting(t)
      BY <1>1, <1>3, OthersStay, Zenon DEF Inside
    <2>2. OthersWait(c)' /\ NoneKept'
      BY <1>1, <1>3, <1>5, <1>6, <2>1, OthersStay, Zenon DEF OthersWait, Opening
    <2> QED
      BY <1>2, <1>3, <1>5, <1>6, <2>2, Zenon DEF Opening, Moves
  <1>8. Meets'
    BY <1>1, <1>2, <1>3, <1>5, <1>6, <1>7, VersionsStay, Zenon
  <1> QED
    BY <1>1, <1>2, <1>3, <1>4, <1>5, <1>6, <1>7, <1>8, StaysObeyed, Zenon

\* It opens.
LEMMA FlipObeys ==
    ASSUME NEW c, Ran(c), At("barrier", "flip"), Goto("barrier", "waiters"),
           Memory("version", 1 - mem.version), UNCHANGED <<vars, reg, val>>
    PROVE  Obeyed
  <1> DEFINE p == <<"barrier", "flip">>  q == <<"barrier", "waiters">>
  <1>1. /\ c \in Workers /\ c = current /\ Quiet /\ val' = val /\ pc[c] = p /\ mem \in Memories
        /\ mem' = [mem EXCEPT !.version = 1 - mem.version]
    BY QuietStep, Zenon DEF Ran, Library, Typed, At, vars, Memory
  <1>2. /\ mem' \in Memories /\ BarrierMemory /\ mem'.count = mem.count /\ mem'.version = 1 - mem.version
        /\ mem.version \in {0, 1}
    BY <1>1 DEF Memories, BarrierMemory
  <1>3. Moves(c, p, q)
    BY <1>1, <1>2, Zenon DEF Goto, Moves, Points, Ran, Library, Typed
  <1>4. InBarrier(c) /\ InBarrier(c)' /\ ~Waiting(c) /\ OfBarrier(p) /\ OfBarrier(q)
    BY <1>1, <1>3 DEF InBarrier, Waiting, Moves, OfBarrier, Points
  <1>5. c \in Inside /\ Opening(c)
    BY <1>1, <1>4, Alone DEF Releasing, Passing
  <1>6. /\ \A t \in Workers : InBarrier(t) /\ val[t] = mem.version
        /\ \A t \in Workers : InBarrier(t)'
    <2>1. \A t \in Workers : InBarrier(t) /\ val[t] = mem.version
      BY <1>5, Zenon DEF Opening, Now, Inside
    <2> QED
      BY <1>1, <1>3, <1>4, <2>1, OthersStay, Zenon
  <1>7. Inside' = Workers /\ Old' = Workers /\ Inside = Workers
    BY <1>1, <1>2, <1>6 DEF Inside, Old
  <1>8. Releasing(c)'
    <2>1. \A t \in Workers \ {c} : Waiting(t)'
      BY <1>1, <1>3, <1>5, <1>7, OthersStay, Zenon DEF Opening, OthersWait
    <2>2. NoneKept'
      BY <1>1, <1>3, <1>5, OthersStay, Zenon DEF Opening
    <2> QED
      BY <1>1, <1>2, <1>3, <1>5, <1>7, <2>1, <2>2 DEF Opening, Releasing, OthersWait, Moves
  <1>9. Meets'
    <2>1. \A t \in Workers : pc'[t] \notin {<<"barrier", "ldr">>, <<"barrier", "str">>}
      BY <1>6 DEF InBarrier
    <2> QED
      BY <1>1, <1>2, <1>6, <1>7, <1>8, <2>1, Zenon DEF Meets
  <1> QED
    BY <1>1, <1>2, <1>3, <1>4, <1>5, <1>7, <1>8, <1>9, StaysObeyed, Zenon

\* The thread that opens the barrier counts those it has to wake.
LEMMA WaitersObeys ==
    ASSUME NEW c, Ran(c), At("barrier", "waiters"), Goto("barrier", "release"),
           Memory("waiters", expected - 1), UNCHANGED <<vars, reg, val>>
    PROVE  Obeyed
  <1> DEFINE p == <<"barrier", "waiters">>  q == <<"barrier", "release">>
  <1>1. /\ c \in Workers /\ c = current /\ Quiet /\ val' = val /\ pc[c] = p /\ mem \in Memories
        /\ mem' = [mem EXCEPT !.waiters = expected - 1]
    BY QuietStep, Zenon DEF Ran, Library, Typed, At, vars, Memory
  <1>2. /\ mem' \in Memories /\ BarrierMemory /\ mem'.count = mem.count
        /\ mem'.version = mem.version /\ mem'.waiters = expected - 1
    <2>1. expected - 1 \in Int
      BY SyncAssumption DEF expected
    <2> QED
      BY <1>1, <2>1, Zenon DEF Memories, BarrierMemory
  <1>3. Moves(c, p, q)
    BY <1>1, <1>2, Zenon DEF Goto, Moves, Points, Ran, Library, Typed
  <1>4. InBarrier(c) /\ InBarrier(c)' /\ ~Waiting(c) /\ OfBarrier(p) /\ OfBarrier(q)
    BY <1>1, <1>3 DEF InBarrier, Waiting, Moves, OfBarrier, Points
  <1>5. c \in Inside /\ Releasing(c)
    BY <1>1, <1>4, Alone DEF Opening, Passing
  <1>6. Inside' = Inside /\ Now' = Now /\ Old' = Old
    BY <1>1, <1>2, <1>3, <1>4, MovesInside, Zenon
  <1>7. Releasing(c)'
    <2>1. \A t \in Inside \ {c} : Waiting(t)' <=> Waiting(t)
      BY <1>1, <1>3, OthersStay, Zenon DEF Inside
    <2>2. OthersWait(c)' /\ NoneKept'
      BY <1>1, <1>3, <1>5, <1>6, <2>1, OthersStay, Zenon DEF OthersWait, Releasing
    <2> QED
      BY <1>2, <1>3, <1>5, <1>6, <2>2, Zenon DEF Releasing, Moves
  <1>8. Meets'
    BY <1>1, <1>2, <1>3, <1>5, <1>6, <1>7, VersionsStay, Zenon
  <1> QED
    BY <1>1, <1>2, <1>3, <1>4, <1>5, <1>6, <1>7, <1>8, StaysObeyed, Zenon

\* A thread that has been woken is one less to wake: the two halves of waiters--.
LEMMA DecrementObeys ==
    ASSUME NEW c, Ran(c),
           \/ /\ At("barrier", "woken") /\ Goto("barrier", "decrement")
              /\ reg' = Local(reg, mem.waiters) /\ UNCHANGED <<vars, val, mem>>
           \/ /\ At("barrier", "decrement") /\ Goto("barrier", "pass")
              /\ Memory("waiters", reg[current] - 1) /\ UNCHANGED <<vars, reg, val>>
    PROVE  Obeyed
  <1>1. /\ c \in Workers /\ c = current /\ Quiet /\ val' = val /\ mem \in Memories /\ reg \in [Workers -> Int]
        /\ mem.waiters \in Int /\ sleep[c] = NULL
    BY QuietStep, Zenon DEF Ran, Library, Typed, vars, Memories
  <1>2. PICK p, q \in {<<"barrier", "woken">>, <<"barrier", "decrement">>, <<"barrier", "pass">>} :
          /\ Moves(c, p, q) /\ BarrierMemory /\ mem'.count = mem.count /\ mem'.version = mem.version
          /\ \/ p = <<"barrier", "woken">> /\ q = <<"barrier", "decrement">> /\ reg'[c] = mem.waiters /\ mem' = mem
             \/ p = <<"barrier", "decrement">> /\ q = <<"barrier", "pass">> /\ mem'.waiters = reg[c] - 1
    <2>1. CASE /\ At("barrier", "woken") /\ Goto("barrier", "decrement")
               /\ reg' = Local(reg, mem.waiters) /\ UNCHANGED <<vars, val, mem>>
      BY <1>1, <2>1, Zenon DEF At, Goto, Local, Moves, Points, Ran, Library, Typed, BarrierMemory
    <2>2. CASE /\ At("barrier", "decrement") /\ Goto("barrier", "pass")
               /\ Memory("waiters", reg[current] - 1) /\ UNCHANGED <<vars, reg, val>>
      <3>1. mem' = [mem EXCEPT !.waiters = reg[c] - 1] /\ reg[c] \in Int
        BY <1>1, <2>2, Zenon DEF Memory
      <3>2. /\ mem' \in Memories /\ BarrierMemory /\ mem'.count = mem.count
            /\ mem'.version = mem.version /\ mem'.waiters = reg[c] - 1
        BY <1>1, <3>1 DEF Memories, BarrierMemory
      <3> QED
        BY <1>1, <2>2, <3>2, Zenon DEF At, Goto, Moves, Points, Ran, Library, Typed
    <2> QED
      BY <2>1, <2>2, Zenon
  <1>3. pc[c] = p /\ pc'[c] = q
    BY <1>2, Zenon DEF Moves
  <1>4. InBarrier(c) /\ InBarrier(c)' /\ ~Waiting(c) /\ OfBarrier(p) /\ OfBarrier(q) /\ q[2] # "str"
    BY <1>1, <1>2, <1>3 DEF InBarrier, Waiting, OfBarrier, Points
  <1>5. c \in Inside /\ Passing(c)
    BY <1>2, <1>3, <1>4, Alone DEF Opening, Releasing
  <1>6. Inside' = Inside /\ Now' = Now /\ Old' = Old
    BY <1>1, <1>2, <1>4, MovesInside, Zenon
  <1>7. Passing(c)'
    <2>1. \A t \in Inside \ {c} : Waiting(t)' <=> Waiting(t)
      BY <1>1, <1>2, OthersStay, Zenon DEF Inside
    <2>2. OthersWait(c)' /\ NoneKept'
      BY <1>1, <1>2, <1>5, <1>6, <2>1, OthersStay, Zenon DEF OthersWait, Passing
    <2> QED
      BY <1>2, <1>3, <1>5, <1>6, <2>2 DEF Passing
  <1>8. Meets'
    BY <1>1, <1>2, <1>5, <1>6, <1>7, VersionsStay, Zenon
  <1> QED
    BY <1>1, <1>2, <1>4, <1>5, <1>6, <1>7, <1>8, StaysObeyed, Zenon

\* The last thread finds that it is the last.
LEMMA LastObeys ==
    ASSUME NEW c, Ran(c), At("barrier", "arrived"), ~(reg[current] < expected),
           Goto("barrier", "reset"), NoSyscall
    PROVE  Obeyed
  <1> DEFINE p == <<"barrier", "arrived">>  q == <<"barrier", "reset">>
  <1>1. /\ c \in Workers /\ c = current /\ pc[c] = p /\ ~(reg[c] < expected) /\ mem.version \in {0, 1}
    BY Zenon DEF Ran, Library, Typed, At, Memories
  <1>2. Moves(c, p, q) /\ Quiet /\ mem' = mem /\ val' = val
    <2>1. q \in Points
      BY Zenon DEF Points
    <2> QED
      BY <1>1, <2>1, NoSyscallStep, Zenon
  <1>3. BarrierMemory /\ pc'[c] = q
    BY <1>2, Zenon DEF BarrierMemory, Moves
  <1>4. InBarrier(c) /\ InBarrier(c)' /\ ~Waiting(c) /\ OfBarrier(p) /\ OfBarrier(q)
    BY <1>1, <1>3 DEF InBarrier, Waiting, OfBarrier, Points
  <1>5. c \in Inside /\ Opening(c)
    BY <1>1, <1>4, Alone DEF Releasing, Passing
  <1>6. Inside' = Inside /\ Now' = Now /\ Old' = Old
    BY <1>2, <1>4, MovesInside, Zenon
  <1>7. Opening(c)'
    <2>1. \A t \in Inside \ {c} : Waiting(t)' <=> Waiting(t)
      BY <1>2, OthersStay, Zenon DEF Inside
    <2>2. OthersWait(c)' /\ NoneKept'
      BY <1>2, <1>5, <1>6, <2>1, OthersStay, Zenon DEF OthersWait, Opening
    <2> QED
      BY <1>1, <1>2, <1>3, <1>5, <1>6, <2>2 DEF Opening
  <1>8. Meets'
    BY <1>2, <1>5, <1>6, <1>7, VersionsStay, Zenon
  <1> QED
    BY <1>2, <1>3, <1>4, <1>5, <1>6, <1>7, <1>8, StaysObeyed, Zenon

\* A worker that sleeps on a barrier's address is at the barrier, with that version.
LEMMA SleepsAtBarrier ==
    ASSUME NEW t \in Workers, Asleep(t), NEW v \in {0, 1}
    PROVE  /\ sleep[t] = barrier_tag[v] => pc[t] = <<"barrier", "woken">> /\ val[t] = v
           /\ pc[t] = <<"barrier", "woken">> /\ val[t] = v => sleep[t] \in {NULL, barrier_tag[v]}
  BY Addresses DEF Asleep

\* A thread leaves the barrier and wakes the next, if there is one.
LEMMA LeaveObeys ==
    ASSUME NEW c, Ran(c), NEW p, Moves(c, p, <<"start", "mutex">>), OfBarrier(p), mem' = mem, val' = val,
           c \in Old, val[c] \in {0, 1}, OthersWait(c), NoneKept, mem.count = Cardinality(Now),
           mem.waiters = Cardinality(Old) - 1, Arrived = Now, Leaving = Old,
           \/ Old = {c} /\ Quiet
           \/ Old # {c} /\ Signalled(barrier_tag[val[c]])
    PROVE  Obeyed
  <1> DEFINE q == <<"start", "mutex">>  v == val[c]  tag == barrier_tag[v]
  <1>1. /\ c \in Workers /\ mem.version \in {0, 1} /\ mem.version = 1 - v /\ EachThread
        /\ c \notin Now /\ c \in Inside /\ Inside \subseteq Workers /\ Now \subseteq Inside /\ Old \subseteq Inside
        /\ \A t \in Inside : val[t] \in {0, 1}
    BY DEF Ran, Library, Typed, Memories, Old, Now, Inside, Meets
  <1>2. /\ pc'[c] = q /\ q \in Points /\ OfBarrier(q) /\ ~InBarrier(c)'
        /\ \A t \in Workers \ {c} : pc'[t] = pc[t] /\ reg'[t] = reg[t] /\ (InBarrier(t)' <=> InBarrier(t))
    BY DEF Moves, OfBarrier, InBarrier
  <1>3. Inside' = Inside \ {c}
    BY <1>2, Zenon DEF Inside
  <1>4. Now' = Now /\ Old' = Old \ {c}
    BY <1>1, <1>3, Zenon DEF Now, Old
  <1>5. /\ Cardinality(Old') = mem.waiters /\ mem.count < expected
    <2>1. Old \in SUBSET Workers /\ Now \in SUBSET Workers
      BY <1>1, Zenon
    <2> QED
      BY <1>1, <1>4, <2>1, OneMore, Zenon
  <1>6. sleep'[c] = NULL
    <2>1. tag \in UsedTags
      BY Addresses, Zenon
    <2> QED
      BY <2>1, CallReturns, Zenon
  <1>7. ASSUME \A t \in Workers \ {c} : sleep'[t] = sleep[t]
        PROVE  \A t \in Inside' : Waiting(t)'
    BY <1>1, <1>2, <1>3, <1>7, Zenon DEF OthersWait, Waiting
  <1>8. CASE Old = {c} /\ Quiet
    <2>1. Gathering'
      BY <1>3, <1>4, <1>5, <1>7, <1>8, Zenon DEF Gathering, Quiet, NoneKept
    <2>2. Meets'
      BY <1>3, <2>1, VersionsStay, Zenon
    <2>3. Library' => BarrierObeys
      BY <1>4, <2>1, ViewsNext, Zenon DEF Seen, BarrierObeys
    <2> QED
      BY <1>2, <1>6, <1>8, <2>2, <2>3, BarrierPart DEF BarrierMemory
  <1>9. CASE Old # {c} /\ Signalled(tag)
    <2>1. tag \in UsedTags /\ barrier_tag[1 - v] \in UsedTags \ {tag}
      BY Addresses
    <2>2. kept'[barrier_tag[1 - v]] = kept[barrier_tag[1 - v]]
      BY <1>9, <2>1, CallTouches, Zenon DEF Untouched
    <2>3. kept[barrier_tag[0]] = 0 /\ kept[barrier_tag[1]] = 0 /\ kept[tag] = 0 /\ kept[barrier_tag[1 - v]] = 0
      BY DEF NoneKept
    <2>4. ASSUME NEW u \in Workers \ {c}, Wakes(u, tag)
          PROVE  u \in Inside' /\ Passing(u)'
      <3>1. Asleep(u) /\ sleep[u] = tag /\ sleep'[u] = NULL
        BY <1>1, <2>4, Zenon DEF EachThread, Wakes
      <3>2. pc[u] = <<"barrier", "woken">> /\ val[u] = v
        BY <3>1, SleepsAtBarrier, Zenon
      <3>3. u \in Old' /\ u \in Inside' /\ pc'[u] = <<"barrier", "woken">>
        BY <1>1, <1>2, <1>3, <1>4, <3>2 DEF Old, Inside, InBarrier
      <3>4. OthersWait(u)'
        BY <1>1, <1>2, <1>3, <2>4 DEF OthersWait, Waiting, Wakes
      <3>5. NoneKept'
        BY <2>2, <2>3, <2>4 DEF NoneKept, Wakes
      <3> QED
        BY <1>4, <1>5, <3>1, <3>3, <3>4, <3>5, Zenon DEF Passing
    <2>5. ASSUME \A u \in Workers : sleep[u] # tag /\ sleep'[u] = sleep[u], kept'[tag] = kept[tag] + 1
          PROVE  Handing'
      <3>1. Old' # {} /\ \A t \in Inside' : Waiting(t)'
        BY <1>1, <1>4, <1>7, <1>9, <2>5, Zenon
      <3>2. ASSUME NEW t \in Old' PROVE pc'[t] = <<"barrier", "arrived">>
        <4>1. t \in Workers \ {c} /\ val[t] = v /\ Waiting(t) /\ Asleep(t)
          BY <1>1, <1>4, <3>2, Zenon DEF Old, OthersWait, EachThread
        <4>2. sleep[t] # tag /\ pc'[t] = pc[t]
          BY <1>2, <2>5, <4>1, Zenon
        <4> QED
          BY <4>1, <4>2, SleepsAtBarrier, Zenon DEF Waiting
      <3>3. kept'[barrier_tag[mem.version]] = 0 /\ kept'[barrier_tag[1 - mem.version]] = 1
        BY <1>1, <2>2, <2>3, <2>5
      <3> QED
        BY <1>4, <1>5, <3>1, <3>2, <3>3, Zenon DEF Handing
    <2>6. \/ Handing'
          \/ \E u \in Inside' : Passing(u)'
      BY <1>9, <2>1, <2>4, <2>5, SignalTouches, Zenon
    <2>7. Meets'
      BY <1>3, <2>6, VersionsStay, Zenon
    <2>8. Library' => BarrierObeys
      BY <1>4, <2>6, ViewsNext, Zenon DEF Seen, BarrierObeys
    <2> QED
      BY <1>2, <1>6, <1>9, <2>7, <2>8, BarrierPart DEF BarrierMemory
  <1> QED
    BY <1>8, <1>9, Zenon

\* The last thread wakes the first, one that was woken the next.
LEMMA SignalsObey ==
    ASSUME NEW c, Ran(c), Serves,
           \/ /\ At("barrier", "release") /\ Goto("start", "mutex")
              /\ Syscall(FutexSignal(S, BarrierTag))
           \/ /\ At("barrier", "pass") /\ Goto("start", "mutex")
              /\ IF mem.waiters > 0 THEN Syscall(FutexSignal(S, BarrierTag)) ELSE NoSyscall
    PROVE  Obeyed
  <1> DEFINE q == <<"start", "mutex">>
  <1>1. /\ c \in Workers /\ c = current /\ q \in Points /\ BarrierTag = barrier_tag[val[c]]
        /\ pc[c] \in {<<"barrier", "release">>, <<"barrier", "pass">>} /\ Goto("start", "mutex")
    BY Zenon DEF Ran, At, Points, BarrierTag
  <1>2. InBarrier(c) /\ ~Waiting(c) /\ OfBarrier(pc[c])
    BY <1>1 DEF InBarrier, Waiting, OfBarrier, Points
  <1>3. c \in Inside /\ val[c] \in {0, 1} /\ (Releasing(c) \/ Passing(c)) /\ Seen
    BY <1>1, <1>2, Alone, Views DEF Opening, Ran
  <1>4. /\ c \in Old /\ OthersWait(c) /\ NoneKept /\ Arrived = Now /\ Leaving = Old
        /\ mem.count = Cardinality(Now) /\ mem.waiters = Cardinality(Old) - 1
    <2>1. CASE pc[c] = <<"barrier", "release">>
      <3>1. Releasing(c)
        BY <1>3, <2>1 DEF Passing
      <3>2. Old = Workers /\ Now = {}
        BY <3>1, Zenon DEF Releasing, Now, Old, Inside
      <3>3. Cardinality(Now) = 0 /\ Cardinality(Old) = expected
        BY <3>2, FS_EmptySet, Zenon DEF expected
      <3>4. Arrived = {} /\ Leaving = Workers
        BY <1>3, <3>1, Zenon DEF Seen
      <3>5. mem.count = 0 /\ mem.waiters = expected - 1 /\ OthersWait(c) /\ NoneKept
        BY <2>1, <3>1 DEF Releasing
      <3> QED
        BY <1>1, <3>2, <3>3, <3>4, <3>5, Zenon
    <2>2. CASE pc[c] = <<"barrier", "pass">>
      BY <1>3, <2>2 DEF Passing, Releasing, Seen
    <2> QED
      BY <1>1, <2>1, <2>2, Zenon
  <1>5. Old \in SUBSET Workers /\ Cardinality(Old) \in Nat /\ (Old = {c} <=> Cardinality(Old) = 1)
    <2>1. Old \in SUBSET Workers /\ Old \ {c} \in SUBSET Workers
      BY Zenon DEF Old, Inside
    <2>2. Cardinality(Old) \in Nat /\ (Cardinality(Old \ {c}) = 0 <=> Old \ {c} = {})
      BY <2>1, WorkersFinite, Zenon
    <2>3. Cardinality(Old \ {c}) = Cardinality(Old) - 1
      BY <1>1, <1>4, <2>1, OneMore, Zenon
    <2> QED
      BY <1>4, <2>1, <2>2, <2>3
  <1>6. CASE mem.waiters > 0 /\ Syscall(FutexSignal(S, BarrierTag))
    <2>1. Signalled(barrier_tag[val[c]])
      BY <1>1, <1>3, <1>6, Addresses, Zenon DEF Serves
    <2>2. Moves(c, pc[c], q) /\ mem' = mem /\ val' = val
      BY <1>1, <1>6, SyscallStep, Zenon
    <2>3. Old # {c}
      BY <1>4, <1>5, <1>6
    <2> QED
      BY <1>2, <1>3, <1>4, <2>1, <2>2, <2>3, LeaveObeys, Zenon
  <1>7. CASE ~(mem.waiters > 0) /\ NoSyscall
    <2>1. Moves(c, pc[c], q) /\ mem' = mem /\ val' = val /\ Quiet
      BY <1>1, <1>7, NoSyscallStep, Zenon
    <2>2. Old = {c}
      <3>1. Cardinality(Old) # 0
        BY <1>4, <1>5, WorkersFinite, Zenon
      <3> QED
        BY <1>4, <1>5, <1>7, <3>1
    <2> QED
      BY <1>2, <1>3, <1>4, <2>1, <2>2, LeaveObeys, Zenon
  <1>8. CASE ~(mem.waiters > 0) /\ pc[c] = <<"barrier", "release">>
    <2>1. mem.waiters = expected - 1
      BY <1>3, <1>8 DEF Releasing, Passing
    <2> QED
      BY <1>8, <2>1, WorkersFinite
  <1>9. pc[c] = <<"barrier", "release">> => Syscall(FutexSignal(S, BarrierTag))
    BY <1>1 DEF At
  <1>10. pc[c] = <<"barrier", "pass">> => IF mem.waiters > 0 THEN Syscall(FutexSignal(S, BarrierTag)) ELSE NoSyscall
    BY <1>1 DEF At
  <1> QED
    BY <1>1, <1>6, <1>7, <1>8, <1>9, <1>10, Zenon

\* A thread arrives.
LEMMA JoinObeys ==
    ASSUME NEW c, Ran(c), StrAdd("barrier", "count", 1, "arrived")
    PROVE  Obeyed
  <1> DEFINE p == <<"barrier", "str">>  q == <<"barrier", "arrived">>
  <1>1. /\ Moves(c, p, q) /\ Quiet /\ val' = val
        /\ mem' = [mem EXCEPT !.count = mem.count + 1] /\ reg'[c] = mem.count + 1
    <2>1. q \in Points
      BY Zenon DEF Points
    <2> QED
      BY <2>1, StrAddStep, Fields
  <1>2. /\ c \in Workers /\ mem \in Memories /\ mem.count \in Int /\ mem.version \in {0, 1} /\ pc[c] = p /\ pc'[c] = q
        /\ Meets /\ expected \in Nat
    BY <1>1, WorkersFinite, Zenon DEF Ran, Library, Typed, Memories, Moves
  <1>3. BarrierMemory /\ mem'.count = mem.count + 1 /\ mem'.version = mem.version /\ mem'.waiters = mem.waiters
    BY <1>1, <1>2, Zenon DEF Memories, BarrierMemory
  <1>4. /\ val[c] = mem.version /\ c \notin Inside /\ Inside \subseteq Workers
        /\ Now \subseteq Inside /\ Old \subseteq Inside /\ Now \cap Old = {}
    <2>1. c \notin Inside
      BY <1>2 DEF Inside, InBarrier
    <2>2. val[c] = mem.version
      BY <1>2, Zenon DEF Meets
    <2> QED
      BY <2>1, <2>2, Zenon DEF Inside, Now, Old
  <1>5. Inside' = Inside \cup {c}
    <2>1. InBarrier(c)'
      BY <1>2 DEF InBarrier
    <2>2. \A t \in Workers \ {c} : InBarrier(t)' <=> InBarrier(t)
      BY <1>1, OthersStay, Zenon
    <2> QED
      BY <1>2, <1>4, <2>1, <2>2, Zenon DEF Inside
  <1>6. Now' = Now \cup {c} /\ Old' = Old
    BY <1>1, <1>3, <1>4, <1>5, Zenon DEF Now, Old
  <1>7. Cardinality(Now') = Cardinality(Now) + 1 /\ Now' \in SUBSET Workers
    BY <1>2, <1>4, <1>6, OneMore, Zenon
  <1>8. /\ \A t \in Inside : Waiting(t)' <=> Waiting(t)
        /\ NoneKept' <=> NoneKept
        /\ Waiting(c)' <=> mem.count + 1 < expected
    BY <1>1, <1>2, <1>4, OthersStay DEF Waiting, Quiet
  <1>9. ASSUME NEW b \in Old, mem.count = Cardinality(Now)
        PROVE  Waiting(c)' /\ Now' # Workers
    <2>1. b \in Workers /\ b \notin Now'
      BY <1>4, <1>6, Zenon
    <2> QED
      BY <1>7, <1>8, <1>9, <2>1, OneMore, Zenon
  <1>10. /\ ~\E b \in Inside : Opening(b) \/ Releasing(b)
         /\ Seen /\ (Library' => Seen')
    BY <1>2, <1>4, Views, ViewsNext, Zenon DEF Opening, Releasing, Ran
  <1>11. ASSUME Gathering, mem.count + 1 < expected
         PROVE  Gathering' /\ (Library' => BarrierObeys)
    <2>1. Gathering'
      BY <1>3, <1>5, <1>6, <1>7, <1>8, <1>11, Zenon DEF Gathering
    <2>2. Now' # Workers
      <3>1. Cardinality(Now') < expected
        BY <1>7, <1>11, Zenon DEF Gathering
      <3> QED
        BY <1>2, <3>1 DEF expected
    <2> QED
      BY <1>2, <1>4, <1>6, <1>10, <1>11, <2>1, <2>2, Zenon DEF Seen, BarrierObeys
  <1>12. ASSUME Gathering, ~(mem.count + 1 < expected)
         PROVE  Opening(c)' /\ (Library' => BarrierObeys)
    <2>1. mem.count + 1 = expected
      BY <1>2, <1>12 DEF Gathering
    <2>2. Now' = Workers
      BY <1>7, <1>12, <2>1, WorkersFinite, Zenon DEF Gathering
    <2>3. OthersWait(c)' /\ NoneKept'
      BY <1>5, <1>8, <1>12, Zenon DEF Gathering, OthersWait
    <2>4. Opening(c)'
      BY <1>1, <1>2, <1>3, <2>1, <2>2, <2>3 DEF Opening
    <2> QED
      BY <1>2, <1>4, <1>5, <1>6, <1>10, <1>12, <2>2, <2>4, Zenon DEF Seen, BarrierObeys
  <1>13. ASSUME Handing
         PROVE  Handing' /\ (Library' => BarrierObeys)
    <2>1. Waiting(c)' /\ Now' # Workers
      BY <1>9, <1>13, Zenon DEF Handing
    <2>2. \A t \in Old : pc'[t] = <<"barrier", "arrived">>
      BY <1>1, <1>4, <1>13, Zenon DEF Handing, Moves
    <2>3. Handing'
      BY <1>1, <1>3, <1>5, <1>6, <1>7, <1>8, <1>13, <2>1, <2>2, Zenon DEF Handing, Quiet
    <2> QED
      BY <1>2, <1>4, <1>6, <1>10, <1>13, <2>1, <2>3, Zenon DEF Seen, BarrierObeys
  <1>14. ASSUME NEW b \in Inside, Passing(b)
         PROVE  Passing(b)' /\ (Library' => BarrierObeys)
    <2>1. Waiting(c)' /\ Now' # Workers
      BY <1>9, <1>14, Zenon DEF Passing
    <2>2. pc'[b] = pc[b] /\ reg'[b] = reg[b] /\ sleep'[b] = sleep[b]
      BY <1>1, <1>4, Zenon DEF Moves, Quiet
    <2>3. OthersWait(b)' /\ NoneKept'
      BY <1>5, <1>8, <1>14, <2>1, Zenon DEF Passing, OthersWait
    <2>4. Passing(b)'
      BY <1>3, <1>6, <1>7, <1>14, <2>2, <2>3, Zenon DEF Passing
    <2> QED
      BY <1>2, <1>4, <1>5, <1>6, <1>10, <1>14, <2>1, <2>4, Zenon DEF Seen, BarrierObeys
  <1>15. /\ \/ Gathering' \/ Handing'
            \/ \E b \in Inside' : (Opening(b) \/ Releasing(b) \/ Passing(b))'
         /\ Library' => BarrierObeys
    BY <1>2, <1>5, <1>10, <1>11, <1>12, <1>13, <1>14, Zenon DEF Meets
  <1>16. Meets'
    <2>1. \A t \in Workers : pc'[t] \in {<<"barrier", "ldr">>, <<"barrier", "str">>} => val'[t] = mem'.version
      BY <1>1, <1>2, <1>3, Zenon DEF Meets, Moves
    <2>2. \A t \in Inside' : val'[t] \in {0, 1}
      BY <1>1, <1>2, <1>4, <1>5, Zenon DEF Meets
    <2> QED
      BY <1>15, <2>1, <2>2, Zenon DEF Meets
  <1>17. OfBarrier(p) /\ OfBarrier(q) /\ q[2] # "str" /\ sleep'[c] = NULL
    BY <1>1, CallReturns, Addresses, Zenon DEF OfBarrier, Points
  <1> QED
    BY <1>1, <1>3, <1>15, <1>16, <1>17, BarrierPart, Zenon

\* A thread waits for the barrier to open.
LEMMA BarrierWaitObeys ==
    ASSUME NEW c, Ran(c), Serves, At("barrier", "arrived"), reg[current] < expected,
           Goto("barrier", "woken"), Syscall(FutexWait(S, BarrierTag))
    PROVE  Obeyed
  <1> DEFINE p == <<"barrier", "arrived">>  q == <<"barrier", "woken">>  v == val[c]  tag == barrier_tag[v]
  <1>1. /\ c \in Workers /\ c = current /\ pc[c] = p /\ reg[c] < expected /\ BarrierTag = tag /\ q \in Points
        /\ Meets /\ mem.version \in {0, 1}
    BY Zenon DEF Ran, Library, Typed, Memories, At, BarrierTag, Points
  <1>2. Moves(c, p, q) /\ mem' = mem /\ val' = val /\ reg' = reg
    BY <1>1, SyscallStep, Zenon
  <1>3. InBarrier(c) /\ InBarrier(c)' /\ Waiting(c) /\ pc'[c] = q /\ OfBarrier(p) /\ OfBarrier(q)
    BY <1>1, <1>2 DEF InBarrier, Waiting, Moves, OfBarrier, Points
  <1>4. Inside' = Inside /\ Now' = Now /\ Old' = Old
    BY <1>2, <1>3, MovesInside, Zenon
  <1>5. /\ c \in Inside /\ v \in {0, 1} /\ tag \in UsedTags /\ tag # NULL
    BY <1>1, <1>3, Addresses, Zenon DEF Inside, Meets
  <1>6. Waited(tag)
    BY <1>1, <1>5, Zenon DEF Serves
  <1>7. /\ \A t \in Workers \ {c} : sleep'[t] = sleep[t]
        /\ kept[tag] > 0 => sleep'[c] = NULL /\ kept'[tag] = kept[tag] - 1
        /\ kept[tag] = 0 => sleep'[c] = tag /\ kept'[tag] = kept[tag]
        /\ kept[tag] \in Nat
    BY <1>5, <1>6, WaitTouches, Zenon
  <1>8. kept'[barrier_tag[1 - v]] = kept[barrier_tag[1 - v]]
    <2>1. barrier_tag[1 - v] \in UsedTags \ {tag}
      BY <1>5, Addresses
    <2> QED
      BY <1>5, <1>6, <2>1, CallTouches, Zenon DEF Untouched
  <1>9. \A t \in Inside \ {c} : pc'[t] = pc[t] /\ reg'[t] = reg[t] /\ sleep'[t] = sleep[t] /\ (Waiting(t)' <=> Waiting(t))
    BY <1>2, <1>7, Zenon DEF Inside, Moves, Waiting
  <1>10. Seen /\ (Library' => Seen')
    BY Views, ViewsNext, Zenon DEF Ran
  <1>11. CASE kept[tag] > 0
    <2>1. ~NoneKept
      BY <1>5, <1>11 DEF NoneKept
    <2>2. Handing
      BY <1>1, <2>1, Zenon DEF Meets, Gathering, Opening, Releasing, Passing
    <2>3. c \in Old /\ kept[tag] = 1 /\ kept[barrier_tag[1 - v]] = 0
      BY <1>1, <1>5, <1>11, <2>2 DEF Handing, Old
    <2>4. NoneKept'
      BY <1>5, <1>7, <1>8, <1>11, <2>3 DEF NoneKept
    <2>5. Passing(c)'
      BY <1>2, <1>3, <1>4, <1>7, <1>9, <1>11, <2>2, <2>3, <2>4, Zenon DEF Handing, Passing, OthersWait
    <2>6. Meets'
      BY <1>2, <1>4, <1>5, <2>5, VersionsStay, Zenon
    <2>7. Library' => BarrierObeys
      BY <1>4, <1>5, <1>10, <2>2, <2>5, Zenon DEF Seen, BarrierObeys
    <2> QED
      BY <1>2, <1>3, <1>5, <1>6, <1>7, <1>11, <2>6, <2>7, BarrierPart DEF BarrierMemory
  <1>12. CASE kept[tag] = 0
    <2>1. Waiting(c)'
      BY <1>3, <1>5, <1>7, <1>12, Zenon DEF Waiting
    <2>2. /\ NoneKept => NoneKept'
          /\ \A w \in {0, 1} : kept'[barrier_tag[w]] = kept[barrier_tag[w]]
      BY <1>5, <1>7, <1>8, <1>12 DEF NoneKept
    <2>3. ASSUME Gathering PROVE Gathering'
      BY <1>2, <1>4, <1>9, <2>1, <2>2, <2>3, Zenon DEF Gathering
    <2>4. ASSUME Handing PROVE Handing'
      <3>1. c \notin Old
        BY <1>1, <1>5, <1>12, <2>4 DEF Handing, Old
      <3>2. \A t \in Old : pc'[t] = <<"barrier", "arrived">>
        BY <1>9, <2>4, <3>1, Zenon DEF Handing, Old
      <3>3. kept'[barrier_tag[mem.version]] = 0 /\ kept'[barrier_tag[1 - mem.version]] = 1
        BY <1>1, <2>2, <2>4 DEF Handing
      <3> QED
        BY <1>2, <1>4, <1>9, <2>1, <2>4, <3>2, <3>3, Zenon DEF Handing
    <2>5. ASSUME NEW b \in Inside, Opening(b) \/ Releasing(b) \/ Passing(b)
          PROVE  /\ Opening(b) => Opening(b)'
                 /\ Releasing(b) => Releasing(b)'
                 /\ Passing(b) => Passing(b)'
      <3>1. b # c
        <4>1. reg[c] \in Int /\ expected \in Nat
          BY <1>1, WorkersFinite, Zenon DEF Ran, Library, Typed
        <4> QED
          BY <1>1, <2>5, <4>1 DEF Opening, Releasing, Passing
      <3>2. pc'[b] = pc[b] /\ reg'[b] = reg[b] /\ sleep'[b] = sleep[b]
        BY <1>9, <3>1, Zenon
      <3>3. OthersWait(b) => OthersWait(b)'
        BY <1>4, <1>9, <2>1, Zenon DEF OthersWait
      <3>4. Opening(b) => Opening(b)'
        BY <1>2, <1>4, <2>2, <3>2, <3>3, Zenon DEF Opening
      <3>5. Releasing(b) => Releasing(b)'
        BY <1>2, <1>4, <2>2, <3>2, <3>3, Zenon DEF Releasing
      <3>6. Passing(b) => Passing(b)'
        BY <1>2, <1>4, <2>2, <3>2, <3>3, Zenon DEF Passing
      <3> QED
        BY <3>4, <3>5, <3>6, Zenon
    <2>6. Meets'
      <3>1. \/ Gathering' \/ Handing'
            \/ \E b \in Inside' : (Opening(b) \/ Releasing(b) \/ Passing(b))'
        BY <1>1, <1>4, <2>3, <2>4, <2>5, Zenon DEF Meets
      <3> QED
        BY <1>2, <1>4, <3>1, VersionsStay, Zenon
    <2>7. Library' => BarrierObeys
      BY <1>1, <1>4, <1>10, <2>3, <2>4, <2>5, Zenon DEF Meets, Seen, BarrierObeys
    <2> QED
      BY <1>2, <1>3, <1>5, <1>6, <1>7, <1>12, <2>6, <2>7, BarrierPart, Zenon DEF BarrierMemory
  <1> QED
    BY <1>7, <1>11, <1>12

\* okn_barrier() does what Barrier says.
LEMMA BarrierDoes ==
    ASSUME NEW c, Ran(c), Serves, BarrierArrive \/ BarrierPassOn \/ BarrierRelease
    PROVE  Obeyed
  <1>1. CASE /\ At("barrier", "version") /\ Goto("barrier", "ldr")
             /\ val' = Local(val, mem.version) /\ UNCHANGED <<vars, reg, mem>>
    <2> DEFINE p == <<"barrier", "version">>  q == <<"barrier", "ldr">>
    <2>1. Moves(c, p, q) /\ Quiet /\ mem' = mem /\ val'[c] = mem.version
      <3>1. Quiet
        BY <1>1, QuietStep, Zenon DEF vars
      <3>2. c \in Workers /\ mem.version \in Int
        BY DEF Ran, Library, Typed, Memories
      <3> QED
        BY <1>1, <3>1, <3>2, Zenon DEF Ran, Library, Typed, At, Goto, Local, Moves, Points
    <2>2. /\ OfBarrier(p) /\ OfBarrier(q) /\ OutsideBarrier(p) /\ OutsideBarrier(q)
          /\ q[2] # "str" /\ sleep'[c] = NULL
      BY <2>1, CallReturns, Addresses, Zenon DEF OfBarrier, OutsideBarrier, Points
    <2>3. Untouched(barrier_tag[0]) /\ Untouched(barrier_tag[1])
      BY <2>1, Zenon DEF Quiet, Untouched
    <2>4. EachThread' => BarrierObeys /\ Meets'
      BY <2>1, <2>2, <2>3, BarrierAside, Zenon
    <2> QED
      BY <2>1, <2>2, <2>4, BarrierPart, Zenon DEF BarrierMemory, Library
  <1>2. CASE Ldr("barrier", "count")
    <2> DEFINE p == <<"barrier", "ldr">>  q == <<"barrier", "str">>
    <2>1. Moves(c, p, q) /\ Quiet /\ mem' = mem /\ val' = val /\ current' = c /\ reg'[c] = mem.count
      BY <1>2, LdrStep, Zenon DEF Points
    <2>2. /\ OfBarrier(p) /\ OfBarrier(q) /\ OutsideBarrier(p) /\ OutsideBarrier(q)
          /\ sleep'[c] = NULL
      BY <2>1, CallReturns, Addresses, Zenon DEF OfBarrier, OutsideBarrier, Points
    <2>3. Untouched(barrier_tag[0]) /\ Untouched(barrier_tag[1])
      BY <2>1, Zenon DEF Quiet, Untouched
    <2>4. val'[c] = mem.version
      BY <2>1, Zenon DEF Ran, Library, Meets, Moves
    <2>5. EachThread' => BarrierObeys /\ Meets'
      BY <2>1, <2>2, <2>3, <2>4, BarrierAside, Zenon
    <2> QED
      BY <2>1, <2>2, <2>5, BarrierPart, Zenon DEF BarrierMemory, Library
  <1>3. c = current
    BY Zenon DEF Ran
  <1>4. CASE BarrierArrive
    BY <1>1, <1>2, <1>4, JoinObeys, BarrierWaitObeys, LastObeys, Zenon DEF BarrierArrive
  <1>5. CASE BarrierPassOn
    BY <1>5, DecrementObeys, SignalsObey, Zenon DEF BarrierPassOn
  <1>6. CASE BarrierRelease
    BY <1>6, ResetObeys, FlipObeys, WaitersObeys, SignalsObey, Zenon DEF BarrierRelease
  <1> QED
    BY <1>4, <1>5, <1>6, Zenon

-----------------------------------------------------------------------------
(* All steps                                                               *)

\* Every step of a worker is a step of the objects.
LEMMA WorkObeys ==
    ASSUME NEW c, Ran(c), Serves, Work
    PROVE  Obeyed
  BY WorkerChoiceObeys, MutexLockObeys, FutexLockObeys, FutexTrylockObeys, MutexUnlockObeys, FutexUnlockObeys,
     SemaphoreDownObeys, SemaphoreTryDownObeys, SemaphoreUpObeys, BarrierDoes, Zenon DEF Work

\* A step of a worker is a step of the thread that runs, and the others stay where they are.
LEMMA WorkFrame ==
    ASSUME Work
    PROVE  InUser /\ pc[current][1] # "irq" /\ \E p : pc' = [pc EXCEPT ![current] = p]
  <1>1. CASE WorkerChoice
    BY <1>1 DEF WorkerChoice, Choose, At, Goto
  <1>2. CASE MutexLock \/ MutexTrylock \/ MutexUnlock
    <2>0. InUser /\ \E p : pc[current] = <<"mutex_lock", p>> \/ pc[current] = <<"mutex_unlock", p>>
      BY <1>2, Zenon DEF MutexLock, MutexTrylock, TestOwner, SetOwner, MutexUnlock, At
    <2>1. InUser /\ pc[current][1] # "irq"
      BY <2>0
    <2>2. \E p : pc' = [pc EXCEPT ![current] = p]
      BY <1>2, Zenon DEF MutexLock, MutexTrylock, TestOwner, SetOwner, MutexUnlock, Goto
    <2> QED
      BY <2>1, <2>2, Zenon
  <1>3. CASE FutexLock \/ FutexTrylock \/ FutexUnlock
    BY <1>3 DEF FutexLock, FutexTrylock, FutexUnlock, Ldr, StrAdd, StrEq, At, Goto
  <1>4. CASE SemaphoreDown \/ SemaphoreTryDown \/ SemaphoreUp
    BY <1>4 DEF SemaphoreDown, SemaphoreTryDown, SemaphoreUp, Ldr, StrAdd, StrEq, At, Goto
  <1>5. CASE BarrierArrive \/ BarrierPassOn \/ BarrierRelease
    BY <1>5 DEF BarrierArrive, BarrierPassOn, BarrierRelease, Ldr, StrAdd, At, Goto
  <1> QED
    BY <1>1, <1>2, <1>3, <1>4, <1>5, Zenon DEF Work

\* What the kernel does in a step of a worker: nothing, or a futex call.
LEMMA WorkCalls ==
    ASSUME NEW c, Ran(c), Work
    PROVE  \/ UNCHANGED vars
           \/ \E x \in UsedTags : Syscall(FutexWait(S, x)) \/ Syscall(FutexSignal(S, x))
  <1>1. /\ c = current /\ c \in Workers
        /\ lock_tag \in UsedTags /\ sem_tag \in UsedTags
    BY Addresses, Zenon DEF Ran
  <1>2. InBarrier(c) => BarrierTag \in UsedTags
    <2>1. ASSUME InBarrier(c) PROVE val[c] \in {0, 1}
      BY <1>1, <2>1, Zenon DEF Ran, Library, Meets, Inside
    <2> QED
      BY <1>1, <2>1, Addresses, Zenon DEF BarrierTag
  <1>3. ASSUME NEW p, At("barrier", p), p \notin {"version", "ldr", "str"}
        PROVE  BarrierTag \in UsedTags
    BY <1>1, <1>2, <1>3 DEF At, InBarrier
  <1>4. CASE WorkerChoice
    BY <1>4, Zenon DEF WorkerChoice, Choose, NoSyscall
  <1>5. CASE MutexLock \/ MutexTrylock
    <2>1. failed' = failed
      BY <1>5, MutexLockObeys, Zenon
    <2> QED
      BY <1>5, <2>1, Zenon DEF MutexLock, MutexTrylock, TestOwner, SetOwner, LibAssert, vars
  <1>6. CASE MutexUnlock
    <2>1. failed' = failed
      BY <1>6, MutexUnlockObeys, Zenon
    <2> QED
      BY <1>6, <2>1, Zenon DEF MutexUnlock, LibAssert, vars
  <1>7. CASE FutexLock \/ FutexTrylock \/ FutexUnlock
    BY <1>1, <1>7, Zenon DEF FutexLock, FutexTrylock, FutexUnlock, Ldr, StrAdd, StrEq, NoSyscall
  <1>8. CASE SemaphoreDown \/ SemaphoreTryDown \/ SemaphoreUp
    BY <1>1, <1>8, Zenon DEF SemaphoreDown, SemaphoreTryDown, SemaphoreUp, Ldr, StrAdd, StrEq, NoSyscall
  <1>9. CASE BarrierArrive
    BY <1>3, <1>9, Zenon DEF BarrierArrive, Ldr, StrAdd, NoSyscall
  <1>10. CASE BarrierPassOn
    BY <1>3, <1>10, Zenon DEF BarrierPassOn, NoSyscall
  <1>11. CASE BarrierRelease
    BY <1>3, <1>11, Zenon DEF BarrierRelease
  <1> QED
    BY <1>4, <1>5, <1>6, <1>7, <1>8, <1>9, <1>10, <1>11, Zenon DEF Work

\* A step of the kernel or of the handler: the workers stay where they are, but that the
\* one that is interrupted inside a block goes back to its start.
Fixed == /\ UNCHANGED <<reg, val, mem>> /\ Quiet /\ DOMAIN pc' = DOMAIN pc
         /\ \A t \in Workers : pc'[t] = Fixup(pc[t]) \/ (pc'[t] = pc[t] /\ current' = current)

\* Where a thread is in the objects does not depend on how far it is in a block.
LEMMA FixupKeeps ==
    ASSUME Library, Fixed, NEW t \in Workers
    PROVE  /\ pc'[t] \in Points
           /\ Asleep(t)' /\ InBlock(t)' /\ HasRead(t)'
           /\ (Owns(t)' <=> Owns(t)) /\ (Owns(t) => pc'[t] = pc[t])
           /\ LockState(t)' = LockState(t) /\ SemState(t)' = SemState(t)
           /\ (InBarrier(t)' <=> InBarrier(t)) /\ (InBarrier(t) => pc'[t] = pc[t])
           /\ pc'[t] \in {<<"barrier", "ldr">>, <<"barrier", "str">>} =>
                  pc[t] \in {<<"barrier", "ldr">>, <<"barrier", "str">>}
           /\ pc'[t] = <<"barrier", "flip">> <=> pc[t] = <<"barrier", "flip">>
  <1>1. /\ pc[t] \in Points /\ sleep'[t] = sleep[t] /\ reg'[t] = reg[t] /\ val'[t] = val[t] /\ mem' = mem
        /\ Asleep(t) /\ InBlock(t) /\ HasRead(t)
    BY Zenon DEF Library, Typed, EachThread, Fixed, Quiet
  <1>2. /\ (Sleeps(t, lock_tag)' <=> Sleeps(t, lock_tag)) /\ (Sleeps(t, sem_tag)' <=> Sleeps(t, sem_tag))
    BY <1>1, SleepsOn, Addresses, Zenon
  <1>0. pc'[t] = Fixup(pc[t]) \/ (pc'[t] = pc[t] /\ current' = current)
    BY Zenon DEF Fixed
  <1>3. CASE pc[t][2] # "str" \/ (pc'[t] = pc[t] /\ current' = current)
    <2>1. pc'[t] = pc[t]
      BY <1>0, <1>3, Zenon DEF Fixup
    <2> QED
      BY <1>1, <1>2, <1>3, <2>1, Zenon DEF Asleep, InBlock, HasRead, Owns, LockState, SemState, InBarrier
  <1>4. CASE pc[t][2] = "str" /\ pc'[t] = Fixup(pc[t])
    <2>1. PICK f \in {"futex_lock", "futex_trylock", "futex_unlock", "down", "try_down", "up", "barrier"} :
            pc[t] = <<f, "str">>
      BY <1>1, <1>4 DEF Points
    <2>2. pc'[t] = <<f, "ldr">> /\ pc'[t] \in Points
      <3>1. pc'[t] = <<f, "ldr">>
        BY <1>4, <2>1 DEF Fixup
      <3> QED
        BY <3>1, Zenon DEF Points
    <2>3. Asleep(t)' /\ InBlock(t)' /\ HasRead(t)'
      BY <1>1, <2>1, <2>2 DEF Asleep, InBlock, HasRead
    <2>4. LockState(t)' = LockState(t)
      BY <1>1, <1>2, <2>1, <2>2 DEF LockState
    <2>5. SemState(t)' = SemState(t)
      BY <1>1, <1>2, <2>1, <2>2 DEF SemState
    <2>6. ~Owns(t) /\ ~Owns(t)' /\ ~InBarrier(t) /\ ~InBarrier(t)'
      BY <2>1, <2>2 DEF Owns, InBarrier
    <2> QED
      BY <1>4, <2>1, <2>2, <2>3, <2>4, <2>5, <2>6
  <1> QED
    BY <1>0, <1>3, <1>4, Zenon

\* It leaves the objects as they are.
LEMMA FixedObeys ==
    ASSUME Library, Fixed
    PROVE  Obeyed
  <1>1. Typed' /\ EachThread'
    BY FixupKeeps, Zenon DEF Fixed, Library, Typed, EachThread, Quiet
  <1>2. mem' = mem /\ kept' = kept /\ val' = val /\ reg' = reg /\ sleep' = sleep
    BY Zenon DEF Fixed, Quiet
  <1>3. Counted'
    BY <1>2, FixupKeeps, Zenon DEF Library, Counted, OwnerCount
  <1>4. LockPlaces' = LockPlaces /\ SemPlaces' = SemPlaces
    BY FixupKeeps, Zenon DEF LockPlaces, SemPlaces
  <1>5. LockObeys /\ SemObeys
    BY <1>2, <1>4, Zenon DEF LockObeys, SemObeys, PermitStep
  <1>6. Inside' = Inside /\ \A t \in Inside : pc'[t] = pc[t]
    BY FixupKeeps, Zenon DEF Inside
  <1>7. Now' = Now /\ Old' = Old /\ Now \subseteq Inside /\ Old \subseteq Inside /\ Inside \subseteq Workers
    BY <1>2, <1>6, Zenon DEF Now, Old, Inside
  <1>8. /\ \A t \in Inside : Waiting(t)' <=> Waiting(t)
        /\ NoneKept' <=> NoneKept
    BY <1>2, <1>6, Zenon DEF Waiting, NoneKept
  <1>9. \A b \in Inside : OthersWait(b)' <=> OthersWait(b)
    BY <1>6, <1>8, Zenon DEF OthersWait
  <1>10. Gathering => Gathering'
    BY <1>2, <1>6, <1>7, <1>8, Zenon DEF Gathering
  <1>11. Handing => Handing'
    BY <1>2, <1>6, <1>7, <1>8, Zenon DEF Handing
  <1>12. ASSUME NEW b \in Inside
         PROVE  /\ Opening(b) => Opening(b)'
                /\ Releasing(b) => Releasing(b)'
                /\ Passing(b) => Passing(b)'
    BY <1>2, <1>6, <1>7, <1>8, <1>9, Zenon DEF Opening, Releasing, Passing
  <1>13. Meets'
    <2>1. Meets
      BY Zenon DEF Library
    <2>2. \A t \in Workers : pc'[t] \in {<<"barrier", "ldr">>, <<"barrier", "str">>} => val'[t] = mem'.version
      BY <1>2, <2>1, FixupKeeps, Zenon DEF Meets
    <2> QED
      BY <1>2, <1>6, <1>10, <1>11, <1>12, <2>1, <2>2, Zenon DEF Meets
  <1>14. Arrived' = Arrived /\ Leaving' = Leaving
    BY <1>2, FixupKeeps, Zenon DEF Arrived, Leaving, Opened
  <1> QED
    BY <1>1, <1>3, <1>5, <1>13, <1>14, Zenon DEF Obeyed, Library, BarrierObeys

-----------------------------------------------------------------------------
(* The first state, and the signals that are kept                          *)

\* The objects start free, and nobody is at the barrier.
LEMMA LibraryStarts ==
    ASSUME SyncInit
    PROVE  /\ Library /\ sleep = [t \in Workers |-> NULL] /\ kept = [x \in UsedTags |-> 0]
           /\ LockPlaces = [t \in Workers |-> "out"] /\ SemPlaces = [t \in Workers |-> "out"]
           /\ Arrived = {} /\ Leaving = {}
  <1>1. /\ \A t \in Workers : pc[t] = <<"start", "mutex">> /\ reg[t] = 0 /\ val[t] = 0
        /\ mem.lock = 0 /\ mem.owner = NULL /\ mem.nested = 0 /\ mem.count = 0
        /\ DOMAIN pc = Workers \cup {irq_thread}
    BY Zenon DEF SyncInit
  <1>2. \A t \in Workers : tcb[t].state = "RUNNABLE"
    <2>1. \A t \in Workers : t \in Tcbs /\ t \notin Members(Spare)
      BY SyncAssumption, Zenon
    <2>2. \A t \in Workers : tcb[t] = LiveThread(t)
      BY <2>1, Zenon DEF SyncInit, Init
    <2> QED
      BY <2>2, Zenon DEF LiveThread, EmptyThread
  <1>3. sleep = [t \in Workers |-> NULL]
    BY <1>2, Zenon DEF sleep
  <1>4. kept = [x \in UsedTags |-> 0]
    <2>1. \A x \in UsedTags : PendingFor(S, x) = {}
      BY DEF SyncInit, Init, S, PendingFor
    <2>2. Cardinality({}) = 0
      BY FS_EmptySet, Zenon
    <2> QED
      BY <2>1, <2>2, Zenon DEF kept
  <1>5. Typed
    <2>1. mem \in Memories
      BY SyncAssumption DEF SyncInit, Memories
    <2>2. reg \in [Workers -> Int] /\ val \in [Workers -> Int]
      BY DEF SyncInit
    <2> QED
      BY <1>1, <1>4, <2>1, <2>2, Zenon DEF Typed, Points
  <1>6. EachThread
    BY <1>1, <1>3 DEF EachThread, Asleep, InBlock, HasRead
  <1>7. Counted
    <2>1. \A t \in Workers : t # NULL
      BY SyncAssumption, ImageAssumption, Zenon
    <2> QED
      BY <1>1, <2>1 DEF Counted, Owns, OwnerCount
  <1>8. Inside = {}
    BY <1>1 DEF Inside, InBarrier
  <1>9. Now = {} /\ Old = {} /\ Arrived = {} /\ Leaving = {}
    BY <1>1, <1>8, Zenon DEF Now, Old, Inside, Arrived, Leaving
  <1>10. Gathering
    <2>1. Cardinality({}) = 0 /\ 0 < expected
      BY FS_EmptySet, WorkersFinite
    <2> QED
      BY <1>1, <1>4, <1>8, <1>9, <2>1, Addresses, Zenon DEF Gathering, NoneKept
  <1>11. Meets
    BY <1>1, <1>8, <1>10 DEF Meets
  <1>12. LockPlaces = [t \in Workers |-> "out"] /\ SemPlaces = [t \in Workers |-> "out"]
    <2>1. ASSUME NEW t \in Workers
          PROVE  LockState(t) = "out" /\ SemState(t) = "out"
      <3>1. ~Sleeps(t, lock_tag) /\ ~Sleeps(t, sem_tag)
        BY <1>2, Zenon DEF Sleeps
      <3> QED
        BY <1>1, <3>1 DEF LockState, SemState
    <2> QED
      BY <2>1, Zenon DEF LockPlaces, SemPlaces
  <1> QED
    BY <1>3, <1>4, <1>5, <1>6, <1>7, <1>9, <1>11, <1>12, Zenon DEF Library

\* A signal is kept for a worker that is about to wait, and no two for one: so the
\* kernel's array has room.
LEMMA Bounded ==
    ASSUME Library, Protocol, pending \in Seq(UsedTags)
    PROVE  Len(pending) < max_tcbs
  <1> DEFINE W1 == {t \in Workers : LockState(t) = "wait"}
             W2 == {t \in Workers : SemState(t) = "wait"}
             P(x) == PendingFor(S, x)
             b0 == barrier_tag[0]
             b1 == barrier_tag[1]
  <1>1. /\ kept[lock_tag] = Cardinality(P(lock_tag)) /\ kept[sem_tag] = Cardinality(P(sem_tag))
        /\ kept[b0] = Cardinality(P(b0)) /\ kept[b1] = Cardinality(P(b1))
    BY Addresses, Zenon DEF kept
  <1>2. Len(pending) \in Nat /\ DOMAIN pending = 1 .. Len(pending)
    OBVIOUS
  <1>3. IsFiniteSet(1 .. Len(pending)) /\ Cardinality(1 .. Len(pending)) = Len(pending)
    <2>1. 1 \in Int /\ Len(pending) \in Int
      BY <1>2
    <2>2. /\ IsFiniteSet(1 .. Len(pending))
          /\ Cardinality(1 .. Len(pending)) = IF 1 > Len(pending) THEN 0 ELSE Len(pending) - 1 + 1
      BY <2>1, FS_Interval, Zenon
    <2> QED
      BY <1>2, <2>2
  <1>4. 1 .. Len(pending) = (P(lock_tag) \cup P(sem_tag)) \cup (P(b0) \cup P(b1))
    BY <1>2 DEF PendingFor, S, UsedTags
  <1>5. Len(pending) <= (kept[lock_tag] + kept[sem_tag]) + (kept[b0] + kept[b1])
    <2>1. /\ IsFiniteSet(P(lock_tag)) /\ IsFiniteSet(P(sem_tag)) /\ IsFiniteSet(P(b0)) /\ IsFiniteSet(P(b1))
          /\ IsFiniteSet(P(lock_tag) \cup P(sem_tag)) /\ IsFiniteSet(P(b0) \cup P(b1))
      <3> HIDE DEF P
      <3>1. ASSUME NEW A \in SUBSET (1 .. Len(pending))
            PROVE  IsFiniteSet(A)
        BY <1>3, FS_Subset, Zenon
      <3> QED
        BY <1>4, <3>1, Zenon
    <2> HIDE DEF P
    <2>2. ASSUME NEW A, NEW B, IsFiniteSet(A), IsFiniteSet(B)
          PROVE  /\ Cardinality(A \cup B) <= Cardinality(A) + Cardinality(B)
                 /\ Cardinality(A \cup B) \in Nat /\ Cardinality(A) \in Nat /\ Cardinality(B) \in Nat
      <3>1. /\ Cardinality(A \cup B) = Cardinality(A) + Cardinality(B) - Cardinality(A \cap B)
            /\ IsFiniteSet(A \cup B) /\ IsFiniteSet(A \cap B)
        <4>1. A \cap B \subseteq A
          BY Zenon
        <4> QED
          BY <2>2, <4>1, FS_Union, FS_Subset, Zenon
      <3>2. /\ Cardinality(A \cap B) \in Nat /\ Cardinality(A) \in Nat /\ Cardinality(B) \in Nat
            /\ Cardinality(A \cup B) \in Nat
        BY <2>2, <3>1, FS_CardinalityType, Zenon
      <3> QED
        BY <3>1, <3>2
    <2>3. /\ Cardinality(P(lock_tag) \cup P(sem_tag)) <= Cardinality(P(lock_tag)) + Cardinality(P(sem_tag))
          /\ Cardinality(P(lock_tag) \cup P(sem_tag)) \in Nat
          /\ Cardinality(P(lock_tag)) \in Nat /\ Cardinality(P(sem_tag)) \in Nat
      BY <2>1, <2>2, Zenon
    <2>4. /\ Cardinality(P(b0) \cup P(b1)) <= Cardinality(P(b0)) + Cardinality(P(b1))
          /\ Cardinality(P(b0) \cup P(b1)) \in Nat
          /\ Cardinality(P(b0)) \in Nat /\ Cardinality(P(b1)) \in Nat
      BY <2>1, <2>2, Zenon
    <2>5. Len(pending) <= Cardinality(P(lock_tag) \cup P(sem_tag)) + Cardinality(P(b0) \cup P(b1))
      BY <1>3, <1>4, <2>1, <2>2, Zenon
    <2> QED
      BY <1>1, <1>2, <2>3, <2>4, <2>5
  <1>6. kept[lock_tag] <= Cardinality(W1) /\ kept[sem_tag] <= Cardinality(W2)
    BY Zenon DEF Protocol
  <1>7. PICK W3 \in SUBSET Workers :
          /\ kept[b0] + kept[b1] <= Cardinality(W3)
          /\ \A t \in W3 : pc[t] = <<"barrier", "arrived">>
    <2>1. Cardinality({}) = 0 /\ \A t : Cardinality({t}) = 1
      BY FS_EmptySet, FS_Singleton, Zenon
    <2>2. CASE NoneKept
      <3>1. kept[b0] + kept[b1] <= Cardinality({})
        BY <2>1, <2>2 DEF NoneKept
      <3> QED
        BY <3>1
    <2>3. CASE Handing
      <3>1. PICK t \in Old : pc[t] = <<"barrier", "arrived">>
        BY <2>3, Zenon DEF Handing
      <3>2. {t} \in SUBSET Workers
        BY Zenon DEF Old, Inside
      <3>3. mem.version \in {0, 1}
        BY Zenon DEF Library, Typed, Memories
      <3>4. kept[b0] + kept[b1] = 1
        <4>1. CASE mem.version = 0
          <5>1. kept[b0] = 0
            BY <2>3, <4>1, Zenon DEF Handing
          <5>2. kept[barrier_tag[1 - 0]] = 1 /\ 1 - 0 = 1
            BY <2>3, <4>1 DEF Handing
          <5> QED
            BY <5>1, <5>2
        <4>2. CASE mem.version = 1
          <5>1. kept[b1] = 0
            BY <2>3, <4>2, Zenon DEF Handing
          <5>2. kept[barrier_tag[1 - 1]] = 1 /\ 1 - 1 = 0
            BY <2>3, <4>2 DEF Handing
          <5> QED
            BY <5>1, <5>2
        <4> QED
          BY <3>3, <4>1, <4>2, Zenon
      <3>5. kept[b0] + kept[b1] <= Cardinality({t})
        <4>1. Cardinality({t}) = 1
          BY <2>1, Zenon
        <4> QED
          BY <3>4, <4>1
      <3> QED
        BY <3>1, <3>2, <3>5, Zenon
    <2>4. NoneKept \/ Handing
      BY Zenon DEF Library, Meets, Gathering, Opening, Releasing, Passing
    <2> QED
      BY <2>2, <2>3, <2>4, Zenon
  <1>8. /\ W1 \in SUBSET Workers /\ W2 \in SUBSET Workers
        /\ W1 \cap W2 = {} /\ (W1 \cup W2) \cap W3 = {}
    <2>1. ASSUME NEW t \in Workers
          PROVE  /\ LockState(t) = "wait" => pc[t] = <<"futex_lock", "wait">>
                 /\ SemState(t) = "wait" => pc[t] = <<"down", "wait">>
      <3>1. pc[t] \in Points
        BY Zenon DEF Library, Typed
      <3> QED
        BY <3>1 DEF LockState, SemState, Points
    <2>2. /\ \A t \in W1 : pc[t][1] = "futex_lock"
          /\ \A t \in W2 : pc[t][1] = "down"
          /\ \A t \in W3 : pc[t][1] = "barrier"
      BY <1>7, <2>1
    <2>3. /\ \A t \in W1 : t \notin W2 /\ t \notin W3
          /\ \A t \in W2 : t \notin W3
      BY <2>2, Zenon
    <2> HIDE DEF W1, W2
    <2>4. W1 \cap W2 = {} /\ (W1 \cup W2) \cap W3 = {}
      BY <2>3, Zenon
    <2> QED
      BY <2>4, Zenon DEF W1, W2
  <1>9. Cardinality(W1) + Cardinality(W2) + Cardinality(W3) <= expected
    <2> HIDE DEF W1, W2
    <2>1. ASSUME NEW A \in SUBSET Workers, NEW B \in SUBSET Workers, A \cap B = {}
          PROVE  Cardinality(A \cup B) = Cardinality(A) + Cardinality(B)
      <3>1. IsFiniteSet(A) /\ IsFiniteSet(B) /\ Cardinality(A) \in Nat /\ Cardinality(B) \in Nat
        BY WorkersFinite, Zenon
      <3>2. Cardinality(A \cup B) = Cardinality(A) + Cardinality(B) - Cardinality(A \cap B)
        BY <3>1, FS_Union, Zenon
      <3>3. Cardinality(A \cap B) = 0
        <4>1. Cardinality({}) = 0
          BY FS_EmptySet, Zenon
        <4> QED
          BY <2>1, <4>1, Zenon
      <3> QED
        BY <3>1, <3>2, <3>3
    <2>2. W1 \cup W2 \in SUBSET Workers /\ (W1 \cup W2) \cup W3 \in SUBSET Workers
      BY <1>8, Zenon
    <2>3. /\ Cardinality(W1 \cup W2) = Cardinality(W1) + Cardinality(W2)
          /\ Cardinality((W1 \cup W2) \cup W3) = Cardinality(W1 \cup W2) + Cardinality(W3)
      BY <1>8, <2>1, <2>2, Zenon
    <2>4. Cardinality((W1 \cup W2) \cup W3) <= expected
      BY <2>2, WorkersFinite, Zenon
    <2> QED
      BY <2>3, <2>4, Zenon
  <1>10. expected < max_tcbs
    <2>1. Workers \subseteq Tcbs /\ irq_thread \in Tcbs /\ irq_thread \notin Workers /\ IsFiniteSet(Tcbs)
      BY SyncAssumption, ImageAssumption, Zenon
    <2>2. Workers # Tcbs
      BY <2>1, Zenon
    <2>3. /\ Cardinality(Workers) <= Cardinality(Tcbs)
          /\ Cardinality(Workers) = Cardinality(Tcbs) => Workers = Tcbs
          /\ Cardinality(Workers) \in Nat /\ Cardinality(Tcbs) \in Nat
      BY <2>1, FS_Subset, FS_CardinalityType, Zenon
    <2> QED
      BY <2>2, <2>3 DEF expected, max_tcbs
  <1>11. /\ Cardinality(W1) \in Nat /\ Cardinality(W2) \in Nat /\ Cardinality(W3) \in Nat
         /\ expected \in Nat /\ max_tcbs \in Nat
    BY <1>8, WorkersFinite, ImageAssumption, Zenon
  <1>12. kept[lock_tag] \in Nat /\ kept[sem_tag] \in Nat /\ kept[b0] \in Nat /\ kept[b1] \in Nat
    BY Addresses, Zenon DEF Library, Typed
  <1> HIDE DEF W1, W2, P, b0, b1
  <1> QED
    BY <1>2, <1>5, <1>6, <1>7, <1>9, <1>10, <1>11, <1>12

-----------------------------------------------------------------------------
(* The signals that are kept, counted                                      *)

\* A snapshot r with one signal for x less, or more, than s.
Fewer(s, r, x) ==
    /\ r.pending \in Seq(UsedTags)
    /\ Cardinality(PendingFor(s, x)) \in Nat \ {0}
    /\ Cardinality(PendingFor(r, x)) = Cardinality(PendingFor(s, x)) - 1
    /\ \A y : y # x => Cardinality(PendingFor(r, y)) = Cardinality(PendingFor(s, y))

More(s, r, x) ==
    /\ r.pending \in Seq(UsedTags)
    /\ Cardinality(PendingFor(r, x)) = Cardinality(PendingFor(s, x)) + 1
    /\ \A y : y # x => Cardinality(PendingFor(r, y)) = Cardinality(PendingFor(s, y))

\* i is the last signal for x, and r is s without it.
LastFor(s, x, i) == i \in PendingFor(s, x) /\ \A j \in PendingFor(s, x) : j <= i
Without(s, r, i) ==
    r.pending = [j \in 1 .. (Len(s.pending) - 1) |-> s.pending[IF j = i THEN Len(s.pending) ELSE j]]

\* sys_futex_wait() takes one signal for its tag, the last, and none for the others.
LEMMA SignalTaken ==
    ASSUME NEW s, s.pending \in Seq(UsedTags), NEW x, NEW i, LastFor(s, x, i), NEW r, Without(s, r, i)
    PROVE  Fewer(s, r, x)
  <1> DEFINE p == s.pending
             n == Len(p)
             q == r.pending
  <1>1. /\ n \in Nat /\ n >= 1 /\ DOMAIN p = 1 .. n /\ i \in 1 .. n /\ p[i] = x
        /\ \A j \in 1 .. n : p[j] \in UsedTags
    BY DEF PendingFor, LastFor
  <1>2. /\ DOMAIN q = 1 .. (n - 1)
        /\ \A j \in 1 .. (n - 1) : q[j] = p[IF j = i THEN n ELSE j]
        /\ q = [j \in 1 .. (n - 1) |-> p[IF j = i THEN n ELSE j]]
    BY Zenon DEF Without
  <1>3. q \in Seq(UsedTags)
    <2>1. \A j \in 1 .. (n - 1) : p[IF j = i THEN n ELSE j] \in UsedTags
      BY <1>1
    <2>2. n - 1 \in Nat
      BY <1>1
    <2> QED
      BY <1>2, <2>1, <2>2
  <1>4. ASSUME NEW y
        PROVE  IsFiniteSet(PendingFor(s, y)) /\ IsFiniteSet(PendingFor(r, y))
    <2>1. IsFiniteSet(1 .. n)
      BY <1>1, FS_Interval
    <2>2. PendingFor(s, y) \subseteq 1 .. n /\ PendingFor(r, y) \subseteq 1 .. n
      BY <1>1, <1>2 DEF PendingFor
    <2> QED
      BY <2>1, <2>2, FS_Subset, Zenon
  <1>5. /\ \A y : PendingFor(s, y) = {j \in 1 .. n : p[j] = y}
        /\ \A y : PendingFor(r, y) = {j \in 1 .. (n - 1) : q[j] = y}
    BY <1>1, <1>2, Zenon DEF PendingFor
  <1>6. PendingFor(r, x) = PendingFor(s, x) \ {i}
    <2>1. ASSUME NEW j \in 1 .. (n - 1), q[j] = x
          PROVE  p[j] = x /\ j # i
      <3>1. CASE j = i
        <4>1. p[n] = x /\ n \in 1 .. n
          BY <1>1, <1>2, <2>1, <3>1
        <4>2. n <= i
          BY <1>5, <4>1, Zenon DEF LastFor
        <4> QED
          BY <1>1, <3>1, <4>2
      <3> QED
        BY <1>1, <1>2, <2>1, <3>1, Zenon
    <2>2. ASSUME NEW j \in 1 .. n, p[j] = x, j # i
          PROVE  j \in 1 .. (n - 1) /\ q[j] = x
      <3>1. j <= i
        BY <1>5, <2>2, Zenon DEF LastFor
      <3>2. j \in 1 .. (n - 1)
        BY <1>1, <2>2, <3>1
      <3> QED
        BY <1>2, <2>2, <3>2, Zenon
    <2>3. \A j \in 1 .. (n - 1) : j \in 1 .. n
      BY <1>1
    <2> HIDE DEF p, q, n
    <2> QED
      BY <1>5, <2>1, <2>2, <2>3
  <1>7. ASSUME NEW y, y # x
        PROVE  Cardinality(PendingFor(r, y)) = Cardinality(PendingFor(s, y))
    <2>1. CASE p[n] # y \/ i = n
      <3>1. ASSUME NEW j \in 1 .. n, p[j] = y
            PROVE  j \in 1 .. (n - 1) /\ q[j] = y
        <4>1. j # i /\ j # n
          BY <1>1, <1>7, <2>1, <3>1, Zenon
        <4>2. j \in 1 .. (n - 1)
          BY <1>1, <4>1
        <4> QED
          BY <1>2, <3>1, <4>1, <4>2, Zenon
      <3>2. ASSUME NEW j \in 1 .. (n - 1), q[j] = y
            PROVE  j \in 1 .. n /\ p[j] = y
        <4>1. j # n /\ j \in 1 .. n
          BY <1>1
        <4> QED
          BY <1>2, <2>1, <3>2, <4>1, Zenon
      <3> HIDE DEF p, q, n
      <3>3. PendingFor(r, y) = PendingFor(s, y)
        BY <1>5, <3>1, <3>2, Zenon
      <3> QED
        BY <3>3, Zenon
    <2>2. CASE p[n] = y /\ i # n
      <3>1. ASSUME NEW j \in 1 .. n, p[j] = y, j # n
            PROVE  j \in 1 .. (n - 1) /\ q[j] = y
        <4>1. j # i
          BY <1>1, <1>7, <3>1, Zenon
        <4>2. j \in 1 .. (n - 1)
          BY <1>1, <3>1
        <4> QED
          BY <1>2, <3>1, <4>1, <4>2, Zenon
      <3>2. ASSUME NEW j \in 1 .. (n - 1), q[j] = y
            PROVE  j = i \/ (j \in 1 .. n /\ j # n /\ p[j] = y)
        <4>1. j # n /\ j \in 1 .. n
          BY <1>1
        <4> QED
          BY <1>2, <3>2, <4>1, Zenon
      <3>3. i \in 1 .. (n - 1) /\ q[i] = y /\ n \in 1 .. n
        BY <1>1, <1>2, <2>2
      <3>4. i \notin PendingFor(s, y) /\ n \in PendingFor(s, y)
        BY <1>1, <1>5, <1>7, <2>2, <3>3, Zenon
      <3> HIDE DEF p, q, n
      <3>5. PendingFor(r, y) = (PendingFor(s, y) \ {n}) \cup {i}
        BY <1>5, <3>1, <3>2, <3>3
      <3>6. /\ IsFiniteSet(PendingFor(s, y) \ {n})
            /\ Cardinality(PendingFor(s, y) \ {n}) = Cardinality(PendingFor(s, y)) - 1
        BY <1>4, <3>4, FS_RemoveElement, Zenon
      <3>7. i \notin PendingFor(s, y) \ {n}
        BY <3>4, Zenon
      <3>8. Cardinality(PendingFor(r, y)) = Cardinality(PendingFor(s, y) \ {n}) + 1
        BY <3>5, <3>6, <3>7, FS_AddElement, Zenon
      <3>9. Cardinality(PendingFor(s, y)) \in Nat
        BY <1>4, FS_CardinalityType, Zenon
      <3> QED
        BY <3>6, <3>8, <3>9
    <2> QED
      BY <2>1, <2>2, Zenon
  <1>8. /\ Cardinality(PendingFor(s, x)) \in Nat /\ Cardinality(PendingFor(s, x)) # 0
        /\ Cardinality(PendingFor(s, x) \ {i}) = Cardinality(PendingFor(s, x)) - 1
    <2>1. i \in PendingFor(s, x)
      BY Zenon DEF LastFor
    <2> QED
      BY <1>4, <2>1, FS_CardinalityType, FS_EmptySet, FS_RemoveElement, Zenon
  <1> QED
    BY <1>3, <1>6, <1>7, <1>8, Zenon DEF Fewer

\* sys_futex_signal() adds one.
LEMMA SignalAdded ==
    ASSUME NEW s, s.pending \in Seq(UsedTags), NEW x \in UsedTags, NEW r, r.pending = Append(s.pending, x)
    PROVE  More(s, r, x)
  <1> DEFINE p == s.pending
             n == Len(p)
             q == r.pending
  <1>1. /\ n \in Nat /\ DOMAIN p = 1 .. n /\ DOMAIN q = 1 .. (n + 1)
        /\ q[n + 1] = x /\ (\A j \in 1 .. n : q[j] = p[j]) /\ q \in Seq(UsedTags)
    OBVIOUS
  <1>2. IsFiniteSet(PendingFor(s, x))
    <2>1. IsFiniteSet(1 .. n)
      BY <1>1, FS_Interval
    <2>2. PendingFor(s, x) \subseteq 1 .. n
      BY <1>1, Zenon DEF PendingFor
    <2> QED
      BY <2>1, <2>2, FS_Subset, Zenon
  <1>3. /\ \A y : PendingFor(s, y) = {j \in 1 .. n : p[j] = y}
        /\ \A y : PendingFor(r, y) = {j \in 1 .. (n + 1) : q[j] = y}
    BY <1>1, Zenon DEF PendingFor
  <1>4. 1 .. (n + 1) = (1 .. n) \cup {n + 1} /\ n + 1 \notin 1 .. n
    BY <1>1
  <1> HIDE DEF p, q, n
  <1>5. PendingFor(r, x) = PendingFor(s, x) \cup {n + 1} /\ n + 1 \notin PendingFor(s, x)
    <2>1. \A j \in 1 .. (n + 1) : j \in 1 .. n \/ j = n + 1
      BY <1>4, Zenon
    <2>2. n + 1 \in 1 .. (n + 1) /\ \A j \in 1 .. n : j \in 1 .. (n + 1)
      BY <1>4, Zenon
    <2> QED
      BY <1>1, <1>3, <1>4, <2>1, <2>2, Zenon
  <1>6. ASSUME NEW y, y # x
        PROVE  PendingFor(r, y) = PendingFor(s, y)
    <2>1. \A j \in 1 .. (n + 1) : q[j] = y => j \in 1 .. n /\ p[j] = y
      BY <1>1, <1>4, <1>6, Zenon
    <2>2. \A j \in 1 .. n : p[j] = y => j \in 1 .. (n + 1) /\ q[j] = y
      BY <1>1, <1>4, Zenon
    <2> QED
      BY <1>3, <2>1, <2>2, Zenon
  <1>7. Cardinality(PendingFor(r, x)) = Cardinality(PendingFor(s, x)) + 1
    BY <1>2, <1>5, FS_AddElement, Zenon
  <1> QED
    BY <1>1, <1>6, <1>7, Zenon DEF q, More

\* The same of the signals for the objects.
LEMMA KeptTaken ==
    ASSUME pending \in Seq(UsedTags), NEW x \in UsedTags, NEW i \in PendingFor(S, x),
           \A j \in PendingFor(S, x) : j <= i,
           pending' = [j \in 1 .. (Len(pending) - 1) |-> pending[IF j = i THEN Len(pending) ELSE j]]
    PROVE  pending' \in Seq(UsedTags) /\ kept[x] > 0 /\ kept' = [kept EXCEPT ![x] = @ - 1]
  <1>1. PICK s, r : s = S /\ r = S'
    BY Zenon
  <1>2. s.pending = pending /\ r.pending = pending'
    BY <1>1, Zenon DEF S
  <1>3. /\ \A y : PendingFor(S, y) = PendingFor(s, y)
        /\ kept = [y \in UsedTags |-> Cardinality(PendingFor(s, y))]
        /\ kept' = [y \in UsedTags |-> Cardinality(PendingFor(r, y))]
    BY <1>1, Zenon DEF kept
  <1>4. /\ s.pending \in Seq(UsedTags) /\ i \in PendingFor(s, x)
        /\ \A j \in PendingFor(s, x) : j <= i
        /\ r.pending = [j \in 1 .. (Len(s.pending) - 1) |-> s.pending[IF j = i THEN Len(s.pending) ELSE j]]
    BY <1>1, <1>2, Zenon
  <1>5. /\ r.pending \in Seq(UsedTags)
        /\ Cardinality(PendingFor(s, x)) \in Nat \ {0}
        /\ Cardinality(PendingFor(r, x)) = Cardinality(PendingFor(s, x)) - 1
        /\ \A y : y # x => Cardinality(PendingFor(r, y)) = Cardinality(PendingFor(s, y))
    <2>1. LastFor(s, x, i) /\ Without(s, r, i)
      BY <1>4, Zenon DEF LastFor, Without
    <2>2. Fewer(s, r, x)
      BY <1>4, <2>1, SignalTaken, Zenon
    <2> QED
      BY <2>2, Zenon DEF Fewer
  <1>6. kept' = [kept EXCEPT ![x] = @ - 1]
    <2>1. \A y \in UsedTags : kept'[y] = [kept EXCEPT ![x] = @ - 1][y]
      BY <1>3, <1>5, Zenon
    <2> QED
      BY <1>3, <2>1, Zenon
  <1>7. kept[x] = Cardinality(PendingFor(s, x))
    BY <1>3, Zenon
  <1> QED
    BY <1>2, <1>5, <1>6, <1>7

\* And when one is added.
LEMMA KeptAdded ==
    ASSUME pending \in Seq(UsedTags), NEW x \in UsedTags, pending' = Append(pending, x)
    PROVE  pending' \in Seq(UsedTags) /\ kept' = [kept EXCEPT ![x] = @ + 1]
  <1>1. PICK s, r : s = S /\ r = S'
    BY Zenon
  <1>2. s.pending = pending /\ r.pending = pending'
    BY <1>1, Zenon DEF S
  <1>3. /\ kept = [y \in UsedTags |-> Cardinality(PendingFor(s, y))]
        /\ kept' = [y \in UsedTags |-> Cardinality(PendingFor(r, y))]
    BY <1>1, Zenon DEF kept
  <1>4. /\ r.pending \in Seq(UsedTags)
        /\ Cardinality(PendingFor(r, x)) = Cardinality(PendingFor(s, x)) + 1
        /\ \A y : y # x => Cardinality(PendingFor(r, y)) = Cardinality(PendingFor(s, y))
    <2>1. s.pending \in Seq(UsedTags) /\ r.pending = Append(s.pending, x)
      BY <1>2, Zenon
    <2>2. More(s, r, x)
      BY <2>1, SignalAdded, Zenon
    <2> QED
      BY <2>2, Zenon DEF More
  <1>5. \A y \in UsedTags : kept'[y] = [kept EXCEPT ![x] = @ + 1][y]
    BY <1>3, <1>4, Zenon
  <1> QED
    BY <1>2, <1>3, <1>4, <1>5, Zenon
=============================================================================
