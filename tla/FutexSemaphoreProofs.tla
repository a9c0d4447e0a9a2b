------------------------ MODULE FutexSemaphoreProofs ------------------------
(***************************************************************************)
(* The protocol of the library's locks and semaphores is correct for any   *)
(* number of threads and any positive number of permits: no more threads   *)
(* are inside than there are permits, nobody sleeps without a thread that  *)
(* will wake it, and the protocol implements the semaphore of Permits.     *)
(***************************************************************************)
EXTENDS FutexSemaphore, FiniteSetTheorems, TLAPS

Places == {"out", "wait", "asleep", "in", "signal"}

\* The variables have their types.
Typed == count \in Int /\ place \in [Threads -> Places] /\ kept \in Nat

\* The threads at p when f says where they are, and how many they are.
Those(f, p) == {t \in Threads : f[t] = p}
Size(f, p) == Cardinality(Those(f, p))

\* The word is what is left of the permits when everybody who is in or wants to be has
\* taken one; every permit is free, held, on its way in a signal, or kept by the kernel;
\* and nobody sleeps while a signal is kept.
Accounts(c, f, k) ==
    /\ c = K - Size(f, "wait") - Size(f, "asleep") - Size(f, "in")
    /\ c >= 0 => Size(f, "in") + Size(f, "signal") + k + c = K
    /\ c < 0 => Size(f, "in") + Size(f, "signal") + k = K
    /\ Size(f, "asleep") > 0 => k = 0

Inv == Typed /\ Accounts(count, place, kept)

\* The threads at a place are finitely many.
LEMMA SizeNat ==
    ASSUME IsFiniteSet(Threads), NEW f, NEW p
    PROVE  /\ IsFiniteSet(Those(f, p)) /\ Size(f, p) \in Nat
           /\ Size(f, p) = 0 <=> Those(f, p) = {}
<1>1. IsFiniteSet(Those(f, p))
  BY FS_Subset DEF Those
<1> QED
  BY <1>1, FS_CardinalityType, FS_EmptySet DEF Size

\* g is f after a thread has gone from p to q.
Moved(f, g, p, q) ==
    /\ g \in [Threads -> Places]
    /\ Size(f, p) > 0 /\ Size(g, p) = Size(f, p) - 1
    /\ Size(g, q) = Size(f, q) + 1
    /\ \A r \in Places \ {p, q} : Size(g, r) = Size(f, r)

\* A thread that goes from one place to another changes two numbers by one.
LEMMA MoveSizes ==
    ASSUME IsFiniteSet(Threads), NEW f \in [Threads -> Places], NEW t \in Threads,
           NEW p \in Places, NEW q \in Places, f[t] = p, p # q
    PROVE  Moved(f, [f EXCEPT ![t] = q], p, q)
<1> DEFINE g == [f EXCEPT ![t] = q]
<1>1. Those(g, p) = Those(f, p) \ {t} /\ t \in Those(f, p)
  BY DEF Those
<1>2. Those(g, q) = Those(f, q) \cup {t} /\ t \notin Those(f, q)
  BY DEF Those
<1>3. \A r \in Places \ {p, q} : Those(g, r) = Those(f, r)
  BY DEF Those
<1>4. g \in [Threads -> Places]
  OBVIOUS
<1>5. /\ IsFiniteSet(Those(f, p)) /\ IsFiniteSet(Those(f, q))
      /\ Size(f, p) \in Nat /\ (Size(f, p) = 0 <=> Those(f, p) = {})
  BY SizeNat
<1> HIDE DEF g
<1>6. Size(g, p) = Size(f, p) - 1
  BY <1>1, <1>5, FS_RemoveElement, Zenon DEF Size
<1>7. Size(f, p) > 0
  BY <1>1, <1>5
<1>8. Size(g, q) = Size(f, q) + 1
  BY <1>2, <1>5, FS_AddElement, Zenon DEF Size
<1>9. Moved(f, g, p, q)
  BY <1>3, <1>4, <1>6, <1>7, <1>8 DEF Size, Moved
<1> QED
  BY <1>9 DEF g

\* Nobody is in, asleep or about to signal at first, and all permits are free.
LEMMA InitInv == ASSUME Sane, Init PROVE Inv
<1>1. \A p \in Places \ {"out"} : Those(place, p) = {}
  BY DEF Init, Those
<1>2. \A p \in Places \ {"out"} : Size(place, p) = 0
  BY <1>1, FS_EmptySet DEF Size
<1> QED
  BY <1>2 DEF Init, Inv, Typed, Accounts, Places, Sane

\* What the proofs about the actions start from: the shape of the variables,
LEMMA Shape ==
    ASSUME Sane, Inv
    PROVE  /\ place \in [Threads -> Places] /\ IsFiniteSet(Threads)
           /\ \A r : Size(place, r) = 0 <=> In(r) = {}
<1>1. IsFiniteSet(Threads) /\ place \in [Threads -> Places]
  BY DEF Sane, Inv, Typed
<1>2. \A r : Size(place, r) = 0 <=> Those(place, r) = {}
  BY <1>1, SizeNat
<1> QED
  BY <1>1, <1>2 DEF Those, In

\* and the numbers.
LEMMA Numbers ==
    ASSUME Sane, Inv
    PROVE  /\ count \in Int /\ kept \in Nat /\ K \in Nat /\ K > 0
           /\ Size(place, "wait") \in Nat /\ Size(place, "asleep") \in Nat
           /\ Size(place, "in") \in Nat /\ Size(place, "signal") \in Nat
           /\ Accounts(count, place, kept)
<1>1. IsFiniteSet(Threads)
  BY DEF Sane
<1>2. \A r : Size(place, r) \in Nat
  BY <1>1, SizeNat
<1> QED
  BY <1>2 DEF Inv, Typed, Sane

\* The places by name, for the steps that move a thread between two of them.
LEMMA AllPlaces == {"out", "wait", "asleep", "in", "signal"} \subseteq Places
BY DEF Places

\* The decrement of okn_semaphore_down() or increment of okn_futex_lock() keeps the accounts.
LEMMA DownInv == ASSUME Sane, Inv, NEW t \in Threads, Down(t) PROVE Inv'
<1>1. place[t] = "out" /\ count' = count - 1 /\ kept' = kept
  BY DEF Down
<1>2. CASE count > 0
  <2>1. place' = [place EXCEPT ![t] = "in"]
    BY <1>2 DEF Down, Move
  <2>2. Moved(place, place', "out", "in")
    BY <1>1, <2>1, Shape, AllPlaces, MoveSizes, Zenon
  <2>3. /\ Size(place', "wait") = Size(place, "wait")
        /\ Size(place', "asleep") = Size(place, "asleep")
        /\ Size(place', "in") = Size(place, "in") + 1
        /\ Size(place', "signal") = Size(place, "signal")
    BY <2>2, AllPlaces DEF Moved
  <2>4. Accounts(count', place', kept')
    BY <1>1, <1>2, <2>3, Numbers DEF Accounts
  <2> QED
    BY <1>1, <1>2, <2>2, <2>4, Numbers DEF Inv, Typed, Moved
<1>3. CASE ~(count > 0)
  <2>1. place' = [place EXCEPT ![t] = "wait"]
    BY <1>3 DEF Down, Move
  <2>2. Moved(place, place', "out", "wait")
    BY <1>1, <2>1, Shape, AllPlaces, MoveSizes, Zenon
  <2>3. /\ Size(place', "wait") = Size(place, "wait") + 1
        /\ Size(place', "asleep") = Size(place, "asleep")
        /\ Size(place', "in") = Size(place, "in")
        /\ Size(place', "signal") = Size(place, "signal")
    BY <2>2, AllPlaces DEF Moved
  <2>4. count \in Int /\ count' < 0 /\ Size(place, "in") + Size(place, "signal") + kept = K
    BY <1>1, <1>3, Numbers DEF Accounts
  <2>5. Accounts(count', place', kept')
    BY <1>1, <2>3, <2>4, Numbers DEF Accounts
  <2> QED
    BY <1>1, <2>2, <2>5, Numbers DEF Inv, Typed, Moved
<1> QED
  BY <1>2, <1>3

\* sys_futex_wait() keeps them: it takes a kept signal, or the thread sleeps and none is kept.
LEMMA WaitInv == ASSUME Sane, Inv, NEW t \in Threads, Wait(t) PROVE Inv'
<1>1. place[t] = "wait" /\ count' = count
  BY DEF Wait
<1>2. CASE kept > 0
  <2>1. place' = [place EXCEPT ![t] = "in"] /\ kept' = kept - 1
    BY <1>2 DEF Wait, Move
  <2>2. Moved(place, place', "wait", "in")
    BY <1>1, <2>1, Shape, AllPlaces, MoveSizes, Zenon
  <2>3. /\ Size(place', "wait") = Size(place, "wait") - 1
        /\ Size(place', "asleep") = Size(place, "asleep")
        /\ Size(place', "in") = Size(place, "in") + 1
        /\ Size(place', "signal") = Size(place, "signal")
    BY <2>2, AllPlaces DEF Moved
  <2>4. kept' = kept - 1 /\ Size(place, "asleep") = 0
    BY <1>2, <2>1, Numbers DEF Accounts
  <2>5. Accounts(count', place', kept')
    BY <1>1, <2>3, <2>4, Numbers DEF Accounts
  <2> QED
    BY <1>1, <1>2, <2>2, <2>4, <2>5, Numbers DEF Inv, Typed, Moved
<1>3. CASE ~(kept > 0)
  <2>1. place' = [place EXCEPT ![t] = "asleep"] /\ kept' = kept
    BY <1>3 DEF Wait, Move
  <2>2. Moved(place, place', "wait", "asleep")
    BY <1>1, <2>1, Shape, AllPlaces, MoveSizes, Zenon
  <2>3. /\ Size(place', "wait") = Size(place, "wait") - 1
        /\ Size(place', "asleep") = Size(place, "asleep") + 1
        /\ Size(place', "in") = Size(place, "in")
        /\ Size(place', "signal") = Size(place, "signal")
    BY <2>2, AllPlaces DEF Moved
  <2>4. Accounts(count', place', kept')
    BY <1>1, <1>3, <2>1, <2>3, Numbers DEF Accounts
  <2> QED
    BY <1>1, <2>1, <2>2, <2>4, Numbers DEF Inv, Typed, Moved
<1> QED
  BY <1>2, <1>3

\* The increment of okn_semaphore_up() or decrement of okn_futex_unlock() keeps them.
LEMMA UpInv == ASSUME Sane, Inv, NEW t \in Threads, Up(t) PROVE Inv'
<1>1. place[t] = "in" /\ count' = count + 1 /\ kept' = kept
  BY DEF Up
<1>2. CASE count >= 0
  <2>1. place' = [place EXCEPT ![t] = "out"]
    BY <1>2 DEF Up, Move
  <2>2. Moved(place, place', "in", "out")
    BY <1>1, <2>1, Shape, AllPlaces, MoveSizes, Zenon
  <2>3. /\ Size(place', "wait") = Size(place, "wait")
        /\ Size(place', "asleep") = Size(place, "asleep")
        /\ Size(place', "in") = Size(place, "in") - 1
        /\ Size(place', "signal") = Size(place, "signal")
    BY <2>2, AllPlaces DEF Moved
  <2>4. Accounts(count', place', kept')
    BY <1>1, <1>2, <2>3, Numbers DEF Accounts
  <2> QED
    BY <1>1, <1>2, <2>2, <2>4, Numbers DEF Inv, Typed, Moved
<1>3. CASE ~(count >= 0)
  <2>1. place' = [place EXCEPT ![t] = "signal"]
    BY <1>3 DEF Up, Move
  <2>2. Moved(place, place', "in", "signal")
    BY <1>1, <2>1, Shape, AllPlaces, MoveSizes, Zenon
  <2>3. /\ Size(place', "wait") = Size(place, "wait")
        /\ Size(place', "asleep") = Size(place, "asleep")
        /\ Size(place', "in") = Size(place, "in") - 1
        /\ Size(place', "signal") = Size(place, "signal") + 1
    BY <2>2, AllPlaces DEF Moved
  <2>4. Accounts(count', place', kept')
    BY <1>1, <1>3, <2>3, Numbers DEF Accounts
  <2> QED
    BY <1>1, <2>2, <2>4, Numbers DEF Inv, Typed, Moved
<1> QED
  BY <1>2, <1>3

\* sys_futex_signal() keeps them: the permit goes to a sleeper, or the kernel keeps it.
LEMMA SignalInv == ASSUME Sane, Inv, NEW t \in Threads, Signal(t) PROVE Inv'
<1>1. place[t] = "signal" /\ count' = count
  BY DEF Signal
<1>2. CASE In("asleep") = {}
  <2>1. place' = [place EXCEPT ![t] = "out"] /\ kept' = kept + 1
    BY <1>2 DEF Signal, Move
  <2>2. Moved(place, place', "signal", "out")
    BY <1>1, <2>1, Shape, AllPlaces, MoveSizes, Zenon
  <2>3. Size(place, "asleep") = 0
    BY <1>2, Shape
  <2>4. /\ Size(place', "wait") = Size(place, "wait")
        /\ Size(place', "asleep") = Size(place, "asleep")
        /\ Size(place', "in") = Size(place, "in")
        /\ Size(place', "signal") = Size(place, "signal") - 1
    BY <2>2, AllPlaces DEF Moved
  <2>5. Accounts(count', place', kept')
    BY <1>1, <2>1, <2>3, <2>4, Numbers DEF Accounts
  <2> QED
    BY <1>1, <2>1, <2>2, <2>5, Numbers DEF Inv, Typed, Moved
<1>3. CASE In("asleep") # {}
  <2>1. PICK u \in In("asleep") : place' = [place EXCEPT ![t] = "out", ![u] = "in"]
    BY <1>3 DEF Signal
  <2> DEFINE mid == [place EXCEPT ![t] = "out"]
  <2>2. kept' = kept /\ u \in Threads /\ place[u] = "asleep"
    BY <1>3 DEF Signal, In
  <2>3. Moved(place, mid, "signal", "out")
    BY <1>1, Shape, AllPlaces, MoveSizes, Zenon
  <2>4. mid \in [Threads -> Places] /\ mid[u] = "asleep" /\ place' = [mid EXCEPT ![u] = "in"]
    BY <1>1, <2>1, <2>2, <2>3, Shape DEF Moved
  <2> HIDE DEF mid
  <2>5. Moved(mid, place', "asleep", "in")
    BY <2>2, <2>4, Shape, AllPlaces, MoveSizes, Zenon
  <2>6. /\ Size(place', "wait") = Size(place, "wait")
        /\ Size(place', "asleep") = Size(place, "asleep") - 1
        /\ Size(place', "in") = Size(place, "in") + 1
        /\ Size(place', "signal") = Size(place, "signal") - 1
    BY <2>3, <2>5, AllPlaces DEF Moved
  <2>7. Accounts(count', place', kept')
    BY <1>1, <2>2, <2>6, Numbers DEF Accounts
  <2> QED
    BY <1>1, <2>2, <2>5, <2>7, Numbers DEF Inv, Typed, Moved
<1> QED
  BY <1>2, <1>3

\* Every step of every thread keeps the accounts.
LEMMA NextInv == ASSUME Sane, Inv, [Next]_vars PROVE Inv'
<1>1. CASE UNCHANGED vars
  BY <1>1 DEF vars, Inv, Typed, Accounts, Size, Those
<1>2. CASE Next
  BY <1>2, DownInv, WaitInv, UpInv, SignalInv DEF Next
<1> QED
  BY <1>1, <1>2

\* No more signals are kept than threads are about to wait, the word is never more than
\* all permits, and a lock has a single holder: what the users of the protocol rely on.
LEMMA KeptForWaiters ==
    ASSUME Sane, Inv
    PROVE  /\ kept <= Cardinality(In("wait")) /\ count <= K
           /\ K = 1 => \A t, u \in Threads : place[t] = "in" /\ place[u] = "in" => t = u
<1>1. Size(place, "wait") = Cardinality(In("wait")) /\ Size(place, "in") = Cardinality(In("in"))
  BY DEF Size, Those, In
<1>2. kept <= Size(place, "wait") /\ count <= K /\ Size(place, "in") <= K
  BY Numbers DEF Accounts
<1>3. ASSUME NEW t \in Threads, NEW u \in Threads, place[t] = "in", place[u] = "in", t # u
      PROVE  Size(place, "in") > 1
  <2>1. IsFiniteSet(In("in")) /\ t \in In("in") /\ u \in In("in") \ {t}
    BY <1>3, FS_Subset DEF In, Sane
  <2>2. /\ IsFiniteSet(In("in") \ {t}) /\ Cardinality(In("in")) \in Nat
        /\ Cardinality(In("in") \ {t}) = Cardinality(In("in")) - 1
    BY <2>1, FS_RemoveElement, FS_CardinalityType
  <2>3. Cardinality(In("in") \ {t}) \in Nat /\ Cardinality(In("in") \ {t}) # 0
    BY <2>1, <2>2, FS_EmptySet, FS_CardinalityType
  <2> QED
    BY <1>1, <2>2, <2>3
<1> QED
  BY <1>1, <1>2, <1>3, Numbers

\* The permits are accounted for in every reachable state.
THEOREM AlwaysInv == ASSUME Sane PROVE Spec => []Inv
<1>1. Init => Inv
  BY InitInv
<1>2. Inv /\ [Next]_vars => Inv'
  BY NextInv
<1> QED
  BY <1>1, <1>2, PTL DEF Spec

\* For any number of threads and any positive number of permits, no more threads hold the
\* lock or semaphore of the library than it has permits: at most one holds a lock.
THEOREM MutualExclusion == ASSUME Sane PROVE Spec => []AtMostK
<1>1. Inv => AtMostK
  <2> SUFFICES ASSUME Inv PROVE AtMostK
    OBVIOUS
  <2>1. Size(place, "in") <= K
    BY Numbers DEF Accounts
  <2> QED
    BY <2>1 DEF AtMostK, Size, Those, In
<1> QED
  BY <1>1, AlwaysInv, PTL

\* For any number of threads and any positive number of permits, a thread that sleeps in
\* the kernel for the lock or semaphore is never left behind.
THEOREM NoLostWakeup == ASSUME Sane PROVE Spec => []SleepersAreWoken
<1>1. Inv => SleepersAreWoken
  <2> SUFFICES ASSUME Inv, In("asleep") # {}, In("in") = {}, In("signal") = {} PROVE FALSE
    BY DEF SleepersAreWoken
  <2>1. Size(place, "asleep") # 0 /\ Size(place, "in") = 0 /\ Size(place, "signal") = 0
    BY Shape
  <2> QED
    BY <2>1, Numbers DEF Accounts
<1> QED
  BY <1>1, AlwaysInv, PTL

\* A permit that is free, kept or in a signal is not held: a thread may enter.
LEMMA MayEnter ==
    ASSUME Sane, Inv, count > 0 \/ kept > 0 \/ In("signal") # {},
           NEW t \in Threads, t \notin In("in"), In("in")' = In("in") \cup {t}
    PROVE  Users!Next
<1>1. count > 0 \/ kept > 0 \/ Size(place, "signal") # 0
  BY Shape
<1>2. Size(place, "in") < K /\ Size(place, "in") \in Nat /\ K \in Nat
  <2>1. \/ count >= 0 /\ Size(place, "in") + Size(place, "signal") + kept + count = K
        \/ count < 0 /\ Size(place, "in") + Size(place, "signal") + kept = K
    BY Numbers DEF Accounts
  <2> QED
    BY <1>1, <2>1, Numbers
<1>3. Size(place, "in") = Cardinality(In("in")) /\ IsFiniteSet(In("in"))
  BY SizeNat, Shape, Zenon DEF Size, Those, In
<1>4. Cardinality(In("in"))' = Cardinality(In("in")) + 1
  BY <1>3, FS_AddElement
<1>5. K - Cardinality(In("in")) > 0 /\ (K - Cardinality(In("in")))' = K - Cardinality(In("in")) - 1
  BY <1>2, <1>3, <1>4
<1> QED
  BY <1>5 DEF Users!Next, Users!Enter

\* A thread that is in may leave: its permit is one of the semaphore's.
LEMMA MayLeave ==
    ASSUME Sane, Inv, NEW t \in Threads, t \in In("in"), In("in")' = In("in") \ {t}
    PROVE  Users!Next
<1>1. Size(place, "in") = Cardinality(In("in")) /\ IsFiniteSet(In("in"))
  BY SizeNat, Shape, Zenon DEF Size, Those, In
<1>2. Cardinality(In("in"))' = Cardinality(In("in")) - 1
  BY <1>1, FS_RemoveElement
<1>3. (K - Cardinality(In("in")))' = K - Cardinality(In("in")) + 1
  BY <1>1, <1>2, Numbers
<1> QED
  BY <1>3 DEF Users!Next, Users!Leave

\* Every step of the protocol is a step of a semaphore, or none.
LEMMA StepSimulation ==
    ASSUME Sane, Inv, [Next]_vars
    PROVE  [Users!Next]_<<In("in"), K - Cardinality(In("in"))>>
<1> DEFINE Simulated == Users!Next \/ UNCHANGED In("in")
<1>0. place \in [Threads -> Places]
  BY Shape
<1>1. ASSUME UNCHANGED vars PROVE Simulated
  BY <1>1 DEF vars, In
<1>2. ASSUME NEW t \in Threads, Down(t) PROVE Simulated
  <2>1. CASE count > 0
    <3>1. t \notin In("in") /\ In("in")' = In("in") \cup {t}
      BY <1>0, <1>2, <2>1 DEF Down, Move, In
    <3> QED
      BY <2>1, <3>1, MayEnter
  <2>2. CASE ~(count > 0)
    BY <1>0, <1>2, <2>2 DEF Down, Move, In
  <2> QED
    BY <2>1, <2>2
<1>3. ASSUME NEW t \in Threads, Wait(t) PROVE Simulated
  <2>1. CASE kept > 0
    <3>1. t \notin In("in") /\ In("in")' = In("in") \cup {t}
      BY <1>0, <1>3, <2>1 DEF Wait, Move, In
    <3> QED
      BY <2>1, <3>1, MayEnter
  <2>2. CASE ~(kept > 0)
    BY <1>0, <1>3, <2>2 DEF Wait, Move, In
  <2> QED
    BY <2>1, <2>2
<1>4. ASSUME NEW t \in Threads, Up(t) PROVE Simulated
  <2>1. t \in In("in") /\ In("in")' = In("in") \ {t}
    BY <1>0, <1>4 DEF Up, Move, In
  <2> QED
    BY <2>1, MayLeave
<1>5. ASSUME NEW t \in Threads, Signal(t) PROVE Simulated
  <2>1. t \in In("signal")
    BY <1>5 DEF Signal, In
  <2>2. CASE In("asleep") = {}
    <3>1. place[t] = "signal" /\ place' = [place EXCEPT ![t] = "out"]
      BY <1>5, <2>2 DEF Signal, Move
    <3> QED
      BY <1>0, <3>1 DEF In
  <2>3. CASE In("asleep") # {}
    <3>1. PICK u \in In("asleep") : place' = [place EXCEPT ![t] = "out", ![u] = "in"]
      BY <1>5, <2>3 DEF Signal
    <3>2. u \in Threads /\ u \notin In("in") /\ In("in")' = In("in") \cup {u}
      BY <1>0, <2>1, <3>1 DEF In
    <3> QED
      BY <2>1, <3>2, MayEnter
  <2> QED
    BY <2>2, <2>3
<1>6. Simulated
  BY <1>1, <1>2, <1>3, <1>4, <1>5 DEF Next
<1> QED
  BY <1>6

\* For any number of threads and any positive number of permits, the protocol of the
\* library's locks and semaphores implements a semaphore: a thread enters only when a
\* permit is left.
THEOREM Refinement == ASSUME Sane PROVE Spec => ImplementsPermits
<1>1. Init => Users!Init
  <2> SUFFICES ASSUME Init PROVE Users!Init
    OBVIOUS
  <2>1. In("in") = {} /\ Cardinality(In("in")) = 0 /\ K \in Nat
    BY FS_EmptySet DEF Init, In, Sane
  <2> QED
    BY <2>1 DEF Users!Init
<1>2. Inv /\ [Next]_vars => [Users!Next]_<<In("in"), K - Cardinality(In("in"))>>
  BY StepSimulation
<1> QED
  BY <1>1, <1>2, AlwaysInv, PTL DEF Spec, ImplementsPermits, Users!Spec
=============================================================================
