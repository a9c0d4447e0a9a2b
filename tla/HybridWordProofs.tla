-------------------------- MODULE HybridWordProofs --------------------------
(***************************************************************************)
(* Mutual exclusion, the visibility of waiters and the refinement of a     *)
(* lock, for the hybrid mutex's protocol and any number of threads.        *)
(***************************************************************************)
EXTENDS HybridWord, TLAPS

\* The inductive invariant: the thread in the word is the one that is inside or was
\* given the mutex, and the mark and the kernel's holder are there exactly while
\* threads wait.  Without the second part a compare-and-set could free the word of
\* a mutex that the kernel tracks, and without woken in the first another thread
\* could take it before the thread that was given it runs.
Inv ==
    /\ waiting \subseteq Threads /\ woken \subseteq Threads /\ inside \subseteq Threads
    /\ holder \in Threads \cup {NULL}
    /\ inside \cup woken = (IF holder = NULL THEN {} ELSE {holder})
    /\ inside \cap woken = {}
    /\ holder \notin waiting
    /\ contended = (waiting # {})
    /\ tracked = (IF waiting = {} THEN NULL ELSE holder)
    /\ waiting # {} => holder # NULL

\* No thread has or waits for the mutex at first.
LEMMA InitInv == Init => Inv
BY Zenon DEF Init, Inv

\* Every step of a lock, an unlock, a wait or a wakeup keeps the invariant.
LEMMA NextInv ==
    ASSUME Sane, Inv, [Next]_vars
    PROVE  Inv'
<1> USE DEF Inv, Sane, Outside
<1>1. ASSUME NEW t \in Threads, Take(t) PROVE Inv'
  BY <1>1, Zenon DEF Take
<1>2. ASSUME NEW t \in Threads, Wait(t) PROVE Inv'
  BY <1>2, Zenon DEF Wait
<1>3. ASSUME NEW t \in Threads, Drop(t) PROVE Inv'
  BY <1>3, Zenon DEF Drop
<1>4. ASSUME NEW t \in Threads, HandOver(t) PROVE Inv'
  BY <1>4 DEF HandOver
<1>5. ASSUME NEW t \in Threads, Wakeup(t) PROVE Inv'
  BY <1>5 DEF Wakeup
<1>6. CASE UNCHANGED vars
  BY <1>6 DEF vars
<1> QED
  BY <1>1, <1>2, <1>3, <1>4, <1>5, <1>6 DEF Next

\* The invariant holds in every reachable state.
THEOREM AlwaysInv == ASSUME Sane PROVE Spec => []Inv
BY InitInv, NextInv, PTL DEF Spec

\* The hybrid mutex excludes: two threads are never inside at once, however the
\* compare-and-sets of libs/mutex and the kernel's hybrid operations interleave.
THEOREM MutualExclusion == ASSUME Sane PROVE Spec => []AtMostOne
<1>1. Inv => AtMostOne
  BY DEF Inv, AtMostOne
<1> QED
  BY <1>1, AlwaysInv, PTL

\* No waiter of a hybrid mutex is overlooked: while a thread is blocked in the kernel,
\* the word is marked, so that the unlock of its holder cannot bypass the kernel.
THEOREM WaitersAlwaysSeen == ASSUME Sane PROVE Spec => []WaitersAreSeen
<1>1. Inv => WaitersAreSeen
  BY Zenon DEF Inv, WaitersAreSeen
<1> QED
  BY <1>1, AlwaysInv, PTL

\* Every step of the protocol is a step of a lock, or none.
LEMMA StepSimulation ==
    ASSUME Sane, Inv, [Next]_vars
    PROVE  [Users!Next]_<<inside, IF inside = {} THEN 1 ELSE 0>>
<1> USE DEF Users!Next, Users!Enter, Users!Leave
<1>1. ASSUME NEW t \in Threads, Take(t) PROVE Users!Next
  <2>1. inside = {} /\ inside' = {t}
    BY <1>1 DEF Take, Inv
  <2> QED
    BY <2>1
<1>2. ASSUME NEW t \in Threads, Wait(t) PROVE UNCHANGED inside
  BY <1>2 DEF Wait
<1>3. ASSUME NEW t \in Threads, Drop(t) \/ HandOver(t) PROVE Users!Next
  <2>1. inside = {t} /\ inside' = {}
    BY <1>3 DEF Drop, HandOver, Inv
  <2> QED
    BY <2>1
<1>4. ASSUME NEW t \in Threads, Wakeup(t) PROVE Users!Next
  <2>1. inside = {} /\ inside' = {t}
    BY <1>4 DEF Wakeup, Inv
  <2> QED
    BY <2>1
<1>5. CASE UNCHANGED vars
  BY <1>5 DEF vars
<1> QED
  BY <1>1, <1>2, <1>3, <1>4, <1>5 DEF Next

\* For any number of threads the hybrid mutex's protocol implements a lock.
THEOREM Refinement == ASSUME Sane PROVE Spec => ImplementsPermits
<1>1. Init => Users!Init
  BY DEF Init, Users!Init
<1>2. Inv /\ [Next]_vars => [Users!Next]_<<inside, IF inside = {} THEN 1 ELSE 0>>
  BY StepSimulation
<1> QED
  BY <1>1, <1>2, AlwaysInv, PTL DEF Spec, ImplementsPermits, Users!Spec
=============================================================================
