--------------------------- MODULE FutexSemaphore ---------------------------
(***************************************************************************)
(* What a futex lock and a semaphore of the nanokernel's library promise,  *)
(* as a protocol over a word, the kernel's sleepers and the signals it has *)
(* kept.  The word counts the permits that are left, less the threads that *)
(* want one; a thread that finds none waits in the kernel, and a thread    *)
(* that gives a permit back while others want it signals.  The lock is the *)
(* protocol with one permit (its word is 1 - count).                       *)
(***************************************************************************)
EXTENDS Integers, FiniteSets

CONSTANTS Threads, K
VARIABLES count,   \* the word
          place,   \* where each thread is
          kept     \* signals that nobody has waited for yet

vars == <<count, place, kept>>

Sane == IsFiniteSet(Threads) /\ K \in Nat \ {0}

In(p) == {t \in Threads : place[t] = p}
Move(t, p) == place' = [place EXCEPT ![t] = p]

Init ==
    /\ count = K
    /\ place = [t \in Threads |-> "out"]
    /\ kept = 0

\* The word is decremented: a thread that finds a permit is in.
Down(t) ==
    /\ place[t] = "out"
    /\ count' = count - 1
    /\ Move(t, IF count > 0 THEN "in" ELSE "wait")
    /\ UNCHANGED kept

\* The wait takes a signal that was kept, or sleeps.
Wait(t) ==
    /\ place[t] = "wait"
    /\ IF kept > 0 THEN kept' = kept - 1 /\ Move(t, "in")
       ELSE kept' = kept /\ Move(t, "asleep")
    /\ UNCHANGED count

\* The word is incremented: a thread signals if others want the permit.
Up(t) ==
    /\ place[t] = "in"
    /\ count' = count + 1
    /\ Move(t, IF count >= 0 THEN "out" ELSE "signal")
    /\ UNCHANGED kept

\* The signal wakes a sleeper, or is kept.
Signal(t) ==
    /\ place[t] = "signal"
    /\ IF In("asleep") = {} THEN kept' = kept + 1 /\ Move(t, "out")
       ELSE /\ \E u \in In("asleep") : place' = [place EXCEPT ![t] = "out", ![u] = "in"]
            /\ kept' = kept
    /\ UNCHANGED count

Next == \E t \in Threads : Down(t) \/ Wait(t) \/ Up(t) \/ Signal(t)

Spec == Init /\ [][Next]_vars

-----------------------------------------------------------------------------

\* No more threads are inside than there are permits.
AtMostK == Cardinality(In("in")) <= K

\* No wakeup is lost: while a thread sleeps, another is inside, and will give its permit
\* back, or is about to signal.
SleepersAreWoken == In("asleep") # {} => In("in") \cup In("signal") # {}

\* To its users the protocol is a semaphore with K permits.
Users == INSTANCE Permits WITH inside <- In("in"), left <- K - Cardinality(In("in"))
ImplementsPermits == Users!Spec
=============================================================================
