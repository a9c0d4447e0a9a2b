------------------------------- MODULE Permits ------------------------------
(***************************************************************************)
(* A semaphore as its users see it: K permits, and the threads that hold   *)
(* one.  With K = 1 it is a lock.                                          *)
(***************************************************************************)
EXTENDS Integers

CONSTANTS Threads, K
VARIABLES inside,   \* the threads that hold a permit
          left      \* the permits nobody holds

Init == inside = {} /\ left = K

Enter(t) ==
    /\ t \notin inside /\ left > 0
    /\ inside' = inside \cup {t}
    /\ left' = left - 1

Leave(t) ==
    /\ t \in inside
    /\ inside' = inside \ {t}
    /\ left' = left + 1

Next == \E t \in Threads : Enter(t) \/ Leave(t)

Spec == Init /\ [][Next]_<<inside, left>>
=============================================================================
