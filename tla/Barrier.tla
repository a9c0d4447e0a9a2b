------------------------------- MODULE Barrier ------------------------------
(***************************************************************************)
(* What okn_barrier() promises: the threads meet, and none leaves before   *)
(* all have arrived.                                                       *)
(***************************************************************************)
EXTENDS FiniteSets

CONSTANT Threads
VARIABLES arrived,   \* the threads that wait for the others
          leaving    \* the threads that have met and not left yet

Init == arrived = {} /\ leaving = {}

\* The last thread to arrive opens the barrier for all of them.
Arrive(t) ==
    /\ t \notin arrived \cup leaving
    /\ IF arrived \cup {t} = Threads THEN arrived' = {} /\ leaving' = Threads
       ELSE arrived' = arrived \cup {t} /\ UNCHANGED leaving

Leave(t) ==
    /\ t \in leaving
    /\ leaving' = leaving \ {t}
    /\ UNCHANGED arrived

Spec == Init /\ [][\E t \in Threads : Arrive(t) \/ Leave(t)]_<<arrived, leaving>>
=============================================================================
