------------------------------ MODULE MCHybrid ------------------------------
(***************************************************************************)
(* Three threads, of three priorities that may change, that lock two       *)
(* hybrid mutexes, one inside of the other and in any order.               *)
(***************************************************************************)
EXTENDS Hybrid, TLC

CONSTANTS a1, b1, c1, m1, m2

MCBoot == <<a1, b1, c1>>
MCBootPrio == a1 :> 0 @@ b1 :> 1 @@ c1 :> 2
MutexSymmetry == Permutations(Mutexes)
=============================================================================
