------------------------------ MODULE MCMutex -------------------------------
(***************************************************************************)
(* Four threads of three priorities that lock, create and delete two       *)
(* mutexes.                                                                *)
(***************************************************************************)
EXTENDS Kernel, TLC

CONSTANTS low, mid, mid2, high, m1, m2

MCBoot == <<low, mid, mid2, high>>
MCBootPrio == low :> 0 @@ mid :> 1 @@ mid2 :> 1 @@ high :> 2
MutexSymmetry == Permutations(Mutexes)
=============================================================================
