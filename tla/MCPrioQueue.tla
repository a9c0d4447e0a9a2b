---------------------------- MODULE MCPrioQueue -----------------------------
(***************************************************************************)
(* PrioQueue on three threads and seven priorities in words of three bits: *)
(* two full bitmap words, a last word that holds a single priority, and an *)
(* index word that is used to its last bit.                                *)
(***************************************************************************)
EXTENDS PrioQueue
=============================================================================
