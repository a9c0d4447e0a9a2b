------------------------------ MODULE MCThread ------------------------------
(***************************************************************************)
(* Three threads, one of them not created yet, that create and delete one  *)
(* another in the middle of IPC and while one of them holds a mutex.       *)
(***************************************************************************)
EXTENDS Kernel, TLC

CONSTANTS a1, b1, c1, m1

MCBoot == <<a1, b1>>
MCBootPrio == a1 :> 0 @@ b1 :> 1 @@ c1 :> 0
\* Every send and every receive blocks, every copy succeeds.
MCRequests == {a \in IpcArgs : ~a.overflow /\ ~a.handle /\ (a.to # NULL => a.send_blocks)
                               /\ (a.from # NULL => a.recv_blocks)}
=============================================================================
