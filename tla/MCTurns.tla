------------------------------ MODULE MCTurns -------------------------------
(***************************************************************************)
(* Three threads of one priority that lock a mutex, talk and give their    *)
(* time to one another, while the timer ends their timeslices.             *)
(***************************************************************************)
EXTENDS Kernel, TLC

CONSTANTS a1, b1, b2, m1

MCBoot == <<a1, b1, b2>>
MCBootPrio == a1 :> 1 @@ b1 :> 1 @@ b2 :> 1

MCSpec == Spec /\ KernelFairness /\ TimerFairness

\* Copies succeed, and a thread that has to wait blocks.
MCRequests == {a \in IpcArgs : /\ ~a.overflow /\ ~a.handle /\ ~a.notify
                               /\ a.to # NULL => a.send_blocks
                               /\ a.from # NULL => a.recv_blocks}
=============================================================================
