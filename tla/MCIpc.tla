------------------------------- MODULE MCIpc --------------------------------
(***************************************************************************)
(* Three threads of two priorities, two of which accept notifications,     *)
(* that send each other messages and notifications while devices interrupt *)
(* them.                                                                   *)
(***************************************************************************)
EXTENDS Kernel, TLC

CONSTANTS a1, a2, b1

MCBoot == <<a1, a2, b1>>
MCBootPrio == a1 :> 0 @@ a2 :> 0 @@ b1 :> 1

\* A thread that has to wait blocks, but for a send or a receive on its own.  A send
\* that goes on to receive waits for a thread (Call), or is a reply by handle or a
\* notification that waits for anyone.  A copy that fails is a send on its own.
MCRequests == {a \in IpcArgs : /\ a.overflow => a.from = NULL /\ ~a.handle
                               /\ a.to # NULL /\ a.from # NULL =>
                                    /\ a.recv_blocks
                                    /\ \/ a.from \in Threads /\ a.send_blocks
                                       \/ a.from = ANYTHREAD /\ a.handle
                                       \/ a.from \in {ANYTHREAD, WAITNOTIFY} /\ a.notify}
=============================================================================
