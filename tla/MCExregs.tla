------------------------------ MODULE MCExregs ------------------------------
(***************************************************************************)
(* A server a1 and two clients of a higher priority that talk to it, share *)
(* mutexes with it, and stop one another with SYS_EXCHANGE_REGISTERS.      *)
(***************************************************************************)
EXTENDS Kernel, TLC

CONSTANTS a1, b1, b2, m1

MCBoot == <<a1, b1, b2>>
MCBootPrio == a1 :> 0 @@ b1 :> 1 @@ b2 :> 2

\* Blocking sends between the server a1 and the client b1, and blocking receives
\* from the server or from anyone.
MCRequests == {a \in IpcArgs : /\ ~a.overflow /\ ~a.handle
                               /\ a.to \in {NULL, a1, b1} /\ a.from \in {NULL, a1, ANYTHREAD}
                               /\ a.to # NULL => a.send_blocks /\ a.from = NULL
                               /\ a.from # NULL => a.recv_blocks}

\* One operation at a time, with an abort of both phases or without.
MCControls == {c \in ExregsCtrl : c.abort \in {{}, {"send", "recv"}} /\ ~(c.haltflag /\ c.suspend)}

\* For threads that also share a mutex: Call to the server, an answer to its client
\* b1, an open wait; each operation by itself, and an abort with a halt.
FewRequests == {a \in IpcArgs : /\ ~a.overflow /\ ~a.handle /\ ~a.notify
                                /\ <<a.to, a.from>> \in {<<a1, a1>>, <<b1, NULL>>, <<NULL, ANYTHREAD>>}
                                /\ a.to # NULL => a.send_blocks
                                /\ a.from # NULL => a.recv_blocks}
FewControls == {c \in MCControls : /\ c.abort # {} \/ c.haltflag \/ c.suspend
                                   /\ c.abort # {} => ~c.suspend /\ c.halt = c.haltflag}

\* Only the server waits for anyone, only the clients send to it, and only it sends
\* to a client.
Roles ==
    \A t \in Threads :
        /\ tcb[t].state = "waiting_forever" /\ tcb[t].partner = ANYTHREAD => t = a1
        /\ tcb[t].state = "polling" => (t = a1) # (tcb[t].partner = a1)

RolesKept == Roles'

\* The threads send and wait, for messages or for notifications only.
NotifyRequests == {a \in IpcArgs : /\ ~a.overflow /\ ~a.handle /\ ~a.notify
                                   /\ a.to # NULL => a.send_blocks /\ a.from = NULL
                                   /\ a.from # NULL => a.from \in {ANYTHREAD, WAITNOTIFY} /\ a.recv_blocks}
=============================================================================
