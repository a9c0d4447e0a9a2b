---------------------------- MODULE MCInversion -----------------------------
(***************************************************************************)
(* Three threads of three priorities that lock two mutexes in order, so    *)
(* that no deadlock can arise, and whose critical sections are finite; and *)
(* a fourth that may use the processor as it likes.                        *)
(***************************************************************************)
EXTENDS Kernel, TLC

CONSTANTS low, mid, mid2, high, m1, m2

MCBoot == <<low, mid, mid2, high>>
MCBootPrio == low :> 0 @@ mid :> 1 @@ mid2 :> 1 @@ high :> 2

\* Between critical sections the threads sleep until a device interrupts.
MCRequests == {a \in IpcArgs : a.to = NULL /\ a.from = WAITNOTIFY /\ a.recv_blocks}

\* The locking discipline of the users: no thread waits for m1 while it holds m2,
\* and none sleeps while it holds either; mid2 uses none, and only competes.
Ordered ==
    \A t \in Threads :
        /\ tcb[t].waiting_for = <<"mutex", m1>> => mutex[m2].holder # t
        /\ tcb[t].state = "waiting_notify" => tcb[t].mutexes = <<>>
        /\ t = mid2 => tcb[t].mutexes = <<>> /\ tcb[t].state # "waiting_mutex"

MCSpec == Init /\ [][Next /\ Ordered']_vars /\ KernelFairness /\ UnlockFairness
=============================================================================
