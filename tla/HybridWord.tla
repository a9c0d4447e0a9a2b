----------------------------- MODULE HybridWord -----------------------------
(***************************************************************************)
(* What a hybrid mutex promises, as a protocol over the word in user       *)
(* memory and the holder and the waiters that the kernel keeps, without    *)
(* priorities and a scheduler.  A waiter that is given the mutex is woken  *)
(* at some later time, and meanwhile others may begin to wait.             *)
(***************************************************************************)
EXTENDS Integers

CONSTANTS Threads, NULL
VARIABLES holder,     \* the thread in the word, or NULL
          contended,  \* the word is marked as contended
          tracked,    \* the holder that the kernel keeps, or NULL
          waiting,    \* the threads blocked in the kernel
          woken,      \* the threads that were given the mutex and have yet to run
          inside      \* the threads between a lock and an unlock

vars == <<holder, contended, tracked, waiting, woken, inside>>

Sane == NULL \notin Threads

Outside(t) == t \notin waiting \cup woken \cup inside

Init ==
    /\ holder = NULL /\ contended = FALSE /\ tracked = NULL
    /\ waiting = {} /\ woken = {} /\ inside = {}

\* A free word is taken, by a compare-and-set or in hybrid_lock().
Take(t) ==
    /\ Outside(t) /\ holder = NULL
    /\ holder' = t /\ contended' = FALSE
    /\ inside' = inside \cup {t}
    /\ UNCHANGED <<tracked, waiting, woken>>

\* hybrid_lock() of a mutex that is held: the first to wait marks the word and
\* tells the kernel whom it waits for.
Wait(t) ==
    /\ Outside(t) /\ tracked # t
    /\ IF tracked = NULL THEN holder # NULL /\ contended' = TRUE /\ tracked' = holder
       ELSE UNCHANGED <<contended, tracked>>
    /\ waiting' = waiting \cup {t}
    /\ UNCHANGED <<holder, woken, inside>>

\* A word that is not marked is freed by a compare-and-set.
Drop(t) ==
    /\ t \in inside /\ holder = t /\ ~contended
    /\ holder' = NULL
    /\ inside' = inside \ {t}
    /\ UNCHANGED <<contended, tracked, waiting, woken>>

\* hybrid_unlock(): a waiter gets the mutex; the kernel tracks it, and the word
\* is marked, only while there are others.
HandOver(t) ==
    /\ t \in inside /\ tracked = t
    /\ \E u \in waiting :
         /\ waiting' = waiting \ {u}
         /\ woken' = woken \cup {u}
         /\ holder' = u /\ contended' = (waiting' # {})
         /\ tracked' = IF waiting' = {} THEN NULL ELSE u
    /\ inside' = inside \ {t}

\* hybrid_mutex_wakeup(): the word is written again.
Wakeup(t) ==
    /\ t \in woken
    /\ holder' = t /\ contended' = (waiting # {})
    /\ woken' = woken \ {t}
    /\ inside' = inside \cup {t}
    /\ UNCHANGED <<tracked, waiting>>

Next == \E t \in Threads : Take(t) \/ Wait(t) \/ Drop(t) \/ HandOver(t) \/ Wakeup(t)

Spec == Init /\ [][Next]_vars

-----------------------------------------------------------------------------

\* One thread at a time is inside, and none while the mutex is given to another.
AtMostOne == \A t, u \in inside \cup woken : t = u

\* Whoever waits is waiting for a thread that has or was given the mutex, and
\* whose compare-and-set will fail: it comes to the kernel and hands over.
WaitersAreSeen ==
    waiting # {} => /\ contended /\ holder \in inside \cup woken
                    /\ tracked = holder

\* To its users the mutex is a lock.
Users == INSTANCE Permits WITH K <- 1, left <- IF inside = {} THEN 1 ELSE 0
ImplementsPermits == Users!Spec
=============================================================================
