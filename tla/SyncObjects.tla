----------------------------- MODULE SyncObjects ----------------------------
(***************************************************************************)
(* What the synchronisation objects of NanoSync promise: the lock and the  *)
(* semaphore implement FutexSemaphore, the barrier implements Barrier.     *)
(***************************************************************************)
EXTENDS NanoSync

Lock == INSTANCE FutexSemaphore WITH
    Threads <- Workers, K <- 1, count <- 1 - mem.lock,
    place <- [t \in Workers |-> LockState(t)], kept <- Cardinality(PendingFor(S, lock_tag))

Sem == INSTANCE FutexSemaphore WITH
    Threads <- Workers, K <- SemInit, count <- mem.sem,
    place <- [t \in Workers |-> SemState(t)], kept <- Cardinality(PendingFor(S, sem_tag))

\* The futex lock under the counted mutex follows the protocol of FutexSemaphore with
\* one permit, however its instructions, the interrupts and the kernel's scheduling
\* interleave: so no two threads are in a section and no wakeup is lost.
ImplementsLock == Lock!Spec

\* The semaphore follows the same protocol with SemInit permits.
ImplementsSemaphore == Sem!Spec

Meeting == INSTANCE Barrier WITH
    Threads <- Workers,
    arrived <- {t \in Workers : InBarrier(t) /\ ~Opened(t)},
    leaving <- {t \in Workers : InBarrier(t) /\ Opened(t)}

\* Nobody leaves okn_barrier() before everybody has entered it, round after round,
\* although fast threads are back at the barrier before slow ones have left it.
ImplementsBarrier == Meeting!Spec
=============================================================================
