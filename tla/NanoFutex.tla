----------------------------- MODULE NanoFutex ------------------------------
(***************************************************************************)
(* Futexes (nanokernel/src/sys_futex.c).  The waiting threads are chained  *)
(* by the hash of their tag, so a chain may mix tags; a signal that finds  *)
(* no waiting thread is kept in an array of max_tcbs entries.              *)
(***************************************************************************)
EXTENDS NanoSched

\* enqueue_futex(): before the first thread of a lower priority.
EnqueueFutex(s, q, t) ==
    LET lower == {i \in DOMAIN q : PrioOf(s, t) > PrioOf(s, q[i])}
    IN LinkAt(q, Min(lower \cup {Len(q) + 1}), t)

\* The places of the pending signals for tag, and of the threads that wait for it.
PendingFor(s, tag) == {i \in DOMAIN s.pending : s.pending[i] = tag}
WaitersFor(s, tag) ==
    {i \in DOMAIN s.chain[hash_tag[tag]] : s.tcb[s.chain[hash_tag[tag]][i]].waits_for = tag}

\* A pending signal is taken: the last of the array moves to its place.
TakePending(s, i) ==
    LET n == Len(s.pending)
    IN [s EXCEPT !.pending = [j \in 1 .. (n - 1) |-> @[IF j = i THEN n ELSE j]]]

\* Seeded fault: the wait does not look for a signal that came before it.
FutexWaitAlwaysSleeps(s, tag) ==
    [SleepOn(s, "WAIT_FUTEX", tag) EXCEPT !.chain[hash_tag[tag]] = EnqueueFutex(s, @, s.current)]

\* sys_futex_wait()
FutexWait(s, tag) ==
    IF PendingFor(s, tag) # {} THEN TakePending(s, Max(PendingFor(s, tag)))
    ELSE [SleepOn(s, "WAIT_FUTEX", tag)
          EXCEPT !.chain[hash_tag[tag]] = EnqueueFutex(s, @, s.current)]

\* sys_futex_signal() with signal_futex(): wake the first thread with this tag, or keep
\* the signal; ENOMEM when the array is full.
FutexSignal(s, tag) ==
    LET h == hash_tag[tag]
        i == Min(WaitersFor(s, tag))
    IN IF WaitersFor(s, tag) # {}
       THEN ActivateSchedule([s EXCEPT !.chain[h] = Unlink(@, i)], s.chain[h][i])
       ELSE IF Len(s.pending) >= max_tcbs THEN s
       ELSE [s EXCEPT !.pending = Append(@, tag)]

-----------------------------------------------------------------------------

SysFutexWait(tag) == InUser /\ Commit(FutexWait(S, tag))

SysFutexSignal(tag) == InUser /\ Commit(FutexSignal(S, tag))
=============================================================================
