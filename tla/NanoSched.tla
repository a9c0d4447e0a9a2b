----------------------------- MODULE NanoSched ------------------------------
(***************************************************************************)
(* The nanokernel's scheduler (nanokernel/src/c_schedule.c, and its ARM    *)
(* version schedule.S): strict priorities and no timeslices.  The current  *)
(* thread is on no ready list.                                             *)
(***************************************************************************)
EXTENDS NanoState

PrioOf(s, t) == s.tcb[t].priority
IsRunnable(s, t) == s.tcb[t].state = "RUNNABLE"
SetState(s, t, state) == [s EXCEPT !.tcb[t].state = state]
WaitFor(s, t, what) == [s EXCEPT !.tcb[t].waits_for = what]
SetRunnable(s, t) == WaitFor(SetState(s, t, "RUNNABLE"), t, NULL)

GetHighestPriority(s) == Max({-1} \cup {p \in Prio : s.ready[p] # <<>>})

\* enqueue(): at the end of the list of its priority.
Enqueue(s, t) ==
    Require([s EXCEPT !.ready[PrioOf(s, t)] = EnqueueListTail(@, t)], Unlinked(s, t),
            "enqueue: in another list")

\* do_schedule() and schedule(): the first thread of the highest priority, or idle.
DoSchedule(s) ==
    LET p == GetHighestPriority(s)
    IN IF p = -1 THEN [s EXCEPT !.next = idle]
       ELSE [s EXCEPT !.ready[p] = Tail(@), !.next = Head(s.ready[p])]

\* yield()
Yield(s) ==
    LET asserted == Require(s, IsRunnable(s, s.current), "yield: not runnable")
    IN IF GetHighestPriority(s) >= PrioOf(s, s.current)
       THEN DoSchedule(Enqueue(asserted, s.current)) ELSE asserted

\* deactivate_self()
DeactivateSelf(s, state) ==
    SetState(Require(s, IsRunnable(s, s.current), "deactivate_self: not runnable"),
             s.current, state)

DeactivateSelfSchedule(s, state) == DoSchedule(DeactivateSelf(s, state))
SleepOn(s, state, what) == WaitFor(DeactivateSelfSchedule(s, state), s.current, what)

\* activate(): without a schedule.
Activate(s, dest) ==
    Enqueue(SetRunnable(Require(s, ~IsRunnable(s, dest), "activate: runnable"), dest), dest)

\* Seeded fault: the current thread goes on whatever has woken up.
ActivateScheduleKeepsCurrent(s, dest) ==
    IF s.current = idle THEN [SetRunnable(s, dest) EXCEPT !.next = dest]
    ELSE Enqueue(SetRunnable(s, dest), dest)

\* activate_schedule(): the higher of dest and current runs, current if equal.
ActivateSchedule(s, dest) ==
    LET asserted == Require(s, /\ ~IsRunnable(s, dest)
                               /\ s.current # idle => IsRunnable(s, s.current), "activate_schedule")
        woken == SetRunnable(asserted, dest)
    IN IF s.current = idle THEN [woken EXCEPT !.next = dest]
       ELSE IF PrioOf(s, dest) > PrioOf(s, s.current)
       THEN [Enqueue(woken, s.current) EXCEPT !.next = dest]
       ELSE Enqueue(woken, dest)

-----------------------------------------------------------------------------

\* __kernel_main(): the first schedule.
KernelMain == current = NULL /\ Commit(DoSchedule(S))

SysYield == InUser /\ Commit(Yield(S))
=============================================================================
