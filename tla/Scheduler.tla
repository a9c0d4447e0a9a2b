----------------------------- MODULE Scheduler ------------------------------
(***************************************************************************)
(* scheduler_t (pistachio/include/schedule.h, src/schedule.cc): who runs   *)
(* next.  The ready queue is the abstract one of ReadyQueue, which         *)
(* prio_queue_t implements (module PrioQueue).  Timeslices are not         *)
(* counted: a timer tick may or may not end the active schedule's slice.   *)
(***************************************************************************)
EXTENDS KernelState, FiniteSetsExt

EffectivePrio(s, t) == s.tcb[t].effective_prio
IsRunnable(s, t) == s.tcb[t].state = "running"
IsReady(s, t) == \E p \in Prio : t \in Members(s.sched.ready[p])

GetHighestPriority(s) == Max({-1} \cup {p \in Prio : s.sched.ready[p] # <<>>})

\* Seeded fault: a thread becomes ready before the others of its priority.
EnqueueAtHead(s, t) == [s EXCEPT !.sched.ready[EffectivePrio(s, t)] = <<t>> \o @]

\* enqueue() and dequeue(); both assert that they change something.
Enqueue(s, t) ==
    Require([s EXCEPT !.sched.ready[EffectivePrio(s, t)] = EnqueueListTail(@, t)],
            ~IsReady(s, t), "enqueue of a queued thread")

Dequeue(s, t) ==
    IF t \in Members(s.sched.ready[EffectivePrio(s, t)])
    THEN [s EXCEPT !.sched.ready[EffectivePrio(s, t)] = DequeueList(@, t)]
    ELSE Require(s, FALSE, "dequeue of a thread that is not queued")

\* set_effective_priority(): a ready thread moves to the list of its new priority.
SetEffectivePriority(s, t, prio) ==
    LET changed(r) == [r EXCEPT !.tcb[t].effective_prio = prio]
    IN IF IsReady(s, t) THEN Enqueue(changed(Dequeue(s, t)), t) ELSE changed(s)

SetState(s, t, state) == [s EXCEPT !.tcb[t].state = state]
SetCont(s, t, c) == [s EXCEPT !.tcb[t].cont = c]

\* ACTIVATE_CONTINUATION(): the current thread goes on with c.
ActivateContinuation(s, c) == SetCont(s, s.sched.current, c)

SwitchTo(s, t, schedule) == [s EXCEPT !.sched.current = t, !.sched.active_schedule = schedule]

\* release_and_reschedule_tcb(): a thread that can run becomes ready.
Reschedule(s, t) == IF IsRunnable(s, t) /\ t # idle THEN Enqueue(s, t) ELSE s

\* Seeded fault: the order stays marked as given up.
ScheduleKeepsViolated(s, cont, round_robin) ==
    LET cur == s.sched.current
        max_prio == GetHighestPriority(s)
        next == IF max_prio >= 0 THEN Head(s.sched.ready[max_prio]) ELSE idle
        picked == IF max_prio >= 0 THEN Dequeue(s, next) ELSE s
    IN IF IsRunnable(s, cur) /\ EffectivePrio(s, cur) >= max_prio
       THEN ActivateContinuation(s, cont)
       ELSE SwitchTo(Reschedule(SetCont(picked, cur, cont), cur), next, next)

\* schedule(): current goes on if nobody ready is above it (or beside it, when
\* its turn is over); otherwise the highest ready thread, or the idle thread.
Schedule(s0, cont, round_robin) ==
    LET cur == s0.sched.current
        s == Require([s0 EXCEPT !.sched.invariants_violated = FALSE],
                     ~IsReady(s0, cur), "schedule: current is on the ready queue")
        max_prio == GetHighestPriority(s)
        stays == IsRunnable(s, cur)
                 /\ \/ EffectivePrio(s, cur) > max_prio
                    \/ ~round_robin /\ EffectivePrio(s, cur) = max_prio
        next == IF max_prio >= 0 THEN Head(s.sched.ready[max_prio]) ELSE idle
        picked == IF max_prio >= 0 THEN Dequeue(s, next) ELSE s
    IN IF stays
       THEN ActivateContinuation(s, cont)
       ELSE SwitchTo(Reschedule(SetCont(picked, cur, cont), cur), next, next)

\* fast_schedule() without a new thread: current goes on if it can.
FastSchedule(s, can_schedule_current, cont) ==
    IF can_schedule_current /\ ~s.sched.invariants_violated
    THEN ActivateContinuation(s, cont)
    ELSE Schedule(s, cont, FALSE)

\* should_schedule_thread(): the choice between current and a thread that wakes up.
ShouldScheduleThread(s, t, can_schedule_current) ==
    LET cur == s.sched.current
    IN IF s.sched.invariants_violated THEN "full_schedule"
       ELSE IF can_schedule_current /\ EffectivePrio(s, cur) >= EffectivePrio(s, t)
            THEN "run_current"
       ELSE IF EffectivePrio(s, t) >= EffectivePrio(s, cur)
               \/ EffectivePrio(s, t) >= GetHighestPriority(s)
            THEN "run_new"
       ELSE "full_schedule"

\* fast_schedule() with the thread t that has become runnable.
FastScheduleNew(s0, can_schedule_current, t, cont) ==
    LET cur == s0.sched.current
        s == Require(s0, cur # t, "fast_schedule: current is the new thread")
        action == ShouldScheduleThread(s, t, can_schedule_current)
    IN CASE action = "run_new" -> SwitchTo(Reschedule(SetCont(s, cur, cont), cur), t, t)
         [] action = "run_current" -> ActivateContinuation(Reschedule(s, t), cont)
         [] action = "full_schedule" -> Schedule(Reschedule(s, t), cont, FALSE)

Activate(s, t) ==
    Reschedule(SetState(Require(s, ~IsRunnable(s, t), "activate: runnable"), t, "running"), t)

\* deactivate(): the thread leaves the ready queue, if it is on it.
Deactivate(s, t, state) ==
    LET stopped == SetState(Require(s, IsRunnable(s, t), "deactivate: not runnable"), t, state)
    IN IF IsReady(s, t) THEN Dequeue(stopped, t) ELSE stopped

ActivateSched(s, t, cont) ==
    FastScheduleNew(SetState(Require(s, ~IsRunnable(s, t), "activate_sched: runnable"), t, "running"),
                    TRUE, t, cont)

\* deactivate_sched() of the current thread, its only use.
DeactivateSched(s, state, cont) ==
    FastSchedule(SetState(s, s.sched.current, state), FALSE, cont)

\* deactivate_activate_sched() of the current thread, its only use.
DeactivateActivateSched(s, state, t, cont) ==
    FastScheduleNew(SetState(SetState(Require(s, ~IsRunnable(s, t), "activated twice"),
                                      s.sched.current, state),
                             t, "running"),
                    FALSE, t, cont)

\* Seeded fault: the switch does not mark the order as given up.
ContextSwitchUnmarked(s, dest, state, cont) ==
    LET cur == s.sched.current
        stopped == SetState(SetState(s, cur, state), dest, "running")
    IN SwitchTo(Reschedule(SetCont(stopped, cur, cont), cur), dest, s.sched.active_schedule)

\* context_switch(): dest runs at once, whatever is ready.
ContextSwitch(s, dest, state, cont) ==
    LET cur == s.sched.current
        stopped == SetState(SetState(s, cur, state), dest, "running")
    IN SwitchTo(Reschedule(SetCont([stopped EXCEPT !.sched.invariants_violated = TRUE], cur, cont), cur),
                dest, s.sched.active_schedule)

\* end_of_timeslice(): a schedule that is not current's goes to the tail of its list.
EndOfTimeslice(s, schedule) ==
    IF schedule # s.sched.current /\ IsReady(s, schedule)
    THEN Enqueue(Dequeue(s, schedule), schedule)
    ELSE s

Yield(s, cont) == Schedule(EndOfTimeslice(s, s.sched.active_schedule), cont, TRUE)

\* Seeded fault: the thread that gets the time stays on the ready queue.
DonateKeepsQueued(s, dest, cont) ==
    LET cur == s.sched.current
    IN IF ~IsRunnable(s, dest) \/ ~IsReady(s, dest)
       THEN Yield(s, cont)
       ELSE SwitchTo(Enqueue(SetCont(s, cur, cont), cur), dest, s.sched.active_schedule)

\* donate(): switch to a ready thread on current's schedule, or yield.
Donate(s, dest, cont) ==
    LET cur == s.sched.current
    IN IF ~IsRunnable(s, dest) \/ ~IsReady(s, dest)
       THEN Yield(s, cont)
       ELSE SwitchTo(Enqueue(SetCont(Dequeue(s, dest), cur, cont), cur),
                     dest, s.sched.active_schedule)

-----------------------------------------------------------------------------
(* System calls and interrupts                                             *)

\* init_all_threads(): the first schedule of the system.
InitAllThreads ==
    Continue("init_all_threads") /\ Commit(Schedule(S, "idle_thread", FALSE))

\* SYS_THREAD_SWITCH(NILTHREAD)
SysYield ==
    Trap("yield") /\ Commit(Yield(S, "user"))

\* SYS_THREAD_SWITCH(dest): no work for current itself or an invalid thread.
SysThreadSwitch(dest) ==
    /\ Trap("thread_switch")
    /\ tcb[dest].exists /\ dest # current
    /\ Commit(Donate(S, dest, "user"))

\* handle_timer_interrupt(), no wakeup pending: expired, when the active
\* schedule's timeslice ends with this tick.
HandleTimerInterrupt(expired) ==
    /\ Interrupt("timer")
    /\ IF current = idle \/ ~expired
          \/ (current = sched.active_schedule
              /\ sched.ready[EffectivePrio(S, sched.active_schedule)] = <<>>)
       THEN UNCHANGED vars
       ELSE Commit(Schedule(EndOfTimeslice(S, sched.active_schedule), "user", TRUE))
=============================================================================
