----------------------------- MODULE SyncPoint ------------------------------
(***************************************************************************)
(* syncpoint_t (pistachio/src/syncpoint.cc): the list of threads blocked   *)
(* on an endpoint queue or on a mutex, highest effective priority first,   *)
(* and the donatee that inherits the priority of the first.                *)
(***************************************************************************)
EXTENDS Scheduler

\* syncpoint_t::donatee: an endpoint's owner, a mutex's holder.
Donatee(s, sp) == IF sp[1] = "mutex" THEN s.mutex[sp[2]].holder ELSE sp[2]

\* The effective priority of the first blocked thread, if there is one.
HeadPrio(s, sp) ==
    IF s.blocked[sp] = <<>> THEN {} ELSE {EffectivePrio(s, Head(s.blocked[sp]))}

\* Seeded fault: the threads blocked on a thread's mutexes do not raise it.
CalcIgnoresMutexes(s, t) ==
    Max({s.tcb[t].base_prio} \cup HeadPrio(s, <<"send", t>>) \cup HeadPrio(s, <<"recv", t>>))

\* tcb_t::calc_effective_priority()
CalcEffectivePriority(s, t) ==
    Max({s.tcb[t].base_prio} \cup HeadPrio(s, <<"send", t>>) \cup HeadPrio(s, <<"recv", t>>)
        \cup UNION {HeadPrio(s, <<"mutex", m>>) : m \in Members(s.tcb[t].mutexes)})

\* enqueue_tcb_sorted(): before the first thread of a lower priority.
EnqueueTcbSorted(s, q, t) ==
    LET above == Cardinality({i \in DOMAIN q : EffectivePrio(s, t) <= EffectivePrio(s, q[i])})
    IN SubSeq(q, 1, above) \o <<t>> \o SubSeq(q, above + 1, Len(q))

EnqueueBlocked(s, sp, t) ==
    Require([s EXCEPT !.blocked[sp] = EnqueueTcbSorted(s, @, t), !.tcb[t].waiting_for = sp],
            s.tcb[t].waiting_for = NULL, "enqueue_blocked: waiting for something else")

DequeueBlocked(s, sp, t) ==
    IF t \in Members(s.blocked[sp]) /\ s.tcb[t].waiting_for = sp
    THEN [s EXCEPT !.blocked[sp] = DequeueList(@, t), !.tcb[t].waiting_for = NULL]
    ELSE Require(s, FALSE, "dequeue_blocked: not blocked here")

\* More rounds than a walk along the chain of donatees can take.
ChainBound == (MAX_PRIO + 1) * (Cardinality(Threads) + 1)

\* The loop that both propagations share: chain is raised to prio or, if that is
\* NULL, recalculated, and moves to its place in the queue it is blocked on; the walk
\* goes on with that queue's donatee until a priority stays as it is.
RECURSIVE Walk(_, _, _, _)
Walk(s, chain, prio, rounds) ==
    IF chain = NULL THEN s
    ELSE IF rounds = 0 THEN Require(s, FALSE, "propagation does not end")
    ELSE LET new_prio == IF prio = NULL THEN CalcEffectivePriority(s, chain)
                         ELSE Max({prio, EffectivePrio(s, chain)})
             changed == SetEffectivePriority(s, chain, new_prio)
             next == s.tcb[chain].waiting_for
         IN IF new_prio = EffectivePrio(s, chain) THEN s
            ELSE IF next = NULL THEN changed
            ELSE LET moved == EnqueueBlocked(DequeueBlocked(changed, next, chain), next, chain)
                 IN Walk(moved, Donatee(moved, next), prio, rounds - 1)

\* Seeded fault: only the first donatee inherits the priority.
PropagateOneLink(s, sp, prio) ==
    LET chain == Donatee(s, sp)
    IN IF chain = NULL \/ EffectivePrio(s, chain) >= prio THEN s
       ELSE SetEffectivePriority(s, chain, prio)

\* propagate_priority_increase(): a blocked thread's priority is passed down.
PropagatePriorityIncrease(s, sp, prio) == Walk(s, Donatee(s, sp), prio, ChainBound)

\* propagate_priority_change(): every donatee down the chain is recalculated.
PropagatePriorityChange(s, sp) == Walk(s, Donatee(s, sp), NULL, ChainBound)

\* block(): the thread is queued, and passes its priority on.
Block(s, sp, t) ==
    PropagatePriorityIncrease(EnqueueBlocked(s, sp, t), sp, EffectivePrio(s, t))

Unblock(s, sp, t) == PropagatePriorityChange(DequeueBlocked(s, sp, t), sp)

\* refresh(): the thread moves to the place of its changed priority.
Refresh(s, sp, t) ==
    PropagatePriorityChange(EnqueueBlocked(DequeueBlocked(s, sp, t), sp, t), sp)

\* become_donatee() of a mutex: no blocked thread is above the new holder.
BecomeDonatee(s, m, t) ==
    LET free == Require(s, s.mutex[m].holder = NULL, "become_donatee: has a donatee")
    IN [Require(free, \A p \in HeadPrio(s, <<"mutex", m>>) : p <= EffectivePrio(s, t),
                "become_donatee: a blocked thread is above the donatee")
        EXCEPT !.mutex[m].holder = t]

\* Seeded fault: the holder keeps what the threads blocked on the mutex gave it.
ReleaseDonateeKeepsPriority(s, m) == [s EXCEPT !.mutex[m].holder = NULL]

\* release_donatee() of a mutex: its holder loses what the mutex gave it.
ReleaseDonatee(s, m) ==
    LET holder == s.mutex[m].holder
        prio == EffectivePrio(s, holder)
        head == HeadPrio(s, <<"mutex", m>>)
        ok == /\ s.tcb[holder].waiting_for = NULL
              /\ \A p \in head : p <= prio
              /\ ~IsReady(s, holder)
        checked == Require(s, ok, "release_donatee")
        dropped == IF \E p \in head : p >= prio
                   THEN [checked EXCEPT !.tcb[holder].effective_prio =
                           CalcEffectivePriority(s, holder)]
                   ELSE checked
    IN [dropped EXCEPT !.mutex[m].holder = NULL]

\* endpoint_t: the queues of the threads that send to and receive from t.
EnqueueSend(s, t, sender) == Block(s, <<"send", t>>, sender)
DequeueSend(s, t, sender) == Unblock(s, <<"send", t>>, sender)
EnqueueRecv(s, t, receiver) == Block(s, <<"recv", t>>, receiver)

\* tcb_t::remove_dependency()
RemoveDependency(s, t) ==
    IF s.tcb[t].waiting_for = NULL THEN s ELSE Unblock(s, s.tcb[t].waiting_for, t)

-----------------------------------------------------------------------------
(* Changing a thread's priority                                            *)

\* Seeded fault: the queue a thread is blocked on is not told of the change.
SetPriorityNoRefresh(s, t, prio) ==
    LET based == [s EXCEPT !.tcb[t].base_prio = prio]
    IN SetEffectivePriority(based, t, CalcEffectivePriority(based, t))

\* scheduler_t::set_priority() with prio_queue_t::set_base_priority()
SetPriority(s, t, prio) ==
    LET based == [s EXCEPT !.tcb[t].base_prio = prio]
        new_prio == CalcEffectivePriority(based, t)
        set == IF new_prio # EffectivePrio(s, t)
               THEN SetEffectivePriority(based, t, new_prio) ELSE based
    IN IF s.tcb[t].waiting_for = NULL THEN set ELSE Refresh(set, s.tcb[t].waiting_for, t)

\* SYS_SCHEDULE: set the priority of a thread, then reschedule.
SysSchedule(dest, prio) ==
    /\ Trap("schedule")
    /\ tcb[dest].exists /\ prio # tcb[dest].base_prio
    /\ Commit(Schedule(SetPriority(S, dest, prio), "user", FALSE))
=============================================================================
