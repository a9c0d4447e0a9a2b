----------------------------- MODULE NanoProofs -----------------------------
(***************************************************************************)
(* The nanokernel is correct for every image: ImageAssumption says which   *)
(* these are, and that there is a spare tcb.  Messages, signals and the    *)
(* calls about threads keep the invariant of NanoFutexProofs, as the       *)
(* scheduler, the futexes and the interrupts do; so every step keeps it,   *)
(* and the properties of Nano follow from it.                              *)
(***************************************************************************)
EXTENDS Nano, NanoFutexProofs

-----------------------------------------------------------------------------
(* Messages and signals                                                    *)

\* An assignment to the list of senders.
LEMMA SendersAssigned ==
    ASSUME NEW s \in Snapshots, NEW t \in Tcbs, NEW q \in Seq(Tcbs)
    PROVE  LET r == [s EXCEPT !.tcb[t].senders = q]
           IN /\ r \in Snapshots /\ Assigns(s, r, t) /\ r.tcb[t].senders = q
              /\ r.tcb[t].signals = s.tcb[t].signals /\ r.tcb[t].joiner = s.tcb[t].joiner
              /\ r.tcb[t].registered_interrupt = s.tcb[t].registered_interrupt
  BY ZenonT(60) DEF Assigns, Snapshots, TcbType

\* An assignment to the signals.
LEMMA SignalsAssigned ==
    ASSUME NEW s \in Snapshots, NEW t \in Tcbs, NEW g \in SUBSET Signals
    PROVE  LET r == [s EXCEPT !.tcb[t].signals = g]
           IN /\ r \in Snapshots /\ Assigns(s, r, t) /\ r.tcb[t].signals = g
              /\ r.tcb[t].senders = s.tcb[t].senders /\ r.tcb[t].joiner = s.tcb[t].joiner
              /\ r.tcb[t].registered_interrupt = s.tcb[t].registered_interrupt
  BY ZenonT(60) DEF Assigns, Snapshots, TcbType

\* do_send() of a plain message to a thread that waits for it.
LEMMA SendNowSettles ==
    ASSUME NEW s, Called(s), NEW dest \in Tcbs, s.tcb[dest].state = "WAIT_IPC_RECV"
    PROVE  Settled(SendNow(s, dest, FALSE))
  <1>1. /\ s \in Snapshots /\ s.failed = {} /\ Waits(s) /\ s.current \in Tcbs
        /\ s.next = s.current /\ s.tcb[s.current].state = "RUNNABLE"
        /\ Ready(s, {s.current}) /\ Highest(s)
    BY CallerRuns, Zenon
  <1>2. Waits(SetRunnable(s, dest)) /\ dest # s.current
    BY <1>1, WaitsWhenWoken, Zenon
  <1> QED
    BY <1>1, <1>2, ActivateScheduleSettles, Zenon DEF SendNow

\* do_send() of a call to a thread that waits for it: dest is ready, and the caller waits
\* for its answer.
LEMMA CallNowSettles ==
    ASSUME NEW s, Called(s), NEW dest \in Tcbs, s.tcb[dest].state = "WAIT_IPC_RECV"
    PROVE  Settled(SendNow(s, dest, TRUE))
  <1> DEFINE c == s.current
             w == SetRunnable(s, dest)
             a == Activate(s, dest)
             b == WaitFor(a, c, dest)
             d == SetState(b, c, "WAIT_IPC_RECV")
             r == DeactivateSelfSchedule(b, "WAIT_IPC_RECV")
  <1>1. /\ s \in Snapshots /\ s.failed = {} /\ Waits(s) /\ c \in Tcbs
        /\ s.tcb[c].state = "RUNNABLE" /\ Ready(s, {c})
    BY CallerRuns, Zenon
  <1>2. dest # c /\ w \in Snapshots /\ Becomes(s, w, dest, "RUNNABLE", NULL) /\ Waits(w)
    BY <1>1, RunnableAssigned, WaitsWhenWoken, Zenon
  <1>3. a \in Snapshots /\ OnlySchedules(w, a) /\ Ready(a, {c})
    BY <1>1, <1>2, WaitsLinked, Activates, Zenon
  <1> HIDE DEF a, w
  <1>4. b \in Snapshots /\ Becomes(a, b, c, a.tcb[c].state, dest)
    BY <1>1, <1>3, WaitAssigned, Zenon
  <1>5. r = SendNow(s, dest, TRUE)
    <2>1. b.current = c
      BY <1>2, <1>3, <1>4, Zenon DEF Becomes, Turns, OnlySchedules
    <2> QED
      BY Zenon DEF SendNow, DeactivateSelfSchedule, a
  <1> HIDE DEF b
  <1>6. /\ b.current = c /\ b.failed = {} /\ b.tcb[c].state = "RUNNABLE"
        /\ SameRunning(a, b)
    BY <1>1, <1>2, <1>3, <1>4 DEF Becomes, Turns, OnlySchedules, SameRunning
  <1>7. Ready(b, {c})
    BY <1>3, <1>6, SameRunningKeeps, Zenon
  <1>8. /\ r \in Snapshots /\ OnlySchedules(d, r)
        /\ d \in Snapshots /\ Becomes(b, d, c, "WAIT_IPC_RECV", b.tcb[c].waits_for)
        /\ Ready(r, {r.next}) /\ Highest(r)
    BY <1>1, <1>4, <1>6, <1>7, Deschedules, Zenon DEF ThreadStates, WaitStates
  <1> HIDE DEF d, r
  <1>9. /\ r.chain = w.chain /\ r.pending = w.pending /\ r.free = w.free
        /\ r.handler = w.handler /\ r.unmasked = w.unmasked /\ r.failed = {}
        /\ \A u \in Tcbs \ {c} : r.tcb[u] = w.tcb[u]
        /\ r.tcb[c].state = "WAIT_IPC_RECV" /\ r.tcb[c].waits_for = dest
        /\ r.tcb[c].senders = w.tcb[c].senders /\ r.tcb[c].joiner = w.tcb[c].joiner
        /\ r.tcb[c].registered_interrupt = w.tcb[c].registered_interrupt
    BY <1>1, <1>2, <1>3, <1>4, <1>6, <1>8 DEF Becomes, Turns, OnlySchedules
  <1>10. w.tcb[c].state = "RUNNABLE" /\ w.tcb[dest].state = "RUNNABLE"
    BY <1>1, <1>2, Zenon DEF Becomes, Turns
  <1>11. /\ SameFutexes(w, r) /\ SameSignalWaits(w, r)
         /\ SameLives(w, r) /\ SameHandlers(w, r)
    BY <1>2, <1>9, <1>10
       DEF SameFutexes, SameSignalWaits, SameLives, SameHandlers, DeadStates
  <1>13. Futexes(r) /\ SignalWaits(r) /\ Lives(r) /\ Handlers(r)
    BY <1>2, <1>11, Kept, Zenon
  <1>12. Messages(r)
    <2>1. \A u \in SendersTo(w, c) : dest \notin {u, NULL}
      BY <1>10, Image, Zenon DEF SendersTo, IsSender
    <2>2. \A t \in Tcbs :
            /\ r.tcb[t].senders = w.tcb[t].senders
            /\ IsSender(r, t) <=> IsSender(w, t)
            /\ IsSender(w, t) => r.tcb[t].waits_for = w.tcb[t].waits_for
      BY <1>9, <1>10, Zenon DEF IsSender
    <2>3. \A t \in Tcbs : r.tcb[t].state = "WAIT_IPC_RECV" =>
            \/ w.tcb[t].state = "WAIT_IPC_RECV" /\ r.tcb[t].waits_for = w.tcb[t].waits_for
            \/ \A u \in SendersTo(w, t) : r.tcb[t].waits_for \notin {u, NULL}
      BY <1>9, <2>1, Zenon
    <2>4. SameMessages(w, r)
      BY <2>2, <2>3, Zenon DEF SameMessages
    <2> QED
      BY <1>2, <2>4, Kept, Zenon
  <1> QED
    BY <1>5, <1>8, <1>9, <1>13, <1>12, Zenon DEF Settled, Waits

\* do_send() to a thread that does not wait for the message: the caller sleeps in its list.
LEMMA SendLaterSettles ==
    ASSUME NEW s, Called(s), NEW dest \in Tcbs, NEW is_call \in BOOLEAN,
           ~IsReadyToReceive(s, s.current, dest)
    PROVE  Settled(SendLater(s, dest, is_call))
  <1> DEFINE c == s.current
             st == IF is_call THEN "WAIT_IPC_CALL" ELSE "WAIT_IPC_SEND"
             q == Append(s.tcb[dest].senders, c)
             e == [s EXCEPT !.tcb[dest].senders = Append(@, c)]
             r == SleepOn(e, st, dest)
  <1>1. /\ s \in Snapshots /\ s.failed = {} /\ Waits(s) /\ c \in Tcbs
        /\ s.tcb[c].state = "RUNNABLE" /\ Ready(s, {c})
    BY CallerRuns, Zenon
  <1>2. Unlinked(s, c)
    BY <1>1, WaitsLinked, InHandUnlinked, Zenon
  <1>3. SendLater(s, dest, is_call) = r
    BY <1>2, Zenon DEF SendLater, EnqueueSend, Require, EnqueueListTail
  <1>4. c \notin SendersTo(s, dest) /\ IsList(Tcbs, s.tcb[dest].senders, SendersTo(s, dest))
    BY <1>1, Zenon DEF Waits, Messages, SendersTo, IsSender
  <1>5. IsList(Tcbs, q, SendersTo(s, dest) \cup {c})
    BY <1>1, <1>4, ListAppend, Zenon
  <1>6. q \in Seq(Tcbs)
    BY <1>5, Zenon DEF IsList
  <1>7. /\ e \in Snapshots /\ Assigns(s, e, dest) /\ e.tcb[dest].senders = q
        /\ e.tcb[dest].signals = s.tcb[dest].signals /\ e.tcb[dest].joiner = s.tcb[dest].joiner
        /\ e.tcb[dest].registered_interrupt = s.tcb[dest].registered_interrupt
    <2>1. e = [s EXCEPT !.tcb[dest].senders = q]
      BY <1>1, Zenon DEF Snapshots, TcbType
    <2> HIDE DEF e, q
    <2> QED
      BY <1>1, <1>6, <2>1, SendersAssigned
  <1> HIDE DEF e, q
  <1>8. /\ e.current = c /\ e.next = s.next /\ e.ready = s.ready
        /\ e.free = s.free /\ e.chain = s.chain /\ e.pending = s.pending
        /\ e.handler = s.handler /\ e.unmasked = s.unmasked /\ e.failed = {}
        /\ e.tcb[dest].senders = q
        /\ \A u \in Tcbs \ {dest} : e.tcb[u].senders = s.tcb[u].senders
        /\ \A u \in Tcbs : /\ e.tcb[u].state = s.tcb[u].state
                           /\ e.tcb[u].waits_for = s.tcb[u].waits_for
                           /\ e.tcb[u].priority = s.tcb[u].priority
                           /\ e.tcb[u].signals = s.tcb[u].signals
                           /\ e.tcb[u].joiner = s.tcb[u].joiner
                           /\ e.tcb[u].registered_interrupt = s.tcb[u].registered_interrupt
    BY <1>1, <1>7, Zenon DEF Assigns
  <1>9. Ready(e, {c})
    BY <1>1, <1>8, SameRunningKeeps, Zenon DEF SameRunning
  <1>10. /\ r \in Snapshots /\ Turns(e, r, c, st, dest)
         /\ Ready(r, {r.next}) /\ Highest(r)
    <2>1. st \in ThreadStates \ {"RUNNABLE"}
      BY Zenon DEF ThreadStates, WaitStates
    <2> HIDE DEF st
    <2> QED
      BY <1>1, <1>7, <1>8, <1>9, <2>1, FallsAsleep, Zenon
  <1> HIDE DEF r
  <1>11. /\ r.chain = s.chain /\ r.pending = s.pending /\ r.free = s.free
         /\ r.handler = s.handler /\ r.unmasked = s.unmasked /\ r.failed = {}
         /\ r.tcb[c].state \in {"WAIT_IPC_CALL", "WAIT_IPC_SEND"} /\ r.tcb[c].waits_for = dest
         /\ r.tcb[dest].senders = q
         /\ \A u \in Tcbs \ {dest} : r.tcb[u].senders = s.tcb[u].senders
         /\ \A u \in Tcbs \ {c} : /\ r.tcb[u].state = s.tcb[u].state
                                  /\ r.tcb[u].waits_for = s.tcb[u].waits_for
         /\ \A u \in Tcbs : /\ r.tcb[u].priority = s.tcb[u].priority
                            /\ r.tcb[u].signals = s.tcb[u].signals
                            /\ r.tcb[u].joiner = s.tcb[u].joiner
                            /\ r.tcb[u].registered_interrupt = s.tcb[u].registered_interrupt
    <2>1. /\ \A u \in Tcbs \ {c} : r.tcb[u] = e.tcb[u]
          /\ r.tcb[c].state = st /\ r.tcb[c].waits_for = dest
          /\ r.tcb[c].priority = e.tcb[c].priority /\ r.tcb[c].senders = e.tcb[c].senders
          /\ r.tcb[c].signals = e.tcb[c].signals /\ r.tcb[c].joiner = e.tcb[c].joiner
          /\ r.tcb[c].registered_interrupt = e.tcb[c].registered_interrupt
      BY <1>10, Zenon DEF Turns
    <2>2. /\ r.chain = s.chain /\ r.pending = s.pending /\ r.free = s.free
          /\ r.handler = s.handler /\ r.unmasked = s.unmasked /\ r.failed = {}
      BY <1>8, <1>10, Zenon DEF Turns
    <2>3. \A u \in Tcbs : r.tcb[u].senders = e.tcb[u].senders
      BY <2>1, Zenon
    <2>4. /\ r.tcb[dest].senders = q
          /\ \A u \in Tcbs \ {dest} : r.tcb[u].senders = s.tcb[u].senders
      BY <1>8, <2>3, Zenon
    <2> QED
      BY <1>1, <1>8, <2>1, <2>2, <2>4
  <1>12. /\ SameFutexes(s, r) /\ SameSignalWaits(s, r)
         /\ SameLives(s, r) /\ SameHandlers(s, r)
    BY <1>1, <1>11 DEF SameFutexes, SameSignalWaits, SameLives, SameHandlers, DeadStates
  <1>14. Futexes(r) /\ SignalWaits(r) /\ Lives(r) /\ Handlers(r)
    BY <1>1, <1>12, Kept, Zenon
  <1>13. Messages(r)
    <2>1. ASSUME NEW d \in Tcbs PROVE IsList(Tcbs, r.tcb[d].senders, SendersTo(r, d))
      <3>1. CASE d = dest
        <4>1. SendersTo(r, d) = SendersTo(s, d) \cup {c}
          BY <1>1, <1>11, <3>1 DEF SendersTo, IsSender
        <4> QED
          BY <1>5, <1>11, <3>1, <4>1, Zenon
      <3>2. CASE d # dest
        <4>1. SendersTo(r, d) = SendersTo(s, d)
          BY <1>1, <1>11, <3>2 DEF SendersTo, IsSender
        <4> QED
          BY <1>1, <1>11, <3>2, <4>1 DEF Waits, Messages
      <3> QED
        BY <3>1, <3>2, Zenon
    <2>2. ASSUME NEW d \in Tcbs, r.tcb[d].state = "WAIT_IPC_RECV", NEW t \in SendersTo(r, d)
          PROVE  r.tcb[d].waits_for \notin {t, NULL}
      <3>1. d # c /\ s.tcb[d].state = "WAIT_IPC_RECV" /\ r.tcb[d].waits_for = s.tcb[d].waits_for
        BY <1>11, <2>2, Zenon
      <3>2. CASE t = c
        BY <1>11, <2>2, <3>1, <3>2, Zenon DEF SendersTo, IsReadyToReceive
      <3>3. CASE t # c
        <4>1. t \in SendersTo(s, d)
          BY <1>11, <2>2, <3>3, Zenon DEF SendersTo, IsSender
        <4> QED
          BY <1>1, <3>1, <4>1, Zenon DEF Waits, Messages
      <3> QED
        BY <3>2, <3>3, Zenon
    <2>3. \A t \in Tcbs : IsSender(r, t) => r.tcb[t].waits_for \in Tcbs
      BY <1>1, <1>11 DEF Waits, Messages, IsSender
    <2> QED
      BY <2>1, <2>2, <2>3, Zenon DEF Messages
  <1> QED
    BY <1>3, <1>10, <1>11, <1>14, <1>13, Zenon DEF Settled, Waits

\* sys_ipc_recv() of a thread that nobody sends to.
LEMMA RecvSleepSettles ==
    ASSUME NEW s, Called(s), s.tcb[s.current].senders = <<>>
    PROVE  Settled(SleepOn(s, "WAIT_IPC_RECV", NULL))
  <1> DEFINE c == s.current
             r == SleepOn(s, "WAIT_IPC_RECV", NULL)
  <1>1. /\ s \in Snapshots /\ s.failed = {} /\ Waits(s) /\ c \in Tcbs
        /\ s.tcb[c].state = "RUNNABLE" /\ Ready(s, {c})
    BY CallerRuns, Zenon
  <1>2. NULL \in Tags \cup Tcbs \cup (SUBSET Signals) \cup {NULL}
    BY Zenon
  <1>3. /\ r \in Snapshots /\ Turns(s, r, c, "WAIT_IPC_RECV", NULL)
        /\ Ready(r, {r.next}) /\ Highest(r)
    BY <1>1, <1>2, FallsAsleep, Zenon DEF ThreadStates, WaitStates
  <1>4. SendersTo(s, c) = {}
    BY <1>1, ListEmpty DEF Waits, Messages
  <1> HIDE DEF r
  <1>5. /\ SameFutexes(s, r) /\ SameMessages(s, r) /\ SameSignalWaits(s, r)
        /\ SameLives(s, r) /\ SameHandlers(s, r)
    BY <1>1, <1>3, <1>4
       DEF SameFutexes, SameMessages, SameSignalWaits, SameLives, SameHandlers, Turns, IsSender, DeadStates
  <1>6. Futexes(r) /\ Messages(r) /\ SignalWaits(r) /\ Lives(r) /\ Handlers(r)
    BY <1>1, <1>5, Kept, Zenon
  <1> QED
    BY <1>1, <1>3, <1>6, Zenon DEF Settled, Waits, Turns, r

\* sys_ipc_recv() has taken the first sender from the list; a caller now waits for the
\* answer of current, a plain sender runs.
LEMMA ReceivedWaits ==
    ASSUME NEW s, Called(s), NEW r \in Snapshots, NEW st \in {"RUNNABLE", "WAIT_IPC_RECV"}, NEW w,
           st = "WAIT_IPC_RECV" => w = s.current,
           NEW e, Assigns(s, e, s.current),
           e.tcb[s.current].joiner = s.tcb[s.current].joiner,
           e.tcb[s.current].registered_interrupt = s.tcb[s.current].registered_interrupt,
           NEW src \in SendersTo(s, s.current), Becomes(e, r, src, st, w),
           IsList(Tcbs, e.tcb[s.current].senders, SendersTo(s, s.current) \ {src})
    PROVE  Waits(r)
  <1> DEFINE c == s.current
             q == e.tcb[c].senders
  <1>1. /\ s \in Snapshots /\ Waits(s) /\ c \in Tcbs /\ s.tcb[c].state = "RUNNABLE" /\ c # NULL
    BY CallerRuns, Zenon
  <1>2. /\ src \in SendersTo(s, c) /\ src \in Tcbs
        /\ IsList(Tcbs, q, SendersTo(s, c) \ {src})
    BY Zenon DEF SendersTo
  <1>3. IsSender(s, src) /\ s.tcb[src].waits_for = c /\ src # c
    BY <1>1, <1>2, Zenon DEF SendersTo, IsSender
  <1> HIDE DEF q
  <1>4. /\ \A u \in Tcbs \ {c} : e.tcb[u] = s.tcb[u]
        /\ e.tcb[c].state = "RUNNABLE" /\ e.tcb[c].senders = q
    BY <1>1, Zenon DEF Assigns, q
  <1>5. /\ \A u \in Tcbs \ {src} : r.tcb[u] = e.tcb[u]
        /\ r.tcb[src].state = st /\ r.tcb[src].waits_for = w
        /\ r.tcb[src].senders = e.tcb[src].senders /\ r.tcb[src].joiner = e.tcb[src].joiner
        /\ r.tcb[src].registered_interrupt = e.tcb[src].registered_interrupt
    BY Zenon DEF Becomes, Turns
  <1>6. /\ \A u \in Tcbs \ {c, src} : r.tcb[u] = s.tcb[u]
        /\ r.tcb[c].state = "RUNNABLE" /\ r.tcb[c].senders = q
        /\ r.tcb[src].state = st /\ r.tcb[src].waits_for = w
        /\ r.tcb[src].senders = s.tcb[src].senders
    BY <1>1, <1>2, <1>3, <1>4, <1>5, Zenon
  <1>7. \A u \in {c, src} :
            /\ r.tcb[u].joiner = s.tcb[u].joiner
            /\ r.tcb[u].registered_interrupt = s.tcb[u].registered_interrupt
    BY <1>1, <1>2, <1>3, <1>4, <1>5
  <1>8. /\ r.chain = s.chain /\ r.pending = s.pending /\ r.free = s.free
        /\ r.handler = s.handler /\ r.unmasked = s.unmasked
    BY Zenon DEF Assigns, Becomes, Turns
  <1>9. s.tcb[src].state \in {"WAIT_IPC_SEND", "WAIT_IPC_CALL"}
    BY <1>3, Zenon DEF IsSender
  <1>10. /\ SameFutexes(s, r) /\ SameSignalWaits(s, r)
         /\ SameLives(s, r) /\ SameHandlers(s, r)
    BY <1>1, <1>2, <1>6, <1>7, <1>8, <1>9
       DEF SameFutexes, SameSignalWaits, SameLives, SameHandlers, DeadStates
  <1>12. Futexes(r) /\ SignalWaits(r) /\ Lives(r) /\ Handlers(r)
    BY <1>1, <1>10, Kept, Zenon
  <1>11. Messages(r)
    <2>1. \A u \in Tcbs : IsSender(r, u) <=> u # src /\ IsSender(s, u)
      BY <1>1, <1>2, <1>3, <1>6, Zenon DEF IsSender
    <2>2. \A u \in Tcbs : IsSender(r, u) => r.tcb[u].waits_for = s.tcb[u].waits_for
      BY <1>1, <1>6, <2>1, Zenon DEF IsSender
    <2>3. \A d \in Tcbs : SendersTo(r, d) = SendersTo(s, d) \ {src}
      BY <2>1, <2>2, Zenon DEF SendersTo
    <2>4. ASSUME NEW d \in Tcbs PROVE IsList(Tcbs, r.tcb[d].senders, SendersTo(r, d))
      <3>1. CASE d = c
        BY <1>2, <1>6, <2>3, <3>1, Zenon
      <3>2. CASE d # c
        <4>1. SendersTo(r, d) = SendersTo(s, d)
          BY <1>3, <2>3, <3>2, Zenon DEF SendersTo
        <4>2. r.tcb[d].senders = s.tcb[d].senders
          BY <1>6, <3>2, Zenon
        <4> QED
          BY <1>1, <4>1, <4>2, Zenon DEF Waits, Messages
      <3> QED
        BY <3>1, <3>2, Zenon
    <2>5. ASSUME NEW d \in Tcbs, r.tcb[d].state = "WAIT_IPC_RECV", NEW t \in SendersTo(r, d)
          PROVE  r.tcb[d].waits_for \notin {t, NULL}
      <3>1. t \in SendersTo(s, d) /\ t # c
        BY <1>1, <2>3, <2>5 DEF SendersTo, IsSender
      <3>2. CASE d = src
        BY <1>1, <1>6, <2>5, <3>1, <3>2, Zenon
      <3>3. CASE d # src
        BY <1>1, <1>6, <2>5, <3>1, <3>3, Zenon DEF Waits, Messages
      <3> QED
        BY <3>2, <3>3, Zenon
    <2>6. \A t \in Tcbs : IsSender(r, t) => r.tcb[t].waits_for \in Tcbs
      BY <1>1, <2>1, <2>2, Zenon DEF Waits, Messages
    <2> QED
      BY <2>4, <2>5, <2>6, Zenon DEF Messages
  <1> QED
    BY <1>12, <1>11, Zenon DEF Waits

\* sys_ipc_recv() of a message that has a sender.
LEMMA RecvTakesSettles ==
    ASSUME NEW s, Called(s), s.tcb[s.current].senders # <<>>
    PROVE  Settled(Recv(s))
  <1> DEFINE c == s.current
             src == Head(s.tcb[c].senders)
             e == [s EXCEPT !.tcb[c].senders = Tail(@)]
  <1>1. /\ s \in Snapshots /\ Waits(s) /\ c \in Tcbs /\ s.tcb[c].state = "RUNNABLE"
        /\ s.next = c /\ s.failed = {} /\ Ready(s, {c}) /\ Highest(s)
    BY CallerRuns, Zenon
  <1>2. /\ src \in SendersTo(s, c) /\ src \in Tcbs
        /\ IsList(Tcbs, Tail(s.tcb[c].senders), SendersTo(s, c) \ {src})
    BY <1>1, ListTail, Zenon DEF Waits, Messages
  <1>3. IsSender(s, src) /\ s.tcb[src].waits_for = c /\ src # c
    BY <1>1, <1>2, Zenon DEF SendersTo, IsSender
  <1>4. /\ e \in Snapshots /\ Assigns(s, e, c)
        /\ e.tcb[c].senders = Tail(s.tcb[c].senders) /\ e.tcb[c].joiner = s.tcb[c].joiner
        /\ e.tcb[c].registered_interrupt = s.tcb[c].registered_interrupt
    <2> DEFINE q == Tail(s.tcb[c].senders)
    <2>1. e = [s EXCEPT !.tcb[c].senders = q] /\ q \in Seq(Tcbs)
      BY <1>1, <1>2, Zenon DEF Snapshots, TcbType, IsList
    <2> HIDE DEF e, q
    <2>2. /\ e \in Snapshots /\ Assigns(s, e, c) /\ e.tcb[c].senders = q
          /\ e.tcb[c].joiner = s.tcb[c].joiner
          /\ e.tcb[c].registered_interrupt = s.tcb[c].registered_interrupt
      BY <1>1, <2>1, SendersAssigned
    <2> QED
      BY <2>2, Zenon DEF q
  <1>5. Recv(s) = IF s.tcb[src].state = "WAIT_IPC_CALL" THEN SetState(e, src, "WAIT_IPC_RECV")
                  ELSE ActivateSchedule(e, src)
    BY <1>3, Zenon DEF Recv, Require
  <1>6. \A r, st, w : r \in Snapshots /\ st \in {"RUNNABLE", "WAIT_IPC_RECV"}
                      /\ (st = "WAIT_IPC_RECV" => w = c) /\ Becomes(e, r, src, st, w)
                      => Waits(r)
    <2> HIDE DEF e
    <2> QED
      BY <1>2, <1>4, ReceivedWaits, Zenon
  <1> HIDE DEF e, src
  <1>7. /\ e.tcb[src].state = s.tcb[src].state /\ e.tcb[src].waits_for = c
        /\ e.current = c /\ e.next = c /\ e.failed = {} /\ SameRunning(s, e)
    BY <1>1, <1>2, <1>3, <1>4, Zenon DEF Assigns, SameRunning
  <1>8. Ready(e, {c}) /\ Highest(e)
    BY <1>1, <1>7, SameRunningKeeps, Zenon
  <1>9. CASE s.tcb[src].state = "WAIT_IPC_CALL"
    <2> DEFINE r == SetState(e, src, "WAIT_IPC_RECV")
    <2>1. r \in Snapshots /\ Becomes(e, r, src, "WAIT_IPC_RECV", c)
      BY <1>2, <1>4, <1>7, StateAssigned, Zenon DEF ThreadStates, WaitStates
    <2> SUFFICES Settled(r)
      BY <1>5, <1>9, Zenon
    <2> HIDE DEF r
    <2>2. Waits(r)
      BY <1>6, <2>1, Zenon
    <2>3. SameRunning(e, r) /\ r.failed = {} /\ r.next = c
      BY <1>7, <1>9, <2>1 DEF SameRunning, Becomes, Turns
    <2> QED
      BY <1>8, <2>1, <2>2, <2>3, SameRunningKeeps, Zenon DEF Settled
  <1>10. CASE s.tcb[src].state # "WAIT_IPC_CALL"
    <2>1. e.tcb[src].state # "RUNNABLE"
      BY <1>3, <1>7, Zenon DEF IsSender
    <2>2. Waits(SetRunnable(e, src))
      BY <1>2, <1>4, <1>6, RunnableAssigned, Zenon
    <2> QED
      BY <1>1, <1>2, <1>3, <1>4, <1>5, <1>7, <1>8, <1>10, <2>1, <2>2, ActivateScheduleSettles, Zenon
  <1> QED
    BY <1>9, <1>10, Zenon

\* do_send()
LEMMA DoSendSettles ==
    ASSUME NEW s, Called(s), NEW dest \in Tcbs, NEW is_call \in BOOLEAN,
           NEW is_non_blocking \in BOOLEAN
    PROVE  Settled(DoSend(s, dest, is_call, is_non_blocking))
  <1>1. CASE IsReadyToReceive(s, s.current, dest)
    <2>1. s.tcb[dest].state = "WAIT_IPC_RECV"
      BY <1>1, Zenon DEF IsReadyToReceive
    <2>2. Settled(SendNow(s, dest, FALSE)) /\ Settled(SendNow(s, dest, TRUE))
      BY <2>1, SendNowSettles, CallNowSettles, Zenon
    <2> QED
      BY <1>1, <2>2, Zenon DEF DoSend
  <1>2. CASE ~IsReadyToReceive(s, s.current, dest)
    <2>1. Settled(SendLater(s, dest, is_call))
      BY <1>2, SendLaterSettles, Zenon
    <2> QED
      BY <1>2, <2>1, Zenon DEF DoSend, Called
  <1> QED
    BY <1>1, <1>2, Zenon

\* sys_ipc_recv()
LEMMA RecvSettles ==
    ASSUME NEW s, Called(s)
    PROVE  Settled(Recv(s))
  <1>1. CASE s.tcb[s.current].senders = <<>>
    BY <1>1, RecvSleepSettles, Zenon DEF Recv
  <1>2. CASE s.tcb[s.current].senders # <<>>
    BY <1>2, RecvTakesSettles, Zenon
  <1> QED
    BY <1>1, <1>2, Zenon

\* The signals of a thread change, and none of those that it waits for is set.
LEMMA SignalsSetSettles ==
    ASSUME NEW s, Called(s), NEW t \in Tcbs, NEW g \in SUBSET Signals,
           s.tcb[t].state = "WAIT_SIGNAL" => g \cap s.tcb[t].waits_for = {}
    PROVE  Called([s EXCEPT !.tcb[t].signals = g])
  <1> DEFINE r == [s EXCEPT !.tcb[t].signals = g]
  <1>1. s \in Snapshots /\ Waits(s) /\ Settled(s) /\ s.current \in Tcbs /\ s.next = s.current
    BY CallerRuns, Zenon DEF Called
  <1>2. /\ r \in Snapshots /\ Assigns(s, r, t) /\ r.tcb[t].signals = g
        /\ r.tcb[t].senders = s.tcb[t].senders /\ r.tcb[t].joiner = s.tcb[t].joiner
        /\ r.tcb[t].registered_interrupt = s.tcb[t].registered_interrupt
    BY <1>1, SignalsAssigned
  <1> SUFFICES Called(r)
    BY Zenon
  <1> HIDE DEF r
  <1>3. SameRunning(s, r) /\ r.failed = s.failed /\ r.current = s.current
    BY <1>2, Zenon DEF Assigns, SameRunning
  <1>4. SameFutexes(s, r) /\ SameMessages(s, r) /\ SameLives(s, r) /\ SameHandlers(s, r)
    BY <1>1, <1>2
       DEF SameFutexes, SameMessages, SameLives, SameHandlers, Assigns, IsSender
  <1>5. Futexes(r) /\ Messages(r) /\ Lives(r) /\ Handlers(r)
    BY <1>1, <1>4, Kept, Zenon
  <1>6. SignalWaits(r)
    BY <1>1, <1>2 DEF Waits, SignalWaits, Assigns
  <1>9. Settled(r)
    BY <1>1, <1>2, <1>3, <1>5, <1>6, StaysSettled, Zenon DEF Waits
  <1> QED
    BY <1>1, <1>3, <1>9, Zenon DEF Called, SameRunning

\* Signals are taken from the caller, by sys_signal_poll() too.
LEMMA SignalsTakenSettles ==
    ASSUME NEW s, Called(s), NEW mask \in SUBSET Signals
    PROVE  Settled([s EXCEPT !.tcb[s.current].signals = @ \ mask])
  <1> DEFINE c == s.current
             g == s.tcb[c].signals \ mask
  <1>1. s \in Snapshots /\ c \in Tcbs /\ s.tcb[c].state = "RUNNABLE"
    BY CallerRuns, Zenon
  <1>2. g \in SUBSET Signals
    BY <1>1, Types, Zenon
  <1>3. [s EXCEPT !.tcb[c].signals = @ \ mask] = [s EXCEPT !.tcb[c].signals = g]
    BY <1>1, Zenon DEF Snapshots, TcbType
  <1> HIDE DEF g
  <1>4. Called([s EXCEPT !.tcb[c].signals = g])
    BY <1>1, <1>2, SignalsSetSettles, Zenon
  <1> QED
    BY <1>3, <1>4, Zenon DEF Called

\* sys_signal_wait()
LEMMA SignalWaitSettles ==
    ASSUME NEW s, Called(s), NEW mask \in SUBSET Signals
    PROVE  Settled(SignalWait(s, mask))
  <1> DEFINE c == s.current
             r == SleepOn(s, "WAIT_SIGNAL", mask)
  <1>1. CASE s.tcb[c].signals \cap mask # {}
    BY <1>1, SignalsTakenSettles, Zenon DEF SignalWait
  <1>2. CASE s.tcb[c].signals \cap mask = {}
    <2>1. /\ s \in Snapshots /\ s.failed = {} /\ Waits(s) /\ c \in Tcbs
          /\ s.tcb[c].state = "RUNNABLE" /\ Ready(s, {c})
      BY CallerRuns, Zenon
    <2>2. /\ r \in Snapshots /\ Turns(s, r, c, "WAIT_SIGNAL", mask)
          /\ Ready(r, {r.next}) /\ Highest(r)
      BY <2>1, FallsAsleep, Zenon DEF ThreadStates, WaitStates
    <2> SUFFICES Settled(r)
      BY <1>2, Zenon DEF SignalWait
    <2> HIDE DEF r
    <2>3. /\ SameFutexes(s, r) /\ SameMessages(s, r)
          /\ SameLives(s, r) /\ SameHandlers(s, r)
      BY <2>1, <2>2, Zenon
         DEF SameFutexes, SameMessages, SameLives, SameHandlers, Turns, IsSender, DeadStates
    <2>4. Futexes(r) /\ Messages(r) /\ Lives(r) /\ Handlers(r)
      BY <2>1, <2>3, Kept, Zenon
    <2>5. SignalWaits(r)
      BY <1>2, <2>1, <2>2 DEF Waits, SignalWaits, Turns
    <2> QED
      BY <2>1, <2>2, <2>4, <2>5, Zenon DEF Settled, Waits, Turns
  <1> QED
    BY <1>1, <1>2, Zenon

\* sys_signal_send()
LEMMA SignalSendSettles ==
    ASSUME NEW s, Called(s), NEW dest \in Tcbs, NEW signals \in SUBSET Signals
    PROVE  Settled(SignalSend(s, dest, signals))
  <1> DEFINE mask == s.tcb[dest].waits_for
             h == s.tcb[dest].signals \cup signals
             g == h \ mask
             e == [s EXCEPT !.tcb[dest].signals = g]
  <1>1. s \in Snapshots /\ Waits(s) /\ s.tcb[s.current].state = "RUNNABLE"
    BY CallerRuns, Zenon
  <1>2. h \in SUBSET Signals /\ g \in SUBSET Signals
    BY <1>1, Types, Zenon
  <1>3. SignalSend(s, dest, signals) =
            IF s.tcb[dest].state = "WAIT_SIGNAL" /\ signals \cap mask # {}
            THEN ActivateSchedule(e, dest) ELSE [s EXCEPT !.tcb[dest].signals = h]
    <2>1. [s EXCEPT !.tcb[dest].signals = @ \cup signals] = [s EXCEPT !.tcb[dest].signals = h]
      BY <1>1, Zenon DEF Snapshots, TcbType
    <2>2. [s EXCEPT !.tcb[dest].signals = (@ \cup signals) \ mask] = e
      BY <1>1, Zenon DEF Snapshots, TcbType
    <2> QED
      BY <2>1, <2>2, Zenon DEF SignalSend
  <1>4. CASE s.tcb[dest].state = "WAIT_SIGNAL" /\ signals \cap mask # {}
    <2>1. g \cap mask = {}
      BY Zenon
    <2>2. Called(e)
      <3> HIDE DEF g
      <3> QED
        BY <1>2, <2>1, SignalsSetSettles, Zenon
    <2>3. Assigns(s, e, dest)
      <3> HIDE DEF g
      <3> QED
        BY <1>1, <1>2, SignalsAssigned, Zenon
    <2> HIDE DEF e, g, h
    <2>4. e.tcb[dest].state = "WAIT_SIGNAL" /\ e.current = s.current
      BY <1>4, <2>3, Zenon DEF Assigns
    <2>5. /\ e \in Snapshots /\ e.failed = {} /\ Waits(e) /\ e.current \in Tcbs
          /\ e.next = e.current /\ Ready(e, {e.current}) /\ Highest(e)
          /\ e.tcb[e.current].state = "RUNNABLE"
      BY <2>2, CallerRuns, Zenon
    <2>6. Waits(SetRunnable(e, dest)) /\ dest # e.current
      BY <2>4, <2>5, WaitsWhenWoken, Zenon
    <2>7. Settled(ActivateSchedule(e, dest))
      BY <2>4, <2>5, <2>6, ActivateScheduleSettles, Zenon
    <2> QED
      BY <1>3, <1>4, <2>7, Zenon
  <1>5. CASE ~(s.tcb[dest].state = "WAIT_SIGNAL" /\ signals \cap mask # {})
    <2>1. s.tcb[dest].state = "WAIT_SIGNAL" => h \cap mask = {}
      BY <1>1, <1>5, Zenon DEF Waits, SignalWaits
    <2> HIDE DEF h
    <2>2. Called([s EXCEPT !.tcb[dest].signals = h])
      BY <1>2, <2>1, SignalsSetSettles, Zenon
    <2> QED
      BY <1>3, <1>5, <2>2, Zenon DEF Called
  <1> QED
    BY <1>4, <1>5, Zenon

-----------------------------------------------------------------------------
(* The life of a thread                                                    *)

\* An assignment to the joiner.
LEMMA JoinerAssigned ==
    ASSUME NEW s \in Snapshots, NEW t \in Tcbs, NEW j \in Tcbs \cup {NULL}
    PROVE  LET r == [s EXCEPT !.tcb[t].joiner = j]
           IN /\ r \in Snapshots /\ Assigns(s, r, t) /\ r.tcb[t].joiner = j
              /\ r.tcb[t].senders = s.tcb[t].senders /\ r.tcb[t].signals = s.tcb[t].signals
              /\ r.tcb[t].registered_interrupt = s.tcb[t].registered_interrupt
  BY ZenonT(60) DEF Assigns, Snapshots, TcbType

\* thread_reap() puts an element in front.
LEMMA ListPush ==
    ASSUME NEW T, NEW q, NEW M, NEW e \in T, IsList(T, q, M), e \notin M
    PROVE  IsList(T, <<e>> \o q, M \cup {e})
  <1> DEFINE r == <<e>> \o q
  <1>1. q \in Seq(T) /\ M = Members(q) /\ NoRepeats(q)
    BY Zenon DEF IsList
  <1>2. /\ r \in Seq(T) /\ Len(r) = Len(q) + 1
        /\ r[1] = e /\ \A j \in 2 .. (Len(q) + 1) : r[j] = q[j - 1]
    BY <1>1
  <1> HIDE DEF r
  <1>n. Len(q) \in Nat
    BY <1>1, Places, Zenon
  <1>p. ASSUME NEW j \in 1 .. Len(r), j # 1 PROVE j - 1 \in 1 .. Len(q) /\ r[j] = q[j - 1]
    BY <1>2, <1>n, <1>p
  <1>3. NoRepeats(r)
    <2>1. ASSUME NEW j \in 1 .. Len(r), NEW k \in 1 .. Len(r), r[j] = r[k] PROVE j = k
      <3>1. ASSUME j # 1, k # 1 PROVE j - 1 = k - 1
        <4>1. j - 1 \in 1 .. Len(q) /\ k - 1 \in 1 .. Len(q) /\ q[j - 1] = q[k - 1]
          BY <1>p, <2>1, <3>1, Zenon
        <4> QED
          BY <1>1, <4>1, Places, Zenon
      <3>2. ASSUME NEW x \in 1 .. Len(r), x # 1 PROVE r[x] # r[1]
        <4>1. r[x] \in M
          BY <1>1, <1>p, <3>2, Places
        <4> QED
          BY <1>2, <4>1, Zenon
      <3> QED
        BY <1>2, <1>n, <2>1, <3>1, <3>2
    <2> QED
      BY <1>2, <2>1, PlacesDiffer, Zenon
  <1>4. Members(r) \subseteq M \cup {e}
    BY <1>1, <1>2, Places
  <1>5. ASSUME NEW x \in M PROVE x \in Members(r)
    <2>1. PICK k \in 1 .. Len(q) : q[k] = x
      BY <1>1, Places
    <2>2. k + 1 \in 1 .. Len(r) /\ r[k + 1] = x
      BY <1>1, <1>2, <2>1
    <2> QED
      BY <1>2, <2>2, Places, Zenon
  <1>6. e \in Members(r)
    BY <1>1, <1>2, Places
  <1> QED
    BY <1>2, <1>3, <1>4, <1>5, <1>6, Zenon DEF IsList, r

\* The tcb of a new thread t: it is off the free list, and its priority and its signals
\* are set.
Takes(s, r, t, q) ==
    /\ r.current = s.current /\ r.next = s.next /\ r.ready = s.ready /\ r.free = q
    /\ r.chain = s.chain /\ r.pending = s.pending /\ r.handler = s.handler
    /\ r.unmasked = s.unmasked /\ r.failed = s.failed
    /\ \A u \in Tcbs \ {t} : r.tcb[u] = s.tcb[u]
    /\ r.tcb[t].state = s.tcb[t].state /\ r.tcb[t].senders = s.tcb[t].senders
    /\ r.tcb[t].joiner = s.tcb[t].joiner
    /\ r.tcb[t].registered_interrupt = s.tcb[t].registered_interrupt

\* What sys_thread_create() sets before the new thread is activated.
LEMMA NewThreadAssigned ==
    ASSUME NEW s \in Snapshots, NEW t \in Tcbs, NEW prio \in Prio, NEW q \in Seq(Tcbs)
    PROVE  LET r == [[s EXCEPT !.free = q]
                     EXCEPT !.tcb[t] = [@ EXCEPT !.priority = prio, !.signals = {}]]
           IN r \in Snapshots /\ Takes(s, r, t, q)
  <1> DEFINE a == [s EXCEPT !.free = q]
             v == [a.tcb[t] EXCEPT !.priority = prio, !.signals = {}]
             r == [a EXCEPT !.tcb[t] = [@ EXCEPT !.priority = prio, !.signals = {}]]
  <1>1. /\ a \in Snapshots /\ a.free = q /\ a.tcb = s.tcb
        /\ a.current = s.current /\ a.next = s.next /\ a.ready = s.ready
        /\ a.chain = s.chain /\ a.pending = s.pending /\ a.handler = s.handler
        /\ a.unmasked = s.unmasked /\ a.failed = s.failed
    BY Zenon DEF Snapshots
  <1> HIDE DEF a
  <1>2. a.tcb \in [Tcbs -> TcbType] /\ a.tcb[t] \in TcbType
    BY <1>1, Zenon DEF Snapshots
  <1>3. /\ v \in TcbType /\ v.state = a.tcb[t].state /\ v.senders = a.tcb[t].senders
        /\ v.joiner = a.tcb[t].joiner
        /\ v.registered_interrupt = a.tcb[t].registered_interrupt
    BY <1>2, Zenon DEF TcbType
  <1>4. r = [a EXCEPT !.tcb[t] = v]
    BY <1>1, <1>2, Zenon DEF Snapshots
  <1> HIDE DEF r, v
  <1>5. /\ r \in Snapshots /\ r.tcb = [a.tcb EXCEPT ![t] = v]
        /\ r.current = a.current /\ r.next = a.next /\ r.ready = a.ready /\ r.free = a.free
        /\ r.chain = a.chain /\ r.pending = a.pending /\ r.handler = a.handler
        /\ r.unmasked = a.unmasked /\ r.failed = a.failed
    BY <1>1, <1>2, <1>3, <1>4, Zenon DEF Snapshots
  <1>6. r.tcb[t] = v /\ \A u \in Tcbs \ {t} : r.tcb[u] = s.tcb[u]
    BY <1>1, <1>2, <1>5
  <1> QED
    BY <1>1, <1>3, <1>5, <1>6, Zenon DEF Takes, r, a

\* sys_thread_create()
LEMMA ThreadCreateSettles ==
    ASSUME NEW s, Called(s), NEW prio \in Prio
    PROVE  Settled(ThreadCreate(s, prio))
  <1> DEFINE c == s.current
             t == Head(s.free)
             q == Tail(s.free)
             e == [[s EXCEPT !.free = q]
                   EXCEPT !.tcb[t] = [@ EXCEPT !.priority = prio, !.signals = {}]]
             w == SetRunnable(e, t)
             H == {u \in Tcbs : s.tcb[u].state = "HALTED"}
  <1>1. CASE s.free = <<>>
    BY <1>1, Zenon DEF ThreadCreate, Called
  <1>2. CASE s.free # <<>>
    <2>1. /\ s \in Snapshots /\ Waits(s) /\ c \in Tcbs /\ s.tcb[c].state = "RUNNABLE"
          /\ s.next = c /\ s.failed = {} /\ Ready(s, {c}) /\ Highest(s)
      BY CallerRuns, Zenon
    <2>2. t \in H /\ t \in Tcbs /\ IsList(Tcbs, q, H \ {t})
      BY <1>2, <2>1, ListTail, Zenon DEF Waits, Lives
    <2>3. s.tcb[t].state = "HALTED" /\ t # c /\ q \in Seq(Tcbs)
      BY <2>1, <2>2, Zenon DEF IsList
    <2>4. ThreadCreate(s, prio) = ActivateSchedule(e, t)
      BY <1>2, <2>3, Zenon DEF ThreadCreate, Require
    <2> HIDE DEF q, t
    <2>5. /\ e \in Snapshots /\ e.free = q
          /\ e.current = c /\ e.next = c /\ e.ready = s.ready
          /\ e.chain = s.chain /\ e.pending = s.pending /\ e.handler = s.handler
          /\ e.unmasked = s.unmasked /\ e.failed = {}
          /\ \A u \in Tcbs \ {t} : e.tcb[u] = s.tcb[u]
          /\ e.tcb[t].state = "HALTED" /\ e.tcb[t].senders = s.tcb[t].senders
          /\ e.tcb[t].joiner = s.tcb[t].joiner
          /\ e.tcb[t].registered_interrupt = s.tcb[t].registered_interrupt
      <3>1. e \in Snapshots /\ Takes(s, e, t, q)
        BY <2>1, <2>2, <2>3, NewThreadAssigned, Zenon
      <3> HIDE DEF e
      <3> QED
        BY <2>1, <2>3, <3>1, Zenon DEF Takes
    <2> HIDE DEF e
    <2>6. Ready(e, {c})
      <3>1. ASSUME NEW p \in Prio PROVE RunnableAt(e, p, {c}) = RunnableAt(s, p, {c})
        BY <2>2, <2>3, <2>5, Zenon DEF RunnableAt
      <3> QED
        BY <2>1, <2>5, <3>1, Zenon DEF Ready
    <2>7. Highest(e)
      BY <2>1, <2>3, <2>5 DEF Highest
    <2>8. w \in Snapshots /\ Becomes(e, w, t, "RUNNABLE", NULL)
      BY <2>2, <2>5, RunnableAssigned, Zenon
    <2> HIDE DEF w
    <2>9. /\ w.chain = s.chain /\ w.pending = s.pending /\ w.free = q
          /\ w.handler = s.handler /\ w.unmasked = s.unmasked
          /\ \A u \in Tcbs \ {t} : w.tcb[u] = s.tcb[u]
          /\ w.tcb[t].state = "RUNNABLE"
          /\ w.tcb[t].senders = s.tcb[t].senders /\ w.tcb[t].joiner = s.tcb[t].joiner
          /\ w.tcb[t].registered_interrupt = s.tcb[t].registered_interrupt
      BY <2>2, <2>5, <2>8 DEF Becomes, Turns
    <2>10. /\ SameFutexes(s, w) /\ SameMessages(s, w)
           /\ SameSignalWaits(s, w) /\ SameHandlers(s, w)
      BY <2>1, <2>3, <2>9
         DEF SameFutexes, SameMessages, SameSignalWaits, SameHandlers, IsSender, DeadStates
    <2>11. Futexes(w) /\ Messages(w) /\ SignalWaits(w) /\ Handlers(w)
      BY <2>1, <2>10, Kept, Zenon
    <2>13. Lives(w)
      <3>1. {u \in Tcbs : w.tcb[u].state = "HALTED"} = H \ {t}
        BY <2>2, <2>9, Zenon
      <3>2. IsList(Tcbs, w.free, {u \in Tcbs : w.tcb[u].state = "HALTED"})
        BY <2>2, <2>9, <3>1, Zenon
      <3>3. s.tcb[t].joiner = NULL
        BY <2>1, <2>2, <2>3, Zenon DEF Waits, Lives, DeadStates
      <3>4. \A u \in Tcbs : w.tcb[u].joiner = s.tcb[u].joiner /\ s.tcb[u].joiner # t
        BY <2>1, <2>2, <2>3, <2>9, Image DEF Waits, Lives, DeadStates
      <3>5. \A u \in Tcbs : s.tcb[u].joiner \in Tcbs \cup {NULL}
        BY <2>1, Types, Zenon
      <3>6. \A u \in Tcbs : w.tcb[u].joiner # NULL =>
               w.tcb[u].state \notin DeadStates /\ w.tcb[w.tcb[u].joiner].state = "WAIT_JOIN"
        BY <2>1, <2>9, <3>3, <3>4, <3>5 DEF Waits, Lives
      <3>7. \A u \in Tcbs : w.tcb[u].state = "WAIT_JOIN" => s.tcb[u].state = "WAIT_JOIN"
        BY <2>9, Zenon
      <3> QED
        BY <2>1, <3>2, <3>4, <3>6, <3>7 DEF Waits, Lives
    <2>15. Waits(w)
      BY <2>11, <2>13, Zenon DEF Waits
    <2> QED
      BY <2>1, <2>2, <2>3, <2>4, <2>5, <2>6, <2>7, <2>15, ActivateScheduleSettles DEF w
  <1> QED
    BY <1>1, <1>2, Zenon

\* thread_reap() halts a zombie and puts it in front of the free list.
LEMMA Reaps ==
    ASSUME NEW s \in Snapshots, NEW t \in Tcbs, s.tcb[t].state = "ZOMBIE",
           IsList(Tcbs, s.free, {u \in Tcbs : s.tcb[u].state = "HALTED"})
    PROVE  LET r == ThreadReap(s, t)
           IN /\ r \in Snapshots
              /\ r.current = s.current /\ r.next = s.next /\ r.ready = s.ready
              /\ r.chain = s.chain /\ r.pending = s.pending /\ r.handler = s.handler
              /\ r.unmasked = s.unmasked /\ r.failed = s.failed
              /\ \A u \in Tcbs \ {t} : r.tcb[u] = s.tcb[u]
              /\ r.tcb[t].state = "HALTED" /\ r.tcb[t].waits_for = s.tcb[t].waits_for
              /\ r.tcb[t].priority = s.tcb[t].priority
              /\ r.tcb[t].senders = s.tcb[t].senders /\ r.tcb[t].joiner = s.tcb[t].joiner
              /\ r.tcb[t].registered_interrupt = s.tcb[t].registered_interrupt
              /\ IsList(Tcbs, r.free, {u \in Tcbs : r.tcb[u].state = "HALTED"})
  <1> DEFINE H == {u \in Tcbs : s.tcb[u].state = "HALTED"}
             a == SetState(s, t, "HALTED")
             q == <<t>> \o s.free
             r == ThreadReap(s, t)
  <1>1. a \in Snapshots /\ Becomes(s, a, t, "HALTED", s.tcb[t].waits_for)
    BY StateAssigned, Zenon DEF ThreadStates, DeadStates
  <1>2. IsList(Tcbs, q, H \cup {t})
    BY ListPush, Zenon
  <1>3. q \in Seq(Tcbs)
    BY <1>2, Zenon DEF IsList
  <1>4. a.free = s.free
    BY <1>1, Zenon DEF Becomes, Turns
  <1>5. r = [a EXCEPT !.free = q]
    <2>1. r = [a EXCEPT !.free = <<t>> \o a.free]
      <3> HIDE DEF a
      <3> QED
        BY <1>1, Zenon DEF ThreadReap, Require, a
    <2> HIDE DEF a, r
    <2> QED
      BY <1>4, <2>1, Zenon
  <1> HIDE DEF a, r, q, H
  <1>6. /\ r \in Snapshots /\ r.free = q /\ r.tcb = a.tcb
        /\ r.current = a.current /\ r.next = a.next /\ r.ready = a.ready
        /\ r.chain = a.chain /\ r.pending = a.pending /\ r.handler = a.handler
        /\ r.unmasked = a.unmasked /\ r.failed = a.failed
    BY <1>1, <1>3, <1>5, Zenon DEF Snapshots
  <1>7. {u \in Tcbs : r.tcb[u].state = "HALTED"} = H \cup {t}
    BY <1>1, <1>6 DEF Becomes, Turns, H
  <1> QED
    BY <1>1, <1>2, <1>6, <1>7, Zenon DEF Becomes, Turns, r

\* sys_thread_join() of a zombie.
LEMMA ReapSettles ==
    ASSUME NEW s, Called(s), NEW t \in Tcbs, s.tcb[t].state = "ZOMBIE"
    PROVE  Settled(ThreadReap(s, t))
  <1> DEFINE r == ThreadReap(s, t)
  <1>1. s \in Snapshots /\ Waits(s) /\ Settled(s)
    BY CallerRuns, Zenon DEF Called
  <1>2. IsList(Tcbs, s.free, {u \in Tcbs : s.tcb[u].state = "HALTED"})
    BY <1>1, Zenon DEF Waits, Lives
  <1>3. /\ r \in Snapshots
        /\ r.current = s.current /\ r.next = s.next /\ r.ready = s.ready
        /\ r.chain = s.chain /\ r.pending = s.pending /\ r.handler = s.handler
        /\ r.unmasked = s.unmasked /\ r.failed = s.failed
        /\ \A u \in Tcbs \ {t} : r.tcb[u] = s.tcb[u]
        /\ r.tcb[t].state = "HALTED" /\ r.tcb[t].waits_for = s.tcb[t].waits_for
        /\ r.tcb[t].priority = s.tcb[t].priority
        /\ r.tcb[t].senders = s.tcb[t].senders /\ r.tcb[t].joiner = s.tcb[t].joiner
        /\ r.tcb[t].registered_interrupt = s.tcb[t].registered_interrupt
        /\ IsList(Tcbs, r.free, {u \in Tcbs : r.tcb[u].state = "HALTED"})
    BY <1>1, <1>2, Reaps, Zenon
  <1> SUFFICES Settled(r)
    BY Zenon
  <1> HIDE DEF r
  <1>4. /\ SameFutexes(s, r) /\ SameMessages(s, r)
        /\ SameSignalWaits(s, r) /\ SameHandlers(s, r)
    BY <1>1, <1>3
       DEF SameFutexes, SameMessages, SameSignalWaits, SameHandlers, IsSender, DeadStates
  <1>5. Futexes(r) /\ Messages(r) /\ SignalWaits(r) /\ Handlers(r)
    BY <1>1, <1>4, Kept, Zenon
  <1>7. Lives(r)
    <2>1. \A u \in Tcbs : /\ r.tcb[u].joiner = s.tcb[u].joiner
                          /\ r.tcb[u].state \in DeadStates <=> s.tcb[u].state \in DeadStates
                          /\ r.tcb[u].state = "WAIT_JOIN" <=> s.tcb[u].state = "WAIT_JOIN"
      BY <1>3, Zenon DEF DeadStates
    <2>2. \A u \in Tcbs : s.tcb[u].joiner \in Tcbs \cup {NULL}
      BY <1>1, Types, Zenon
    <2> QED
      BY <1>1, <1>3, <2>1, <2>2 DEF Waits, Lives
  <1>9. SameRunning(s, r)
    BY <1>3 DEF SameRunning
  <1> QED
    BY <1>1, <1>3, <1>5, <1>7, <1>9, StaysSettled, Zenon DEF Waits

\* sys_thread_join() of a thread that lives and that nobody has joined: the caller sleeps.
LEMMA JoinSleepSettles ==
    ASSUME NEW s, Called(s), NEW dest \in Tcbs, s.tcb[dest].state \notin DeadStates,
           s.tcb[dest].joiner = NULL
    PROVE  Settled([DeactivateSelfSchedule(s, "WAIT_JOIN") EXCEPT !.tcb[dest].joiner = s.current])
  <1> DEFINE c == s.current
             d == SetState(s, c, "WAIT_JOIN")
             a == DeactivateSelfSchedule(s, "WAIT_JOIN")
             r == [a EXCEPT !.tcb[dest].joiner = c]
  <1>1. /\ s \in Snapshots /\ s.failed = {} /\ Waits(s) /\ c \in Tcbs
        /\ s.tcb[c].state = "RUNNABLE" /\ Ready(s, {c}) /\ c # NULL
    BY CallerRuns, Zenon
  <1>2. /\ a \in Snapshots /\ OnlySchedules(d, a)
        /\ d \in Snapshots /\ Becomes(s, d, c, "WAIT_JOIN", s.tcb[c].waits_for)
        /\ Ready(a, {a.next}) /\ Highest(a)
    BY <1>1, Deschedules, Zenon DEF ThreadStates, WaitStates
  <1> HIDE DEF a, d
  <1>3. /\ r \in Snapshots /\ Assigns(a, r, dest) /\ r.tcb[dest].joiner = c
        /\ r.tcb[dest].senders = a.tcb[dest].senders /\ r.tcb[dest].signals = a.tcb[dest].signals
        /\ r.tcb[dest].registered_interrupt = a.tcb[dest].registered_interrupt
    BY <1>1, <1>2, JoinerAssigned
  <1> SUFFICES Settled(r)
    BY Zenon DEF a
  <1> HIDE DEF r
  <1>4. Ready(r, {r.next}) /\ Highest(r)
    <2>1. SameRunning(a, r)
      BY <1>3, Zenon DEF Assigns, SameRunning
    <2> QED
      BY <1>2, <2>1, SameRunningKeeps, Zenon DEF SameRunning
  <1>5. /\ a.chain = s.chain /\ a.pending = s.pending /\ a.free = s.free
        /\ a.handler = s.handler /\ a.unmasked = s.unmasked /\ a.failed = {}
        /\ \A u \in Tcbs \ {c} : a.tcb[u] = s.tcb[u]
        /\ a.tcb[c].state = "WAIT_JOIN"
        /\ \A u \in Tcbs : /\ a.tcb[u].senders = s.tcb[u].senders
                           /\ a.tcb[u].waits_for = s.tcb[u].waits_for
                           /\ a.tcb[u].priority = s.tcb[u].priority
                           /\ a.tcb[u].signals = s.tcb[u].signals
                           /\ a.tcb[u].joiner = s.tcb[u].joiner
                           /\ a.tcb[u].registered_interrupt = s.tcb[u].registered_interrupt
    BY <1>1, <1>2 DEF Becomes, Turns, OnlySchedules
  <1>6. /\ r.chain = s.chain /\ r.pending = s.pending /\ r.free = s.free
        /\ r.handler = s.handler /\ r.unmasked = s.unmasked /\ r.failed = {}
    BY <1>3, <1>5, Zenon DEF Assigns
  <1>7. \A u \in Tcbs : /\ r.tcb[u].state = (IF u = c THEN "WAIT_JOIN" ELSE s.tcb[u].state)
                        /\ r.tcb[u].joiner = (IF u = dest THEN c ELSE s.tcb[u].joiner)
                        /\ r.tcb[u].senders = s.tcb[u].senders
                        /\ r.tcb[u].waits_for = s.tcb[u].waits_for
                        /\ r.tcb[u].priority = s.tcb[u].priority
                        /\ r.tcb[u].signals = s.tcb[u].signals
                        /\ r.tcb[u].registered_interrupt = s.tcb[u].registered_interrupt
    BY <1>3, <1>5 DEF Assigns
  <1>8. /\ SameFutexes(s, r) /\ SameMessages(s, r)
        /\ SameSignalWaits(s, r) /\ SameHandlers(s, r)
    BY <1>1, <1>6, <1>7
       DEF SameFutexes, SameMessages, SameSignalWaits, SameHandlers, IsSender, DeadStates
  <1>9. Futexes(r) /\ Messages(r) /\ SignalWaits(r) /\ Handlers(r)
    BY <1>1, <1>8, Kept, Zenon
  <1>11. Lives(r)
    <2>1. {u \in Tcbs : r.tcb[u].state = "HALTED"} = {u \in Tcbs : s.tcb[u].state = "HALTED"}
      BY <1>1, <1>7
    <2>2. \A u \in Tcbs : s.tcb[u].joiner \in Tcbs \cup {NULL} /\ s.tcb[u].joiner # c
      BY <1>1, Types, Zenon DEF Waits, Lives
    <2>3. \A u \in Tcbs : r.tcb[u].joiner # NULL =>
            r.tcb[u].state \notin DeadStates /\ r.tcb[r.tcb[u].joiner].state = "WAIT_JOIN"
      BY <1>1, <1>7, <2>2 DEF Waits, Lives, DeadStates
    <2>4. \A u, v \in Tcbs :
            r.tcb[u].joiner # NULL /\ r.tcb[u].joiner = r.tcb[v].joiner => u = v
      BY <1>1, <1>7, <2>2 DEF Waits, Lives
    <2>5. ASSUME NEW t \in Tcbs, r.tcb[t].state = "WAIT_JOIN"
          PROVE  \E u \in Tcbs : r.tcb[u].joiner = t
      <3>1. CASE t = c
        BY <1>7, <3>1, Zenon
      <3>2. CASE t # c
        <4>1. PICK u \in Tcbs : s.tcb[u].joiner = t
          BY <1>1, <1>7, <2>5, <3>2 DEF Waits, Lives
        <4>2. u # dest
          BY <4>1, Image, Zenon
        <4> QED
          BY <1>7, <4>1, <4>2, Zenon
      <3> QED
        BY <3>1, <3>2, Zenon
    <2> QED
      BY <1>1, <1>6, <2>1, <2>3, <2>4, <2>5, Zenon DEF Waits, Lives
  <1> QED
    BY <1>3, <1>4, <1>6, <1>9, <1>11, Zenon DEF Settled, Waits

\* sys_thread_join()
LEMMA ThreadJoinSettles ==
    ASSUME NEW s, Called(s), NEW dest \in Tcbs
    PROVE  Settled(ThreadJoin(s, dest))
  <1>1. CASE s.tcb[dest].state = "ZOMBIE"
    BY <1>1, ReapSettles, Zenon DEF ThreadJoin
  <1>2. CASE s.tcb[dest].state # "ZOMBIE"
             /\ (s.tcb[dest].state = "HALTED" \/ s.tcb[dest].joiner # NULL)
    BY <1>2, Zenon DEF ThreadJoin, Called
  <1>3. CASE s.tcb[dest].state \notin DeadStates /\ s.tcb[dest].joiner = NULL
    BY <1>3, JoinSleepSettles, Zenon DEF ThreadJoin, DeadStates
  <1> QED
    BY <1>1, <1>2, <1>3, Zenon DEF DeadStates

\* The interrupt of a thread that exits is released.
LEMMA ReleaseSettles ==
    ASSUME NEW s, Called(s)
    PROVE  LET r == ReleaseInterrupt(s, s.current)
           IN /\ Called(r) /\ r.current = s.current
              /\ r.tcb[r.current].registered_interrupt = NULL
              /\ r.tcb[r.current].joiner = s.tcb[s.current].joiner
  <1> DEFINE c == s.current
             i == s.tcb[c].registered_interrupt
             r == [s EXCEPT !.handler[i] = NULL, !.tcb[c].registered_interrupt = NULL]
  <1>1. s \in Snapshots /\ Waits(s) /\ c \in Tcbs
    BY CallerRuns, Zenon
  <1>2. CASE i = NULL
    BY <1>2, Zenon DEF ReleaseInterrupt
  <1>3. CASE i # NULL
    <2>1. i \in Interrupts /\ s.handler[i] = c
      BY <1>1, <1>3, Types DEF Waits, Handlers
    <2>2. ReleaseInterrupt(s, c) = r
      BY <1>3, Zenon DEF ReleaseInterrupt
    <2> HIDE DEF i
    <2>3. r \in Snapshots /\ Registers(s, r, c, i, NULL, NULL)
      BY <1>1, <2>1, InterruptAssigned, Zenon
    <2> HIDE DEF r
    <2>4. Called(r)
      BY <2>1, <2>3, RegistersSettles, Zenon
    <2>5. /\ r.current = c /\ r.tcb[c].registered_interrupt = NULL
          /\ r.tcb[c].joiner = s.tcb[c].joiner
      BY <1>1, <2>3, Zenon DEF Registers
    <2> QED
      BY <2>2, <2>4, <2>5, Zenon
  <1> QED
    BY <1>2, <1>3, Zenon

\* sys_thread_exit() of a thread that nobody has joined: it stays a zombie.
LEMMA ZombieSettles ==
    ASSUME NEW s, Called(s), s.tcb[s.current].registered_interrupt = NULL,
           s.tcb[s.current].joiner = NULL
    PROVE  Settled(DeactivateSelfSchedule(s, "ZOMBIE"))
  <1> DEFINE c == s.current
             d == SetState(s, c, "ZOMBIE")
             r == DeactivateSelfSchedule(s, "ZOMBIE")
  <1>1. /\ s \in Snapshots /\ s.failed = {} /\ Waits(s) /\ c \in Tcbs
        /\ s.tcb[c].state = "RUNNABLE" /\ Ready(s, {c}) /\ c # NULL
    BY CallerRuns, Zenon
  <1>2. /\ r \in Snapshots /\ OnlySchedules(d, r)
        /\ d \in Snapshots /\ Becomes(s, d, c, "ZOMBIE", s.tcb[c].waits_for)
        /\ Ready(r, {r.next}) /\ Highest(r)
    BY <1>1, Deschedules, Zenon DEF ThreadStates, DeadStates
  <1> HIDE DEF r, d
  <1>3. /\ r.chain = s.chain /\ r.pending = s.pending /\ r.free = s.free
        /\ r.handler = s.handler /\ r.unmasked = s.unmasked /\ r.failed = {}
        /\ r.tcb[c].state = "ZOMBIE"
        /\ \A u \in Tcbs : u # c => r.tcb[u] = s.tcb[u]
        /\ \A u \in Tcbs : /\ r.tcb[u].senders = s.tcb[u].senders
                           /\ r.tcb[u].waits_for = s.tcb[u].waits_for
                           /\ r.tcb[u].signals = s.tcb[u].signals
                           /\ r.tcb[u].joiner = s.tcb[u].joiner
                           /\ r.tcb[u].registered_interrupt = s.tcb[u].registered_interrupt
    BY <1>1, <1>2 DEF Becomes, Turns, OnlySchedules
  <1>4. SameFutexes(s, r) /\ SameMessages(s, r) /\ SameSignalWaits(s, r)
    BY <1>1, <1>3, Zenon DEF SameFutexes, SameMessages, SameSignalWaits, IsSender
  <1>5. Futexes(r) /\ Messages(r) /\ SignalWaits(r)
    BY <1>1, <1>4, Kept, Zenon
  <1>7. Lives(r)
    <2>1. {u \in Tcbs : r.tcb[u].state = "HALTED"} = {u \in Tcbs : s.tcb[u].state = "HALTED"}
      BY <1>1, <1>3, Zenon
    <2>2. \A u \in Tcbs : s.tcb[u].joiner \in Tcbs \cup {NULL} /\ s.tcb[u].joiner # c
      BY <1>1, Types, Zenon DEF Waits, Lives
    <2>3. \A u \in Tcbs : r.tcb[u].joiner # NULL =>
            r.tcb[u].state \notin DeadStates /\ r.tcb[r.tcb[u].joiner].state = "WAIT_JOIN"
      BY <1>1, <1>3, <2>2 DEF Waits, Lives
    <2>4. \A u \in Tcbs : r.tcb[u].state = "WAIT_JOIN" => s.tcb[u].state = "WAIT_JOIN"
      BY <1>3, Zenon
    <2>5. \A u, v \in Tcbs :
            r.tcb[u].joiner # NULL /\ r.tcb[u].joiner = r.tcb[v].joiner => u = v
      BY <1>1, <1>3 DEF Waits, Lives
    <2>6. ASSUME NEW t \in Tcbs, r.tcb[t].state = "WAIT_JOIN"
          PROVE  \E u \in Tcbs : r.tcb[u].joiner = t
      <3>1. PICK u \in Tcbs : s.tcb[u].joiner = t
        BY <1>1, <2>4, <2>6 DEF Waits, Lives
      <3> QED
        BY <1>3, <3>1, Zenon
    <2>7. IsList(Tcbs, r.free, {u \in Tcbs : r.tcb[u].state = "HALTED"})
      BY <1>1, <1>3, <2>1, Zenon DEF Waits, Lives
    <2> QED
      BY <2>3, <2>5, <2>6, <2>7, Zenon DEF Lives
  <1>8. Handlers(r)
    <2>1. \A t \in Tcbs : r.tcb[t].state \in DeadStates => r.tcb[t].registered_interrupt = NULL
      BY <1>1, <1>3 DEF Waits, Handlers
    <2>2. \A t \in Tcbs : r.tcb[t].state = "WAIT_INT" <=> s.tcb[t].state = "WAIT_INT"
      BY <1>1, <1>3, Zenon
    <2>3. \A k \in Interrupts : s.handler[k] \in Tcbs \cup {NULL}
      BY <1>1, Types, Zenon
    <2> QED
      BY <1>1, <1>3, <2>1, <2>2, <2>3 DEF Waits, Handlers
  <1> QED
    BY <1>2, <1>3, <1>5, <1>7, <1>8 DEF Settled, Waits, r

\* sys_thread_exit() of a thread that somebody has joined: it is reaped, and the joiner
\* runs again.
LEMMA JoinedExitSettles ==
    ASSUME NEW s, Called(s), s.tcb[s.current].registered_interrupt = NULL,
           s.tcb[s.current].joiner # NULL
    PROVE  Settled(DoSchedule([Activate(ThreadReap(SetState(s, s.current, "ZOMBIE"), s.current),
                                        s.tcb[s.current].joiner)
                               EXCEPT !.tcb[s.current].joiner = NULL]))
  <1> DEFINE c == s.current
             j == s.tcb[c].joiner
             z == SetState(s, c, "ZOMBIE")
             h == ThreadReap(z, c)
             w == SetRunnable(h, j)
             a == Activate(h, j)
             k == [a EXCEPT !.tcb[c].joiner = NULL]
  <1>1. /\ s \in Snapshots /\ s.failed = {} /\ Waits(s) /\ c \in Tcbs
        /\ s.tcb[c].state = "RUNNABLE" /\ Ready(s, {c}) /\ c # NULL
    BY CallerRuns, Zenon
  <1>2. j \in Tcbs /\ s.tcb[j].state = "WAIT_JOIN" /\ j # c
    BY <1>1, Types, Zenon DEF Waits, Lives
  <1>3. z \in Snapshots /\ Becomes(s, z, c, "ZOMBIE", s.tcb[c].waits_for)
    BY <1>1, StateAssigned, Zenon DEF ThreadStates, DeadStates
  <1> HIDE DEF z
  <1>4. IsList(Tcbs, z.free, {u \in Tcbs : z.tcb[u].state = "HALTED"})
    <2>1. {u \in Tcbs : z.tcb[u].state = "HALTED"} = {u \in Tcbs : s.tcb[u].state = "HALTED"}
      BY <1>1, <1>3 DEF Becomes, Turns
    <2> QED
      BY <1>1, <1>3, <2>1, Zenon DEF Waits, Lives, Becomes, Turns
  <1>5. z.tcb[c].state = "ZOMBIE"
    BY <1>3, Zenon DEF Becomes, Turns
  <1>6. /\ h \in Snapshots
        /\ h.current = z.current /\ h.next = z.next /\ h.ready = z.ready
        /\ h.chain = z.chain /\ h.pending = z.pending /\ h.handler = z.handler
        /\ h.unmasked = z.unmasked /\ h.failed = z.failed
        /\ \A u \in Tcbs \ {c} : h.tcb[u] = z.tcb[u]
        /\ h.tcb[c].state = "HALTED" /\ h.tcb[c].waits_for = z.tcb[c].waits_for
        /\ h.tcb[c].senders = z.tcb[c].senders /\ h.tcb[c].joiner = z.tcb[c].joiner
        /\ h.tcb[c].registered_interrupt = z.tcb[c].registered_interrupt
        /\ IsList(Tcbs, h.free, {u \in Tcbs : h.tcb[u].state = "HALTED"})
    BY <1>1, <1>3, <1>4, <1>5, Reaps
  <1> HIDE DEF h
  <1>7. /\ h.ready = s.ready /\ h.chain = s.chain /\ h.pending = s.pending
        /\ h.handler = s.handler /\ h.unmasked = s.unmasked /\ h.failed = {}
        /\ h.tcb[c].state = "HALTED" /\ h.tcb[c].senders = s.tcb[c].senders
        /\ h.tcb[c].joiner = j /\ h.tcb[c].registered_interrupt = NULL
        /\ \A u \in Tcbs : u # c => h.tcb[u] = s.tcb[u]
    BY <1>1, <1>3, <1>6 DEF Becomes, Turns
  <1>8. Ready(h, {c})
    <2>1. ASSUME NEW p \in Prio PROVE RunnableAt(h, p, {c}) = RunnableAt(s, p, {c})
      BY <1>7, Zenon DEF RunnableAt
    <2> QED
      BY <1>1, <1>7, <2>1, Zenon DEF Ready
  <1> HIDE DEF j
  <1>9. w \in Snapshots /\ Becomes(h, w, j, "RUNNABLE", NULL)
    BY <1>2, <1>6, RunnableAssigned, Zenon
  <1> HIDE DEF w
  <1>10. /\ w.chain = s.chain /\ w.pending = s.pending /\ w.free = h.free
         /\ w.handler = s.handler /\ w.unmasked = s.unmasked /\ w.failed = {}
         /\ w.tcb[c] = h.tcb[c] /\ w.tcb[j].state = "RUNNABLE"
         /\ w.tcb[j].senders = s.tcb[j].senders /\ w.tcb[j].joiner = s.tcb[j].joiner
         /\ w.tcb[j].registered_interrupt = s.tcb[j].registered_interrupt
         /\ \A u \in Tcbs \ {c, j} : w.tcb[u] = s.tcb[u]
    BY <1>1, <1>2, <1>7, <1>9 DEF Becomes, Turns
  <1>11. Linked(w)
    <2>1. SameFutexes(s, w) /\ SameMessages(s, w)
      BY <1>1, <1>2, <1>7, <1>10 DEF SameFutexes, SameMessages, IsSender
    <2>2. Futexes(w) /\ Messages(w)
      BY <1>1, <2>1, Kept, Zenon
    <2>3. {u \in Tcbs : w.tcb[u].state = "HALTED"} = {u \in Tcbs : h.tcb[u].state = "HALTED"}
      BY <1>1, <1>2, <1>7, <1>10
    <2> QED
      BY <1>6, <1>10, <2>2, <2>3, Zenon DEF Linked
  <1>12. a \in Snapshots /\ OnlySchedules(w, a) /\ Ready(a, {c})
    <2>1. h.tcb[j].state # "RUNNABLE"
      BY <1>2, <1>7, Zenon
    <2> QED
      BY <1>2, <1>6, <1>8, <1>11, <2>1, Activates, Zenon DEF w
  <1> HIDE DEF a
  <1>13. /\ k \in Snapshots /\ Assigns(a, k, c) /\ k.tcb[c].joiner = NULL
         /\ k.tcb[c].senders = a.tcb[c].senders
         /\ k.tcb[c].registered_interrupt = a.tcb[c].registered_interrupt
    BY <1>1, <1>12, JoinerAssigned
  <1>14. DoSchedule([Activate(ThreadReap(SetState(s, s.current, "ZOMBIE"), s.current),
                              s.tcb[s.current].joiner)
                     EXCEPT !.tcb[s.current].joiner = NULL]) = DoSchedule(k)
    BY Zenon DEF a, h, z, j
  <1> HIDE DEF k
  <1>15. /\ k.chain = s.chain /\ k.pending = s.pending /\ k.free = h.free
         /\ k.handler = s.handler /\ k.unmasked = s.unmasked /\ k.failed = {}
         /\ k.tcb[c].state = "HALTED" /\ k.tcb[c].joiner = NULL
         /\ k.tcb[c].senders = s.tcb[c].senders /\ k.tcb[c].registered_interrupt = NULL
         /\ k.tcb[j].state = "RUNNABLE"
         /\ k.tcb[j].senders = s.tcb[j].senders /\ k.tcb[j].joiner = s.tcb[j].joiner
         /\ k.tcb[j].registered_interrupt = s.tcb[j].registered_interrupt
         /\ \A u \in Tcbs \ {c, j} : k.tcb[u] = s.tcb[u]
    <2>1. a.tcb = w.tcb
      BY <1>12, Zenon DEF OnlySchedules
    <2>2. /\ a.chain = s.chain /\ a.pending = s.pending /\ a.free = h.free
          /\ a.handler = s.handler /\ a.unmasked = s.unmasked /\ a.failed = {}
      BY <1>10, <1>12, Zenon DEF OnlySchedules
    <2>3. /\ k.chain = s.chain /\ k.pending = s.pending /\ k.free = h.free
          /\ k.handler = s.handler /\ k.unmasked = s.unmasked /\ k.failed = {}
      BY <1>13, <2>2, Zenon DEF Assigns
    <2>4. /\ k.tcb[c].state = w.tcb[c].state /\ \A u \in Tcbs : u # c => k.tcb[u] = w.tcb[u]
      BY <1>13, <2>1, Zenon DEF Assigns
    <2> QED
      BY <1>2, <1>7, <1>10, <1>13, <2>1, <2>3, <2>4
  <1>16. Ready(k, {})
    <2>1. SameRunning(a, k)
      BY <1>13 DEF Assigns, SameRunning
    <2>2. Ready(k, {c})
      BY <1>12, <2>1, SameRunningKeeps, Zenon
    <2>3. ASSUME NEW p \in Prio PROVE RunnableAt(k, p, {}) = RunnableAt(k, p, {c})
      BY <1>15, Zenon DEF RunnableAt
    <2> QED
      BY <2>2, <2>3, Zenon DEF Ready
  <1>17. SameFutexes(s, k) /\ SameMessages(s, k) /\ SameSignalWaits(s, k)
    BY <1>1, <1>2, <1>15 DEF SameFutexes, SameMessages, SameSignalWaits, IsSender
  <1>18. Futexes(k) /\ Messages(k) /\ SignalWaits(k)
    BY <1>1, <1>17, Kept, Zenon
  <1>20. Lives(k)
    <2>1. {u \in Tcbs : k.tcb[u].state = "HALTED"} = {u \in Tcbs : h.tcb[u].state = "HALTED"}
      BY <1>1, <1>2, <1>7, <1>15
    <2>2. \A u \in Tcbs : /\ s.tcb[u].joiner \in Tcbs \cup {NULL} /\ s.tcb[u].joiner # c
                          /\ u # c => s.tcb[u].joiner # j
      BY <1>1, <1>2, Types, Image, Zenon DEF Waits, Lives, j
    <2>3. \A u \in Tcbs : u # c => k.tcb[u].joiner = s.tcb[u].joiner
      BY <1>15, Zenon
    <2>4. ASSUME NEW u \in Tcbs, k.tcb[u].joiner # NULL
          PROVE  k.tcb[u].state \notin DeadStates /\ k.tcb[k.tcb[u].joiner].state = "WAIT_JOIN"
      <3>1. u # c /\ k.tcb[u].joiner = s.tcb[u].joiner
        BY <1>15, <2>3, <2>4, Zenon
      <3>2. s.tcb[u].state \notin DeadStates /\ s.tcb[s.tcb[u].joiner].state = "WAIT_JOIN"
        BY <1>1, <2>4, <3>1, Zenon DEF Waits, Lives
      <3>3. s.tcb[u].joiner \in Tcbs \ {c, j}
        BY <2>2, <2>4, <3>1, Zenon
      <3> QED
        BY <1>15, <3>1, <3>2, <3>3 DEF DeadStates
    <2>5. \A u, v \in Tcbs :
            k.tcb[u].joiner # NULL /\ k.tcb[u].joiner = k.tcb[v].joiner => u = v
      BY <1>1, <1>15, <2>3 DEF Waits, Lives
    <2>6. ASSUME NEW t \in Tcbs, k.tcb[t].state = "WAIT_JOIN"
          PROVE  \E u \in Tcbs : k.tcb[u].joiner = t
      <3>1. t # c /\ t # j /\ s.tcb[t].state = "WAIT_JOIN"
        BY <1>15, <2>6, Zenon
      <3>2. PICK u \in Tcbs : s.tcb[u].joiner = t
        BY <1>1, <3>1, Zenon DEF Waits, Lives
      <3>3. u # c
        BY <3>1, <3>2, Zenon DEF j
      <3> QED
        BY <2>3, <3>2, <3>3, Zenon
    <2> QED
      BY <1>6, <1>15, <2>1, <2>4, <2>5, <2>6, Zenon DEF Lives
  <1>21. Handlers(k)
    <2>1. \A t \in Tcbs : /\ k.tcb[t].registered_interrupt = s.tcb[t].registered_interrupt
                          /\ k.tcb[t].state = "WAIT_INT" <=> s.tcb[t].state = "WAIT_INT"
      BY <1>1, <1>2, <1>15, Zenon
    <2>2. \A t \in Tcbs : k.tcb[t].state \in DeadStates => k.tcb[t].registered_interrupt = NULL
      BY <1>1, <1>15 DEF Waits, Handlers, DeadStates
    <2>3. \A i \in Interrupts : s.handler[i] \in Tcbs \cup {NULL}
      BY <1>1, Types, Zenon
    <2> QED
      BY <1>1, <1>15, <2>1, <2>2, <2>3 DEF Waits, Handlers
  <1>22. Waits(k)
    BY <1>18, <1>20, <1>21, Zenon DEF Waits
  <1>23. /\ DoSchedule(k) \in Snapshots /\ OnlySchedules(k, DoSchedule(k))
         /\ Highest(DoSchedule(k)) /\ Ready(DoSchedule(k), {} \cup {DoSchedule(k).next})
    BY <1>13, <1>16, DoScheduleTakes, Zenon
  <1>24. {} \cup {DoSchedule(k).next} = {DoSchedule(k).next} /\ DoSchedule(k).failed = {}
    BY <1>15, <1>23, Zenon DEF OnlySchedules
  <1>25. Waits(DoSchedule(k))
    BY <1>22, <1>23, SchedulingKeepsWaits, Zenon
  <1> QED
    BY <1>14, <1>23, <1>24, <1>25, Zenon DEF Settled

\* sys_thread_exit()
LEMMA ThreadExitSettles ==
    ASSUME NEW s, Called(s)
    PROVE  Settled(ThreadExit(s))
  <1> DEFINE r == ReleaseInterrupt(s, s.current)
             c == s.current
  <1>1. /\ Called(r) /\ r.current = c /\ r.tcb[r.current].registered_interrupt = NULL
        /\ r.tcb[r.current].joiner = s.tcb[c].joiner
    BY ReleaseSettles, Zenon
  <1>2. r.tcb[c].state = "RUNNABLE"
    BY <1>1, CallerRuns, Zenon
  <1>3. ThreadExit(s) =
          DoSchedule(IF s.tcb[c].joiner = NULL THEN DeactivateSelf(r, "ZOMBIE")
                     ELSE [Activate(ThreadReap(DeactivateSelf(r, "ZOMBIE"), c), s.tcb[c].joiner)
                           EXCEPT !.tcb[c].joiner = NULL])
    BY Zenon DEF ThreadExit
  <1> HIDE DEF r
  <1>4. DeactivateSelf(r, "ZOMBIE") = SetState(r, c, "ZOMBIE")
    BY <1>1, <1>2, Zenon DEF DeactivateSelf, Require, IsRunnable
  <1>5. CASE s.tcb[c].joiner = NULL
    <2>1. Settled(DeactivateSelfSchedule(r, "ZOMBIE"))
      BY <1>1, <1>5, ZombieSettles, Zenon
    <2> QED
      BY <1>3, <1>5, <2>1, Zenon DEF DeactivateSelfSchedule
  <1>6. CASE s.tcb[c].joiner # NULL
    <2>1. Settled(DoSchedule([Activate(ThreadReap(SetState(r, c, "ZOMBIE"), c), r.tcb[c].joiner)
                              EXCEPT !.tcb[c].joiner = NULL]))
      BY <1>1, <1>6, JoinedExitSettles, Zenon
    <2> QED
      BY <1>1, <1>3, <1>4, <1>6, <2>1, Zenon
  <1> QED
    BY <1>5, <1>6, Zenon

-----------------------------------------------------------------------------
(* Every step                                                              *)

\* The futex calls.
LEMMA FutexStep == IInv /\ FutexCalls => IInv'
  <1> SUFFICES ASSUME IInv, NEW tag \in Tags, SysFutexWait(tag) \/ SysFutexSignal(tag)
               PROVE  IInv'
    BY Zenon DEF FutexCalls
  <1>1. CASE SysFutexWait(tag)
    <2>1. Settled(FutexWait(S, tag)) /\ Commit(FutexWait(S, tag))
      BY <1>1, UserCalls, FutexCallsSettle, Zenon DEF SysFutexWait
    <2> QED
      BY <2>1, CommitSettles, Zenon
  <1>2. CASE SysFutexSignal(tag)
    <2>1. Settled(FutexSignal(S, tag)) /\ Commit(FutexSignal(S, tag))
      BY <1>2, UserCalls, FutexCallsSettle, Zenon DEF SysFutexSignal
    <2> QED
      BY <2>1, CommitSettles, Zenon
  <1> QED
    BY <1>1, <1>2, Zenon

\* The messages.
LEMMA IpcStep == IInv /\ IpcCalls => IInv'
  <1> SUFFICES ASSUME IInv, IpcCalls PROVE IInv'
    BY Zenon
  <1>1. CASE SysIpcRecv
    <2>1. Settled(Recv(S)) /\ Commit(Recv(S))
      BY <1>1, UserCalls, RecvSettles, Zenon DEF SysIpcRecv
    <2> QED
      BY <2>1, CommitSettles, Zenon
  <1>2. ASSUME NEW dest \in Tcbs, NEW is_call \in BOOLEAN, NEW is_non_blocking \in BOOLEAN,
               SysIpcSend(dest, is_call, is_non_blocking)
        PROVE  IInv'
    <2>1. /\ Settled(DoSend(S, dest, is_call, is_non_blocking))
          /\ Commit(DoSend(S, dest, is_call, is_non_blocking))
      BY <1>2, UserCalls, DoSendSettles, Zenon DEF SysIpcSend
    <2> QED
      BY <2>1, CommitSettles, Zenon
  <1> QED
    BY <1>1, <1>2, Zenon DEF IpcCalls

\* The signals.
LEMMA SignalStep == IInv /\ SignalCalls => IInv'
  <1> SUFFICES ASSUME IInv, NEW mask \in SUBSET Signals,
                      \/ SysSignalPoll(mask) \/ SysSignalWait(mask)
                      \/ \E dest \in Tcbs : SysSignalSend(dest, mask)
               PROVE  IInv'
    BY Zenon DEF SignalCalls
  <1>1. CASE SysSignalPoll(mask)
    <2>1. Called(S) /\ S.current = current /\ Commit([S EXCEPT !.tcb[S.current].signals = @ \ mask])
      BY <1>1, UserCalls, Zenon DEF SysSignalPoll
    <2>2. Settled([S EXCEPT !.tcb[S.current].signals = @ \ mask])
      BY <2>1, SignalsTakenSettles, Zenon
    <2> QED
      BY <2>1, <2>2, CommitSettles, Zenon
  <1>2. CASE SysSignalWait(mask)
    <2>1. Settled(SignalWait(S, mask)) /\ Commit(SignalWait(S, mask))
      BY <1>2, UserCalls, SignalWaitSettles, Zenon DEF SysSignalWait
    <2> QED
      BY <2>1, CommitSettles, Zenon
  <1>3. ASSUME NEW dest \in Tcbs, SysSignalSend(dest, mask)
        PROVE  IInv'
    <2>1. Settled(SignalSend(S, dest, mask)) /\ Commit(SignalSend(S, dest, mask))
      BY <1>3, UserCalls, SignalSendSettles, Zenon DEF SysSignalSend
    <2> QED
      BY <2>1, CommitSettles, Zenon
  <1> QED
    BY <1>1, <1>2, <1>3, Zenon

\* yield() and the thread calls.
LEMMA ThreadStep == IInv /\ ThreadCalls => IInv'
  <1> SUFFICES ASSUME IInv, ThreadCalls PROVE IInv'
    BY Zenon
  <1>1. CASE SysYield
    <2>1. Settled(Yield(S)) /\ Commit(Yield(S))
      BY <1>1, UserCalls, YieldSettles, Zenon DEF SysYield
    <2> QED
      BY <2>1, CommitSettles, Zenon
  <1>2. CASE SysThreadExit
    <2>1. Settled(ThreadExit(S)) /\ Commit(ThreadExit(S))
      BY <1>2, UserCalls, ThreadExitSettles, Zenon DEF SysThreadExit
    <2> QED
      BY <2>1, CommitSettles, Zenon
  <1>3. ASSUME NEW prio \in Prio, SysThreadCreate(prio)
        PROVE  IInv'
    <2>1. Settled(ThreadCreate(S, prio)) /\ Commit(ThreadCreate(S, prio))
      BY <1>3, UserCalls, ThreadCreateSettles, Zenon DEF SysThreadCreate
    <2> QED
      BY <2>1, CommitSettles, Zenon
  <1>4. ASSUME NEW dest \in Tcbs, SysThreadJoin(dest)
        PROVE  IInv'
    <2>1. Settled(ThreadJoin(S, dest)) /\ Commit(ThreadJoin(S, dest))
      BY <1>4, UserCalls, ThreadJoinSettles, Zenon DEF SysThreadJoin
    <2> QED
      BY <2>1, CommitSettles, Zenon
  <1> QED
    BY <1>1, <1>2, <1>3, <1>4 DEF ThreadCalls

\* The interrupt calls, and an interrupt.
LEMMA InterruptStep == IInv /\ InterruptCalls => IInv'
  <1> SUFFICES ASSUME IInv, InterruptCalls PROVE IInv'
    BY Zenon
  <1>1. CASE SysInterruptWait
    <2>1. Settled(InterruptWait(S)) /\ Commit(InterruptWait(S))
      BY <1>1, UserCalls, InterruptWaitSettles, Zenon DEF SysInterruptWait
    <2> QED
      BY <2>1, CommitSettles, Zenon
  <1>2. ASSUME NEW i \in Interrupts, SysInterruptRegister(i)
        PROVE  IInv'
    <2> DEFINE r == [S EXCEPT !.handler[i] = S.current, !.tcb[S.current].registered_interrupt = i]
    <2>1. /\ Called(S) /\ S.handler[i] = NULL /\ S.tcb[S.current].registered_interrupt = NULL
          /\ Commit(r)
      BY <1>2, UserCalls, Zenon DEF SysInterruptRegister
    <2>2. S \in Snapshots /\ S.current \in Tcbs
      BY <2>1, CallerRuns, Zenon
    <2>3. r \in Snapshots /\ Registers(S, r, S.current, i, S.current, i)
      BY <2>2, InterruptAssigned, Zenon
    <2> HIDE DEF r
    <2>4. Settled(r)
      BY <2>1, <2>2, <2>3, RegistersSettles DEF Called
    <2> QED
      BY <2>1, <2>4, CommitSettles, Zenon
  <1>3. ASSUME NEW i \in Interrupts, SysInterruptDeregister(i)
        PROVE  IInv'
    <2> DEFINE r == [S EXCEPT !.handler[i] = NULL, !.tcb[S.current].registered_interrupt = NULL]
    <2>1. Called(S) /\ S.handler[i] = S.current /\ Commit(r)
      BY <1>3, UserCalls, Zenon DEF SysInterruptDeregister
    <2>2. S \in Snapshots /\ S.current \in Tcbs
      BY <2>1, CallerRuns, Zenon
    <2>3. r \in Snapshots /\ Registers(S, r, S.current, i, NULL, NULL)
      BY <2>2, InterruptAssigned, Zenon
    <2> HIDE DEF r
    <2>4. Settled(r)
      BY <2>1, <2>2, <2>3, RegistersSettles, Zenon DEF Called
    <2> QED
      BY <2>1, <2>4, CommitSettles, Zenon
  <1>4. ASSUME NEW i \in Interrupts, TakeInterrupt(i)
        PROVE  IInv'
    <2>1. /\ Settled(S) /\ S.current \in Tcbs \cup {idle} /\ S.next = S.current
          /\ i \in S.unmasked /\ Commit(HandleInterrupt(S, i))
      BY <1>4, Zenon DEF TakeInterrupt, IInv, Settled, Snapshots, S
    <2>2. Settled(HandleInterrupt(S, i))
      BY <2>1, HandleInterruptSettles, Zenon
    <2> QED
      BY <2>1, <2>2, CommitSettles, Zenon
  <1> QED
    BY <1>1, <1>2, <1>3, <1>4, Zenon DEF InterruptCalls

\* Every step of the nanokernel keeps the invariant.
LEMMA NextSettles == IInv /\ [Next]_vars => IInv'
  <1> SUFFICES ASSUME IInv, [Next]_vars PROVE IInv'
    BY Zenon
  <1>1. CASE KernelMain
    <2>1. Settled(S) /\ S.next = NULL /\ Commit(DoSchedule(S))
      BY <1>1, Zenon DEF KernelMain, IInv, S
    <2>2. Settled(DoSchedule(S))
      BY <2>1, KernelMainSettles, Zenon
    <2> QED
      BY <2>1, <2>2, CommitSettles, Zenon
  <1>2. CASE FutexCalls
    BY <1>2, FutexStep, Zenon
  <1>3. CASE IpcCalls
    BY <1>3, IpcStep, Zenon
  <1>4. CASE SignalCalls
    BY <1>4, SignalStep, Zenon
  <1>5. CASE ThreadCalls
    BY <1>5, ThreadStep, Zenon
  <1>6. CASE InterruptCalls
    BY <1>6, InterruptStep, Zenon
  <1>7. CASE UNCHANGED vars
    <2>1. S' = S
      BY <1>7, Zenon DEF vars, S
    <2> QED
      BY <2>1, Zenon DEF IInv
  <1> QED
    BY <1>1, <1>2, <1>3, <1>4, <1>5, <1>6, <1>7 DEF Next

\* The invariant holds in every reachable state, whatever the image and the calls.
THEOREM Invariance == Spec => []IInv
  <1>1. Init => IInv
    BY InitSettles, Zenon
  <1>2. IInv /\ [Next]_vars => IInv'
    BY NextSettles, Zenon
  <1> QED
    BY <1>1, <1>2, PTL DEF Spec

-----------------------------------------------------------------------------
(* The properties                                                          *)

\* The scheduler's promise follows.
LEMMA ConsistentFromInvariant == IInv => NanoConsistent
  <1> SUFFICES ASSUME IInv PROVE NanoConsistent
    BY Zenon
  <1>1. S \in Snapshots /\ S.failed = {} /\ Ready(S, {S.next}) /\ Highest(S) /\ Futexes(S)
    BY Zenon DEF IInv, Settled, Waits
  <1>2. /\ S.tcb = tcb /\ S.current = current /\ S.next = current /\ S.ready = ready
        /\ S.free = free /\ S.chain = chain /\ S.pending = pending /\ S.handler = handler
        /\ S.unmasked = unmasked /\ S.failed = failed
    BY Zenon DEF S
  <1>3. TypeOK
    BY <1>1, <1>2, Types, Zenon DEF TypeOK, Futexes
  <1>4. \A p \in Prio :
          /\ NoRepeats(ready[p])
          /\ Members(ready[p]) = {t \in Tcbs \ {current} : Blocked(t, {"RUNNABLE"})
                                                         /\ tcb[t].priority = p}
    BY <1>1, <1>2, Zenon DEF Ready, RunnableAt, IsList, Blocked
  <1>5. \/ GetHighestPriority(S) = -1
        \/ GetHighestPriority(S) \in Prio /\ ready[GetHighestPriority(S)] # <<>>
    BY <1>2, HighestPriority, Zenon
  <1>6. ASSUME current \in Tcbs
        PROVE  Blocked(current, {"RUNNABLE"}) /\ GetHighestPriority(S) <= tcb[current].priority
    <2>1. /\ tcb[current].state = "RUNNABLE"
          /\ \A p \in Prio : ready[p] # <<>> => p <= tcb[current].priority
      BY <1>1, <1>2, <1>6, Zenon DEF Highest
    <2>2. tcb[current].priority \in Nat
      BY <1>1, <1>2, <1>6, Types, Image, Zenon
    <2>3. GetHighestPriority(S) <= tcb[current].priority
      BY <1>5, <2>1, <2>2
    <2> QED
      BY <2>1, <2>3, Zenon DEF Blocked
  <1>7. ASSUME current = idle PROVE GetHighestPriority(S) = -1
    BY <1>1, <1>2, <1>5, <1>7, Zenon DEF Highest
  <1> QED
    BY <1>1, <1>2, <1>3, <1>4, <1>6, <1>7 DEF NanoConsistent, NoAssertionFails, ReadyListsExact

\* Types, assertions and ready lists, for every image.
THEOREM Consistency == Spec => []NanoConsistent
  BY Invariance, ConsistentFromInvariant, PTL

\* Nobody sleeps over a wakeup.
LEMMA WakeupFromInvariant == IInv => NoLostWakeup
  <1> SUFFICES ASSUME IInv PROVE NoLostWakeup
    BY Zenon
  <1>1. Futexes(S) /\ SignalWaits(S)
    BY Zenon DEF IInv, Settled, Waits
  <1>2. S.tcb = tcb /\ S.chain = chain /\ S.pending = pending
    BY Zenon DEF S
  <1>3. ASSUME NEW t \in Tcbs, Blocked(t, {"WAIT_FUTEX"})
        PROVE  PendingFor(S, tcb[t].waits_for) = {}
    BY <1>1, <1>2, <1>3, Zenon DEF Futexes, Blocked, PendingFor
  <1>4. ASSUME NEW t \in Tcbs, Blocked(t, {"WAIT_SIGNAL"})
        PROVE  tcb[t].signals \cap tcb[t].waits_for = {}
    BY <1>1, <1>2, <1>4, Zenon DEF SignalWaits, Blocked
  <1>5. ASSUME NEW h \in Slots
        PROVE  /\ NoRepeats(chain[h])
               /\ Members(chain[h]) = {t \in Tcbs : Blocked(t, {"WAIT_FUTEX"})
                                                  /\ hash_tag[tcb[t].waits_for] = h}
               /\ \A i, j \in DOMAIN chain[h] :
                    i < j => tcb[chain[h][i]].priority >= tcb[chain[h][j]].priority
    BY <1>1, <1>2, Zenon DEF Futexes, IsList, Sleepers, Falling, Blocked
  <1> QED
    BY <1>3, <1>4, <1>5, Zenon DEF NoLostWakeup

\* No wakeup is lost, for every image.
THEOREM Wakeups == Spec => []NoLostWakeup
  BY Invariance, WakeupFromInvariant, PTL

\* Senders and receivers find each other.
LEMMA RendezvousFromInvariant == IInv => SendersNotMissed
  <1> SUFFICES ASSUME IInv PROVE SendersNotMissed
    BY Zenon
  <1>1. Messages(S)
    BY Zenon DEF IInv, Settled, Waits
  <1>2. S.tcb = tcb
    BY Zenon DEF S
  <1>3. \A src, dest \in Tcbs : src \in Members(tcb[dest].senders) <=>
          Blocked(src, {"WAIT_IPC_SEND", "WAIT_IPC_CALL"}) /\ tcb[src].waits_for = dest
    BY <1>1, <1>2 DEF Messages, IsList, SendersTo, IsSender, Blocked
  <1>4. ASSUME NEW src \in Tcbs, NEW dest \in Tcbs, src \in Members(tcb[dest].senders)
        PROVE  ~IsReadyToReceive(S, src, dest)
    <2>1. src \in SendersTo(S, dest)
      BY <1>2, <1>3, <1>4, Zenon DEF SendersTo, IsSender, Blocked
    <2> QED
      BY <1>1, <2>1, Zenon DEF Messages, IsReadyToReceive
  <1>5. ASSUME NEW src \in Tcbs, Blocked(src, {"WAIT_IPC_SEND", "WAIT_IPC_CALL"})
        PROVE  {dest \in Tcbs : src \in Members(tcb[dest].senders)} = {tcb[src].waits_for}
    <2>1. tcb[src].waits_for \in Tcbs
      BY <1>1, <1>2, <1>5, Zenon DEF Messages, IsSender, Blocked
    <2> QED
      BY <1>3, <1>5, <2>1, Zenon
  <1> QED
    BY <1>3, <1>4, <1>5, Zenon DEF SendersNotMissed

\* No rendezvous is missed, for every image.
THEOREM Rendezvous == Spec => []SendersNotMissed
  BY Invariance, RendezvousFromInvariant, PTL

\* An interrupt that gets through finds its handler.
LEMMA HandlersFromInvariant == IInv => InterruptsHaveWaiters
  <1> SUFFICES ASSUME IInv PROVE InterruptsHaveWaiters
    BY Zenon
  <1>1. Handlers(S)
    BY Zenon DEF IInv, Settled, Waits
  <1>2. S.tcb = tcb /\ S.handler = handler /\ S.unmasked = unmasked
    BY Zenon DEF S
  <1>3. \A i \in Interrupts :
          i \in unmasked <=> handler[i] # NULL /\ Blocked(handler[i], {"WAIT_INT"})
    BY <1>1, <1>2, Zenon DEF Handlers, Blocked
  <1>4. \A i \in Interrupts, t \in Tcbs :
          handler[i] = t <=> tcb[t].registered_interrupt = i /\ IsAlive(S, t)
    BY <1>1, <1>2, Image DEF Handlers, IsAlive
  <1>5. \A t \in Tcbs : Blocked(t, {"WAIT_INT"}) => tcb[t].registered_interrupt # NULL
    BY <1>1, <1>2, Zenon DEF Handlers, Blocked
  <1> QED
    BY <1>3, <1>4, <1>5, Zenon DEF InterruptsHaveWaiters

\* Interrupts get through exactly while their handlers wait, for every image.
THEOREM InterruptHandlers == Spec => []InterruptsHaveWaiters
  BY Invariance, HandlersFromInvariant, PTL

\* The free list and the joiners.
LEMMA LivesFromInvariant == IInv => ThreadsAccountedFor
  <1> SUFFICES ASSUME IInv PROVE ThreadsAccountedFor
    BY Zenon
  <1>1. S \in Snapshots /\ Lives(S)
    BY Zenon DEF IInv, Settled, Waits
  <1>2. S.tcb = tcb /\ S.free = free
    BY Zenon DEF S
  <1>3. NoRepeats(free) /\ Members(free) = {t \in Tcbs : Blocked(t, {"HALTED"})}
    BY <1>1, <1>2, Zenon DEF Lives, IsList, Blocked
  <1>4. \A t \in Tcbs : Blocked(t, {"WAIT_JOIN"}) <=> \E u \in Tcbs : tcb[u].joiner = t
    BY <1>1, <1>2, Image DEF Lives, Blocked
  <1>5. \A u, v \in Tcbs : tcb[u].joiner # NULL =>
          IsAlive(S, u) /\ (tcb[v].joiner = tcb[u].joiner => u = v)
    BY <1>1, <1>2, Zenon DEF Lives, IsAlive
  <1> QED
    BY <1>3, <1>4, <1>5, Zenon DEF ThreadsAccountedFor

\* No thread is forgotten, for every image.
THEOREM Accounting == Spec => []ThreadsAccountedFor
  BY Invariance, LivesFromInvariant, PTL
=============================================================================
