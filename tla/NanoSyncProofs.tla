--------------------------- MODULE NanoSyncProofs ---------------------------
(***************************************************************************)
(* The library's synchronisation objects on the nanokernel: for every      *)
(* image with a spare tcb, any number of workers from two up and any       *)
(* positive number of permits, the lock and the semaphore implement        *)
(* FutexSemaphore and the barrier implements Barrier, no assertion fails   *)
(* and the kernel has room for every signal.                               *)
(*                                                                         *)
(* SyncBarrierProofs says what the objects do when the kernel serves their *)
(* futex calls, and NanoFutexProofs what the kernel's calls do: the first  *)
(* part below puts the two together.  The second goes through the steps of *)
(* the composition.  The last takes the accounts of the permits from       *)
(* FutexSemaphoreProofs, where they are proved for the abstract protocol,  *)
(* and uses them to go from one step of the composition to the next.       *)
(***************************************************************************)
EXTENDS SyncObjects, SyncBarrierProofs, NanoFutexProofs

-----------------------------------------------------------------------------
(* The kernel serves the library                                           *)

\* The threads of the image do what they were made for, and every signal that is kept is
\* for one of the objects.
Roles ==
    /\ \A t \in Workers : tcb[t].state \in {"RUNNABLE", "WAIT_FUTEX"}
    /\ tcb[irq_thread].state \in {"RUNNABLE", "WAIT_INT"}
    /\ \A t \in Members(Spare) : tcb[t].state = "HALTED"
    /\ pc[irq_thread] \in {<<"irq", "register">>, <<"irq", "wait">>}
    /\ pending \in Seq(UsedTags)

\* The threads of the image.
LEMMA ImageThreads ==
    /\ \A t \in Tcbs : t \in Workers \/ t = irq_thread \/ t \in Members(Spare)
    /\ Workers \subseteq Tcbs /\ irq_thread \in Tcbs /\ irq_thread \notin Workers
    /\ \A t \in Workers \cup {irq_thread} : t \notin Members(Spare)
    /\ \A t \in Members(Spare) : t \in Tcbs
  <1>1. Tcbs \ Members(Spare) = Workers \cup {irq_thread} /\ irq_thread \notin Workers
    BY SyncAssumption, Zenon
  <1>2. \A t \in Members(Spare) : t \in Tcbs
    <2>1. Spare \in Seq(Tcbs)
      BY ImageAssumption, Zenon
    <2> QED
      BY <2>1, Places
  <1> QED
    BY <1>1, <1>2, Zenon

\* The snapshot and the variables.
LEMMA Snapshot ==
    /\ S.tcb = tcb /\ S.pending = pending /\ S.current = current /\ S.next = current
    /\ S.unmasked = unmasked /\ S.handler = handler /\ S.failed = failed
  BY Zenon DEF S

\* switch_to() makes the snapshot's threads and signals those of the kernel.
LEMMA Committed ==
    ASSUME NEW s, Commit(s)
    PROVE  tcb' = s.tcb /\ pending' = s.pending /\ S'.pending = s.pending
  BY Zenon DEF Commit, S

\* The thread that runs is a worker or the handler.
LEMMA Runner ==
    ASSUME IInv, Roles, current \in Tcbs
    PROVE  current \in Workers \cup {irq_thread} /\ tcb[current].state = "RUNNABLE"
  <1>1. tcb[current].state = "RUNNABLE"
    BY Snapshot, Zenon DEF IInv, Settled, Highest
  <1>2. current \notin Members(Spare)
    BY <1>1, Zenon DEF Roles
  <1> QED
    BY <1>1, <1>2, ImageThreads, Zenon

\* sys_futex_wait() does what the library expects.
LEMMA WaitServed ==
    ASSUME IInv, Roles, InUser, current \in Workers, NEW x \in UsedTags,
           Syscall(FutexWait(S, x)), pc'[irq_thread] = pc[irq_thread]
    PROVE  IInv' /\ Roles' /\ Waited(x)
  <1> DEFINE r == FutexWait(S, x)
  <1>1. Called(S) /\ x \in Tags /\ Commit(r)
    BY UserCalls, Addresses, Zenon DEF Syscall
  <1>2. IInv'
    BY <1>1, FutexCallsSettle, CommitSettles, Zenon
  <1>3. tcb' = r.tcb /\ pending' = r.pending /\ S'.pending = r.pending
    BY <1>1, Committed, Zenon
  <1>4. \/ /\ r.tcb = S.tcb
           /\ \E i \in PendingFor(S, x) : /\ r.pending = TakePending(S, i).pending
                                          /\ \A j \in PendingFor(S, x) : j <= i
        \/ /\ PendingFor(S, x) = {} /\ r.pending = S.pending
           /\ Changes(S, r, S.current, "WAIT_FUTEX", x)
    BY <1>1, FutexWaitDoes, Zenon
  <1> HIDE DEF r
  <1>5. CASE /\ r.tcb = S.tcb
             /\ \E i \in PendingFor(S, x) : /\ r.pending = TakePending(S, i).pending
                                            /\ \A j \in PendingFor(S, x) : j <= i
    <2>1. PICK i \in PendingFor(S, x) : /\ r.pending = TakePending(S, i).pending
                                        /\ \A j \in PendingFor(S, x) : j <= i
      BY <1>5, Zenon
    <2>2. pending' = [j \in 1 .. (Len(pending) - 1) |-> pending[IF j = i THEN Len(pending) ELSE j]]
      <3>1. TakePending(S, i).pending =
              [j \in 1 .. (Len(pending) - 1) |-> pending[IF j = i THEN Len(pending) ELSE j]]
        BY Zenon DEF TakePending, S
      <3> QED
        BY <1>3, <2>1, <3>1, Zenon
    <2>3. pending \in Seq(UsedTags)
      BY Zenon DEF Roles
    <2>4. pending' \in Seq(UsedTags) /\ kept[x] > 0 /\ kept' = [kept EXCEPT ![x] = @ - 1]
      BY <2>1, <2>2, <2>3, KeptTaken, Zenon
    <2>5. tcb' = tcb
      BY <1>3, <1>5, Snapshot, Zenon
    <2>6. sleep' = sleep
      BY <2>5, Zenon DEF sleep
    <2>9. Roles'
      BY <2>4, <2>5, Zenon DEF Roles
    <2> QED
      BY <1>2, <2>4, <2>6, <2>9, Zenon DEF Waited
  <1>6. CASE /\ PendingFor(S, x) = {} /\ r.pending = S.pending
             /\ Changes(S, r, S.current, "WAIT_FUTEX", x)
    <2>1. pending' = pending /\ S'.pending = S.pending
      BY <1>3, <1>6, Snapshot, Zenon
    <2>2. /\ \A u \in Tcbs \ {current} : tcb'[u] = tcb[u]
          /\ tcb'[current].state = "WAIT_FUTEX" /\ tcb'[current].waits_for = x
      BY <1>3, <1>6, Snapshot, Zenon DEF Changes
    <2>3. kept' = kept
      BY <2>1, Zenon DEF kept, PendingFor
    <2>4. kept[x] = 0
      BY <1>6, FS_EmptySet, Zenon DEF kept
    <2>5. sleep' = [sleep EXCEPT ![current] = x]
      BY <2>2, ImageThreads, Zenon DEF sleep
    <2>6. Roles'
      BY <2>1, <2>2, ImageThreads, Zenon DEF Roles
    <2> QED
      BY <1>2, <2>3, <2>4, <2>5, <2>6, Zenon DEF Waited
  <1> QED
    BY <1>4, <1>5, <1>6, Zenon

\* sys_futex_signal() does what the library expects, if the array has room.
LEMMA SignalServed ==
    ASSUME IInv, Roles, InUser, current \in Workers, Len(pending) < max_tcbs, NEW x \in UsedTags,
           Syscall(FutexSignal(S, x)), pc'[irq_thread] = pc[irq_thread]
    PROVE  IInv' /\ Roles' /\ Signalled(x)
  <1> DEFINE r == FutexSignal(S, x)
  <1>1. Called(S) /\ x \in Tags /\ Commit(r) /\ Len(S.pending) < max_tcbs
    BY UserCalls, Addresses, Snapshot, Zenon DEF Syscall
  <1>2. IInv'
    BY <1>1, FutexCallsSettle, CommitSettles, Zenon
  <1>3. tcb' = r.tcb /\ pending' = r.pending /\ S'.pending = r.pending
    BY <1>1, Committed, Zenon
  <1>4. \/ /\ r.pending = S.pending
           /\ \E u \in Tcbs : /\ S.tcb[u].state = "WAIT_FUTEX" /\ S.tcb[u].waits_for = x
                              /\ Changes(S, r, u, "RUNNABLE", NULL)
        \/ /\ \A u \in Tcbs : S.tcb[u].state = "WAIT_FUTEX" => S.tcb[u].waits_for # x
           /\ r.tcb = S.tcb /\ r.pending = Append(S.pending, x)
    BY <1>1, FutexSignalDoes, Zenon
  <1> HIDE DEF r
  <1>5. CASE /\ r.pending = S.pending
             /\ \E u \in Tcbs : /\ S.tcb[u].state = "WAIT_FUTEX" /\ S.tcb[u].waits_for = x
                                /\ Changes(S, r, u, "RUNNABLE", NULL)
    <2>1. PICK u \in Tcbs : /\ tcb[u].state = "WAIT_FUTEX" /\ tcb[u].waits_for = x
                            /\ Changes(S, r, u, "RUNNABLE", NULL)
      BY <1>5, Snapshot, Zenon
    <2>2. pending' = pending /\ S'.pending = S.pending
      BY <1>3, <1>5, Snapshot, Zenon
    <2>3. /\ \A v \in Tcbs \ {u} : tcb'[v] = tcb[v]
          /\ tcb'[u].state = "RUNNABLE"
      BY <1>3, <2>1, Snapshot, Zenon DEF Changes
    <2>4. u \in Workers
      <3>1. u \notin Members(Spare) /\ u # irq_thread
        BY <2>1 DEF Roles
      <3> QED
        BY <3>1, ImageThreads, Zenon
    <2>5. kept' = kept
      BY <2>2, Zenon DEF kept, PendingFor
    <2>6. sleep[u] = x
      BY <2>1, <2>4, Zenon DEF sleep
    <2>7. sleep' = [sleep EXCEPT ![u] = NULL]
      BY <2>3, <2>4, ImageThreads, Zenon DEF sleep
    <2>8. Roles'
      BY <2>2, <2>3, <2>4, ImageThreads, Zenon DEF Roles
    <2> QED
      BY <1>2, <2>4, <2>5, <2>6, <2>7, <2>8, Zenon DEF Signalled
  <1>6. CASE /\ \A u \in Tcbs : S.tcb[u].state = "WAIT_FUTEX" => S.tcb[u].waits_for # x
             /\ r.tcb = S.tcb /\ r.pending = Append(S.pending, x)
    <2>1. pending \in Seq(UsedTags) /\ pending' = Append(pending, x)
      BY <1>3, <1>6, Snapshot, Zenon DEF Roles
    <2>2. pending' \in Seq(UsedTags) /\ kept' = [kept EXCEPT ![x] = @ + 1]
      BY <2>1, KeptAdded, Zenon
    <2>3. tcb' = tcb
      BY <1>3, <1>6, Snapshot, Zenon
    <2>4. sleep' = sleep
      BY <2>3, Zenon DEF sleep
    <2>7. Roles'
      BY <2>2, <2>3, Zenon DEF Roles
    <2>8. \A u \in Workers : sleep[u] # x
      BY <1>6, Snapshot, ImageThreads, Addresses, Zenon DEF sleep
    <2> QED
      BY <1>2, <2>2, <2>4, <2>7, <2>8, Zenon DEF Signalled
  <1> QED
    BY <1>4, <1>5, <1>6, Zenon

-----------------------------------------------------------------------------
(* The steps                                                               *)

\* Every step of a worker is one of the objects, and the kernel's invariant is kept.
LEMMA WorkStep ==
    ASSUME IInv, Roles, Library, Protocol, Work
    PROVE  IInv' /\ Roles' /\ Obeyed
  <1>1. PICK c : c = current
    BY Zenon
  <1>2. InUser /\ pc[c][1] # "irq" /\ c \in Tcbs /\ \E p : pc' = [pc EXCEPT ![c] = p]
    BY <1>1, WorkFrame, Zenon DEF InUser
  <1>3. c \in Workers /\ tcb[c].state = "RUNNABLE"
    <2>1. c \in Workers \cup {irq_thread} /\ tcb[c].state = "RUNNABLE"
      BY <1>1, <1>2, Runner, Zenon
    <2>2. pc[irq_thread][1] = "irq"
      BY DEF Roles
    <2> QED
      BY <1>2, <2>1, <2>2, Zenon
  <1>4. pc'[irq_thread] = pc[irq_thread]
    <2>1. c # irq_thread /\ irq_thread \in DOMAIN pc
      BY <1>3, ImageThreads, Zenon DEF Library, Typed
    <2> QED
      BY <1>2, <2>1, Zenon
  <1>5. Ran(c)
    <2>1. sleep[c] = NULL
      BY <1>3 DEF sleep
    <2> QED
      BY <1>1, <1>3, <2>1, Zenon DEF Ran
  <1>6. Len(pending) < max_tcbs
    BY Bounded, Zenon DEF Roles
  <1>7. ASSUME NEW x \in UsedTags
        PROVE  /\ Syscall(FutexWait(S, x)) => IInv' /\ Roles' /\ Waited(x)
               /\ Syscall(FutexSignal(S, x)) => IInv' /\ Roles' /\ Signalled(x)
    BY <1>1, <1>2, <1>3, <1>4, <1>6, WaitServed, SignalServed, Zenon
  <1>8. Serves
    BY <1>7, Zenon DEF Serves
  <1>9. Obeyed
    BY <1>5, <1>8, WorkObeys, Zenon
  <1>10. ASSUME UNCHANGED vars PROVE IInv' /\ Roles'
    <2>1. S' = S /\ tcb' = tcb /\ pending' = pending
      BY <1>10, Zenon DEF vars, S
    <2>2. IInv'
      BY <2>1, Zenon DEF IInv
    <2> QED
      BY <1>4, <2>1, <2>2, Zenon DEF Roles
  <1> QED
    BY <1>5, <1>7, <1>9, <1>10, WorkCalls, Zenon

\* A thread that is not running is not inside a block.
LEMMA OutsideBlocks ==
    ASSUME Library, NEW t \in Workers, t # current
    PROVE  Fixup(pc[t]) = pc[t]
  <1>1. pc[t][2] # "str"
    BY Zenon DEF Library, EachThread, InBlock
  <1> QED
    BY <1>1, Zenon DEF Fixup

\* The first schedule.
LEMMA StartStep ==
    ASSUME IInv, Roles, Library, Start
    PROVE  IInv' /\ Roles' /\ Fixed
  <1> DEFINE r == DoSchedule(S)
  <1>1. current = NULL /\ Commit(r) /\ UNCHANGED user /\ Settled(S) /\ S.next = NULL
    BY Snapshot, Zenon DEF Start, KernelMain, IInv
  <1>2. IInv'
    BY <1>1, KernelMainSettles, CommitSettles, Zenon
  <1>3. S \in Snapshots /\ Ready(S, {NULL})
    BY <1>1, Zenon DEF Settled
  <1>4. r.tcb = tcb /\ r.pending = pending
    BY <1>3, DoScheduleTakes, Snapshot, Zenon DEF OnlySchedules
  <1>5. tcb' = tcb /\ pending' = pending /\ pc' = pc /\ UNCHANGED <<reg, val, mem>>
    BY <1>1, <1>4, Committed, Zenon DEF user
  <1>6. \A t \in Workers : t # current
    BY <1>1, ImageThreads, Image, Zenon
  <1>7. Fixed
    <2>1. \A t \in Workers : pc'[t] = Fixup(pc[t])
      BY <1>5, <1>6, OutsideBlocks, Zenon
    <2> QED
      BY <1>5, <2>1, QuietStep, Zenon DEF Fixed
  <1>8. Roles'
    BY <1>5, Zenon DEF Roles
  <1> QED
    BY <1>2, <1>7, <1>8, Zenon

\* A step that leaves the states of the workers and the signals that are kept alone, as those
\* of the handler do, is none of the objects.
LEMMA HandlerChanges ==
    ASSUME \A t \in Workers : tcb'[t].state = tcb[t].state /\ tcb'[t].waits_for = tcb[t].waits_for,
           pending' = pending
    PROVE  Quiet
  <1>1. sleep' = sleep
    BY Zenon DEF sleep
  <1>2. S'.pending = S.pending
    BY Zenon DEF S
  <1>3. kept' = kept
    BY <1>2, Zenon DEF kept, PendingFor
  <1> QED
    BY <1>1, <1>3, Zenon DEF Quiet

\* The handler of the interrupt.
LEMMA IrqStep ==
    ASSUME IInv, Roles, Library, IrqWork
    PROVE  IInv' /\ Roles' /\ Fixed
  <1>1. PICK c : c = current
    BY Zenon
  <1>2. InUser /\ pc[c][1] = "irq" /\ c \in Tcbs
    BY <1>1 DEF IrqWork, At, InUser
  <1>3. c = irq_thread /\ tcb[c].state = "RUNNABLE"
    <2>1. c \in Workers \cup {irq_thread} /\ tcb[c].state = "RUNNABLE"
      BY <1>1, <1>2, Runner, Zenon
    <2>2. \A t \in Workers : pc[t] \in Points
      BY Zenon DEF Library, Typed
    <2>3. \A p \in Points : p[1] # "irq"
      BY DEF Points
    <2> QED
      BY <1>2, <2>1, <2>2, <2>3, Zenon
  <1>4. Called(S) /\ S.current = c
    BY <1>1, <1>2, UserCalls, Snapshot, Zenon
  <1>5. \A t \in Workers : t # current /\ t \in Tcbs \ {c}
    BY <1>1, <1>3, ImageThreads, Zenon
  <1>6. CASE /\ At("irq", "register") /\ Goto("irq", "wait")
             /\ SysInterruptRegister(irq) /\ UNCHANGED <<reg, val, mem>>
    <2> DEFINE r == [S EXCEPT !.handler[irq] = c, !.tcb[c].registered_interrupt = irq]
    <2>1. Commit(r) /\ S.handler[irq] = NULL /\ S.tcb[c].registered_interrupt = NULL
      BY <1>1, <1>6, Snapshot, Zenon DEF SysInterruptRegister
    <2>2. irq \in Interrupts /\ c \in Tcbs \cup {NULL} /\ irq \in Interrupts \cup {NULL}
      BY <1>2, SyncAssumption, Zenon
    <2>3. S \in Snapshots
      BY <1>4, CallerRuns, Zenon
    <2>4. r \in Snapshots /\ Registers(S, r, c, irq, c, irq)
      BY <1>2, <2>2, <2>3, InterruptAssigned, Zenon
    <2> HIDE DEF r
    <2>5. Called(r)
      BY <1>4, <2>1, <2>2, <2>4, RegistersSettles, Zenon
    <2>6. IInv'
      BY <2>1, <2>5, CommitSettles, Zenon DEF Called
    <2>7. /\ \A u \in Tcbs : tcb'[u].state = tcb[u].state /\ tcb'[u].waits_for = tcb[u].waits_for
          /\ pending' = pending
      <3>1. /\ \A u \in Tcbs : /\ r.tcb[u].state = tcb[u].state
                              /\ r.tcb[u].waits_for = tcb[u].waits_for
            /\ r.pending = pending
        BY <2>4, Snapshot, Zenon DEF Registers
      <3>2. tcb' = r.tcb /\ pending' = r.pending
        BY <2>1, Committed, Zenon
      <3> QED
        BY <3>1, <3>2, Zenon
    <2>8. pc' = [pc EXCEPT ![c] = <<"irq", "wait">>] /\ irq_thread \in DOMAIN pc
      BY <1>1, <1>6, Zenon DEF Goto, Library, Typed
    <2>9. Roles'
      BY <1>3, <2>7, <2>8, ImageThreads, Zenon DEF Roles
    <2>10. Quiet
      BY <1>5, <2>7, HandlerChanges, Zenon
    <2>11. DOMAIN pc' = DOMAIN pc /\ \A t \in Workers : pc'[t] = pc[t]
      BY <1>5, <2>8, Zenon DEF Library, Typed
    <2>12. \A t \in Workers : pc'[t] = Fixup(pc[t])
      BY <1>5, <2>11, OutsideBlocks, Zenon
    <2>13. Fixed
      BY <1>6, <2>10, <2>11, <2>12, Zenon DEF Fixed
    <2> QED
      BY <2>6, <2>9, <2>13, Zenon
  <1>7. CASE At("irq", "wait") /\ SysInterruptWait /\ UNCHANGED user
    <2> DEFINE r == InterruptWait(S)
    <2>1. Commit(r) /\ S.tcb[S.current].registered_interrupt # NULL
      BY <1>7, Snapshot, Zenon DEF SysInterruptWait
    <2>2. IInv'
      BY <1>4, <2>1, InterruptWaitSettles, CommitSettles, Zenon
    <2>3. PICK w : Changes(S, r, c, "WAIT_INT", w) /\ r.pending = S.pending
      BY <1>4, <2>1, InterruptWaitDoes, Zenon
    <2>4. /\ \A u \in Tcbs \ {c} : tcb'[u] = tcb[u]
          /\ tcb'[c].state = "WAIT_INT" /\ pending' = pending
      BY <2>1, <2>3, Committed, Snapshot, Zenon DEF Changes
    <2>5. pc' = pc /\ UNCHANGED <<reg, val, mem>>
      BY <1>7, Zenon DEF user
    <2>6. Roles'
      BY <1>3, <2>4, <2>5, ImageThreads, Zenon DEF Roles
    <2>7. Quiet
      BY <1>5, <2>4, HandlerChanges, Zenon
    <2>8. \A t \in Workers : pc'[t] = Fixup(pc[t])
      BY <1>5, <2>5, OutsideBlocks, Zenon
    <2> QED
      BY <2>2, <2>5, <2>6, <2>7, <2>8, Zenon DEF Fixed
  <1> QED
    BY <1>6, <1>7, Zenon DEF IrqWork

\* An interrupt.
LEMMA InterruptStep ==
    ASSUME IInv, Roles, Library, Interrupt
    PROVE  IInv' /\ Roles' /\ Fixed
  <1> DEFINE r == HandleInterrupt(S, irq)
  <1>1. PICK c : c = current
    BY Zenon
  <1>2. /\ Settled(S) /\ S.current \in Tcbs \cup {idle} /\ S.next = S.current /\ irq \in S.unmasked
        /\ Commit(r) /\ UNCHANGED <<reg, val, mem>>
    <2>1. S.current \in Tcbs \cup {idle, NULL} /\ Settled(S)
      BY Types, Zenon DEF IInv, Settled
    <2> QED
      BY <2>1, Snapshot, Zenon DEF Interrupt, TakeInterrupt
  <1>3. IInv'
    BY <1>2, HandleInterruptSettles, CommitSettles, Zenon
  <1>4. PICK t \in Tcbs : /\ S.tcb[t].state = "WAIT_INT" /\ Changes(S, r, t, "RUNNABLE", NULL)
                          /\ r.pending = S.pending
    BY <1>2, HandleInterruptDoes, Zenon
  <1>5. t = irq_thread
    <2>1. tcb[t].state = "WAIT_INT"
      BY <1>4, Snapshot, Zenon
    <2>2. t \notin Workers /\ t \notin Members(Spare)
      BY <2>1 DEF Roles
    <2> QED
      BY <2>2, ImageThreads, Zenon
  <1>6. /\ \A u \in Tcbs \ {irq_thread} : tcb'[u] = tcb[u]
        /\ tcb'[irq_thread].state = "RUNNABLE" /\ pending' = pending
    BY <1>2, <1>4, <1>5, Committed, Snapshot, Zenon DEF Changes
  <1>7. pc' = IF c \in Workers THEN [pc EXCEPT ![c] = Fixup(@)] ELSE pc
    BY <1>1, Zenon DEF Interrupt
  <1>8. DOMAIN pc = Workers \cup {irq_thread}
    BY Zenon DEF Library, Typed
  <1>9. DOMAIN pc' = DOMAIN pc /\ pc'[irq_thread] = pc[irq_thread]
    BY <1>7, <1>8, ImageThreads, Zenon
  <1>10. \A u \in Workers : pc'[u] = Fixup(pc[u])
    <2>1. ASSUME NEW u \in Workers, u # c PROVE pc'[u] = Fixup(pc[u])
      BY <1>1, <1>7, <1>8, <2>1, OutsideBlocks, Zenon
    <2>2. ASSUME c \in Workers PROVE pc'[c] = Fixup(pc[c])
      BY <1>7, <1>8, <2>2, Zenon
    <2> QED
      BY <2>1, <2>2, Zenon
  <1>11. Quiet
    <2>1. \A u \in Workers : u \in Tcbs \ {irq_thread}
      BY ImageThreads, Zenon
    <2> QED
      BY <1>6, <2>1, HandlerChanges, Zenon
  <1>12. Fixed
    BY <1>2, <1>9, <1>10, <1>11, Zenon DEF Fixed
  <1>13. Roles'
    BY <1>6, <1>9, ImageThreads, Zenon DEF Roles
  <1> QED
    BY <1>3, <1>12, <1>13, Zenon

\* Nothing happens.
LEMMA StutterStep ==
    ASSUME IInv, Roles, Library, UNCHANGED all
    PROVE  IInv' /\ Roles' /\ Fixed
  <1>1. /\ S' = S /\ tcb' = tcb /\ pending' = pending /\ current' = current
        /\ pc' = pc /\ UNCHANGED <<reg, val, mem>>
    BY Zenon DEF all, vars, user, S
  <1>2. IInv'
    BY <1>1, Zenon DEF IInv
  <1>3. Roles'
    BY <1>1, Zenon DEF Roles
  <1> QED
    BY <1>1, <1>2, <1>3, QuietStep, Zenon DEF Fixed

\* Every step of the composition is one of the objects.
LEMMA SyncStep ==
    ASSUME IInv, Roles, Library, Protocol, [SyncNext]_all
    PROVE  IInv' /\ Roles' /\ Obeyed
  BY WorkStep, StartStep, IrqStep, InterruptStep, StutterStep, FixedObeys, Zenon DEF SyncNext

\* The first state.
LEMMA RolesStart ==
    ASSUME SyncInit
    PROVE  IInv /\ Roles
  <1>1. IInv
    BY InitSettles, Zenon DEF SyncInit
  <1>2. pc[irq_thread] = <<"irq", "register">>
    BY ImageThreads DEF SyncInit
  <1>3. pending \in Seq(UsedTags)
    BY DEF SyncInit, Init
  <1>4. /\ \A t \in Tcbs \ Members(Spare) : tcb[t].state = "RUNNABLE"
        /\ \A t \in Tcbs : t \in Members(Spare) => tcb[t].state = "HALTED"
    <2>1. \A t \in Tcbs : tcb[t] = IF t \in Members(Spare) THEN EmptyThread ELSE LiveThread(t)
      BY Zenon DEF SyncInit, Init
    <2>2. EmptyThread.state = "HALTED" /\ \A t : LiveThread(t).state = "RUNNABLE"
      BY DEF EmptyThread, LiveThread
    <2> QED
      BY <2>1, <2>2, Zenon
  <1> QED
    BY <1>1, <1>2, <1>3, <1>4, ImageThreads, Zenon DEF Roles

-----------------------------------------------------------------------------
(* The objects keep their promises                                         *)

\* The signals that the kernel keeps for the lock and for the semaphore.
LEMMA KeptOf ==
    /\ kept[lock_tag] = Cardinality(PendingFor(S, lock_tag))
    /\ kept[sem_tag] = Cardinality(PendingFor(S, sem_tag))
  BY Addresses, Zenon DEF kept

\* A step of the lock is one of FutexSemaphore.
LEMMA LockAbides == ASSUME LockObeys PROVE [Lock!Next]_(Lock!vars)
  <1> DEFINE k == Cardinality(PendingFor(S, lock_tag))
             w == 1 - mem.lock
  <1>1. PermitStep(w, LockPlaces, k, w', LockPlaces', k')
    <2>1. kept'[lock_tag] = k'
      BY Addresses, Zenon DEF kept
    <2> QED
      BY <2>1, KeptOf, Zenon DEF LockObeys
  <1> HIDE DEF k, w
  <1>2. CASE w' = w /\ LockPlaces' = LockPlaces /\ k' = k
    BY <1>2, Zenon DEF Lock!vars, LockPlaces, k, w
  <1>3. CASE PermitDown(w, LockPlaces, k, w', LockPlaces', k')
    BY <1>3, Zenon DEF PermitDown, Lock!Next, Lock!Down, Lock!Move, LockPlaces, k, w
  <1>4. CASE PermitWait(w, LockPlaces, k, w', LockPlaces', k')
    BY <1>4, Zenon DEF PermitWait, Lock!Next, Lock!Wait, Lock!Move, LockPlaces, k, w
  <1>5. CASE PermitUp(w, LockPlaces, k, w', LockPlaces', k')
    BY <1>5, Zenon DEF PermitUp, Lock!Next, Lock!Up, Lock!Move, LockPlaces, k, w
  <1>6. CASE PermitSignal(w, LockPlaces, k, w', LockPlaces', k')
    BY <1>6, Zenon DEF PermitSignal, Lock!Next, Lock!Signal, Lock!Move, Lock!In, LockPlaces, k, w
  <1> QED
    BY <1>1, <1>2, <1>3, <1>4, <1>5, <1>6, Zenon DEF PermitStep

\* A step of the semaphore is one of FutexSemaphore.
LEMMA SemAbides == ASSUME SemObeys PROVE [Sem!Next]_(Sem!vars)
  <1> DEFINE k == Cardinality(PendingFor(S, sem_tag))
             w == mem.sem
  <1>1. PermitStep(w, SemPlaces, k, w', SemPlaces', k')
    <2>1. kept'[sem_tag] = k'
      BY Addresses, Zenon DEF kept
    <2> QED
      BY <2>1, KeptOf, Zenon DEF SemObeys
  <1> HIDE DEF k, w
  <1>2. CASE w' = w /\ SemPlaces' = SemPlaces /\ k' = k
    BY <1>2, Zenon DEF Sem!vars, SemPlaces, k, w
  <1>3. CASE PermitDown(w, SemPlaces, k, w', SemPlaces', k')
    BY <1>3, Zenon DEF PermitDown, Sem!Next, Sem!Down, Sem!Move, SemPlaces, k, w
  <1>4. CASE PermitWait(w, SemPlaces, k, w', SemPlaces', k')
    BY <1>4, Zenon DEF PermitWait, Sem!Next, Sem!Wait, Sem!Move, SemPlaces, k, w
  <1>5. CASE PermitUp(w, SemPlaces, k, w', SemPlaces', k')
    BY <1>5, Zenon DEF PermitUp, Sem!Next, Sem!Up, Sem!Move, SemPlaces, k, w
  <1>6. CASE PermitSignal(w, SemPlaces, k, w', SemPlaces', k')
    BY <1>6, Zenon DEF PermitSignal, Sem!Next, Sem!Signal, Sem!Move, Sem!In, SemPlaces, k, w
  <1> QED
    BY <1>1, <1>2, <1>3, <1>4, <1>5, <1>6, Zenon DEF PermitStep

\* The steps of Barrier.
MeetingNext == \E t \in Workers : Meeting!Arrive(t) \/ Meeting!Leave(t)

\* A step of the barrier is one of Barrier.
LEMMA MeetingAbides == ASSUME BarrierObeys PROVE [MeetingNext]_<<Arrived, Leaving>>
  <1>1. \A t \in Leaving : t \in Workers
    BY Zenon DEF Leaving
  <1> QED
    BY <1>1, Zenon DEF BarrierObeys, MeetingNext, Meeting!Arrive, Meeting!Leave, Arrived, Leaving

\* The objects start as the specifications do.
LEMMA ObjectsStart == ASSUME SyncInit PROVE Lock!Init /\ Sem!Init /\ Meeting!Init
  <1>1. mem.lock = 0 /\ mem.sem = SemInit
    BY DEF SyncInit
  <1>2. 1 - mem.lock = 1
    BY <1>1
  <1>3. kept[lock_tag] = 0 /\ kept[sem_tag] = 0
    BY LibraryStarts, Addresses, Zenon
  <1> QED
    BY <1>1, <1>2, <1>3, KeptOf, LibraryStarts, Zenon
    DEF Lock!Init, Sem!Init, Meeting!Init, LockPlaces, SemPlaces, Arrived, Leaving

-----------------------------------------------------------------------------
(* The theorems                                                            *)

\* The permits of the lock and of the semaphore are accounted for as FutexSemaphoreProofs says.
LP == INSTANCE FutexSemaphoreProofs WITH
    Threads <- Workers, K <- 1, count <- 1 - mem.lock,
    place <- [t \in Workers |-> LockState(t)], kept <- Cardinality(PendingFor(S, lock_tag))

SP == INSTANCE FutexSemaphoreProofs WITH
    Threads <- Workers, K <- SemInit, count <- mem.sem,
    place <- [t \in Workers |-> SemState(t)], kept <- Cardinality(PendingFor(S, sem_tag))

\* The inductive invariant: the kernel's structures agree, the threads do what they were made
\* for, each object's memory says where its threads are, and no permit is lost.
SyncInv == IInv /\ Roles /\ Library /\ LP!Inv /\ SP!Inv

\* The constants of the protocols.
LEMMA SanePermits == LP!Sane /\ SP!Sane
  <1>1. IsFiniteSet(Workers) /\ SemInit \in Nat \ {0}
    BY WorkersFinite, SyncAssumption, Zenon
  <1>2. 1 \in Nat \ {0}
    OBVIOUS
  <1> QED
    BY <1>1, <1>2, Zenon DEF LP!Sane, SP!Sane, IsFiniteSet, LP!IsFiniteSet, SP!IsFiniteSet

\* The instances count as the module does.
LEMMA SameCount == \A A : LP!Cardinality(A) = Cardinality(A) /\ SP!Cardinality(A) = Cardinality(A)
  BY Zenon DEF Cardinality, LP!Cardinality, SP!Cardinality

\* The accounts say what the steps of the objects rely on.
LEMMA AccountsGiveProtocol == ASSUME Library, LP!Inv, SP!Inv PROVE Protocol
  <1>1. /\ kept[lock_tag] <= Cardinality(LP!In("wait")) /\ 1 - mem.lock <= 1
        /\ \A t, u \in Workers : LockPlaces[t] = "in" /\ LockPlaces[u] = "in" => t = u
    BY SanePermits, SameCount, LP!KeptForWaiters, KeptOf, Zenon DEF LockPlaces
  <1>2. kept[sem_tag] <= Cardinality(SP!In("wait"))
    BY SanePermits, SameCount, SP!KeptForWaiters, KeptOf, Zenon
  <1>3. LP!In("wait") = {t \in Workers : LockState(t) = "wait"}
    BY Zenon DEF LP!In
  <1>4. SP!In("wait") = {t \in Workers : SemState(t) = "wait"}
    BY Zenon DEF SP!In
  <1>5. mem.lock \in Int
    BY Zenon DEF Library, Typed, Memories
  <1>6. mem.lock >= 0
    BY <1>1, <1>5
  <1>7. \A t \in Workers : LockPlaces[t] = LockState(t)
    BY Zenon DEF LockPlaces
  <1> QED
    BY <1>1, <1>2, <1>3, <1>4, <1>6, <1>7, Zenon DEF Protocol

\* Every step keeps the invariant and is one of the objects.
LEMMA SyncInvStep ==
    ASSUME SyncInv, [SyncNext]_all
    PROVE  /\ SyncInv' /\ [Lock!Next]_(Lock!vars) /\ [Sem!Next]_(Sem!vars)
           /\ [MeetingNext]_<<Arrived, Leaving>>
  <1>1. Protocol
    BY AccountsGiveProtocol, Zenon DEF SyncInv
  <1>2. IInv' /\ Roles' /\ Obeyed
    BY <1>1, SyncStep, Zenon DEF SyncInv
  <1>3. [Lock!Next]_(Lock!vars) /\ [Sem!Next]_(Sem!vars) /\ [MeetingNext]_<<Arrived, Leaving>>
    BY <1>2, LockAbides, SemAbides, MeetingAbides, Zenon DEF Obeyed
  <1>4. [LP!Next]_(LP!vars)
    BY <1>3, Zenon
    DEF Lock!Next, Lock!vars, Lock!Down, Lock!Wait, Lock!Up, Lock!Signal, Lock!Move, Lock!In,
        LP!Next, LP!vars, LP!Down, LP!Wait, LP!Up, LP!Signal, LP!Move, LP!In
  <1>5. [SP!Next]_(SP!vars)
    BY <1>3, Zenon
    DEF Sem!Next, Sem!vars, Sem!Down, Sem!Wait, Sem!Up, Sem!Signal, Sem!Move, Sem!In,
        SP!Next, SP!vars, SP!Down, SP!Wait, SP!Up, SP!Signal, SP!Move, SP!In
  <1>6. LP!Inv' /\ SP!Inv'
    BY <1>4, <1>5, SanePermits, LP!NextInv, SP!NextInv, Zenon DEF SyncInv
  <1> QED
    BY <1>2, <1>3, <1>6, Zenon DEF SyncInv, Obeyed

\* The first state has the invariant.
LEMMA SyncInvStart == ASSUME SyncInit PROVE SyncInv
  <1>1. LP!Init /\ SP!Init
    BY ObjectsStart, Zenon DEF Lock!Init, LP!Init, Sem!Init, SP!Init
  <1>2. LP!Inv /\ SP!Inv
    BY <1>1, SanePermits, LP!InitInv, SP!InitInv, Zenon
  <1> QED
    BY <1>2, RolesStart, LibraryStarts, Zenon DEF SyncInv

\* For every image with a spare tcb, any number of workers from two up and any positive
\* number of permits: the kernel's structures agree, and the memory of the mutex, the
\* semaphore and the barrier says where the threads are, whatever the order of instructions,
\* system calls and interrupts.
THEOREM SyncAlwaysInv == SyncSpec => []SyncInv
  <1>1. SyncInit => SyncInv
    BY SyncInvStart
  <1>2. SyncInv /\ [SyncNext]_all => SyncInv'
    BY SyncInvStep
  <1> QED
    BY <1>1, <1>2, PTL DEF SyncSpec

\* No assertion of the counted mutex and none of the scheduler fails.
THEOREM SyncAssertionsHold == SyncSpec => []NoAssertionFails
  <1>1. SyncInv => NoAssertionFails
    BY Snapshot, Zenon DEF SyncInv, IInv, Settled, NoAssertionFails
  <1> QED
    BY <1>1, SyncAlwaysInv, PTL

\* okn_futex_signal() always finds room for a signal of the library, so that its result,
\* which the library does not look at, is never an error.
THEOREM SignalsAlwaysFit == SyncSpec => []NoSignalDropped
  <1>1. SyncInv => NoSignalDropped
    BY AccountsGiveProtocol, Bounded, Zenon DEF SyncInv, Roles, NoSignalDropped
  <1> QED
    BY <1>1, SyncAlwaysInv, PTL

\* The futex lock of okn_mutex_lock(), okn_mutex_trylock() and okn_mutex_unlock() implements
\* FutexSemaphore with one permit, on the scheduler and the futexes of the kernel.
THEOREM LockRefines == SyncSpec => ImplementsLock
  <1>1. SyncInit => Lock!Init
    BY ObjectsStart
  <1>2. SyncInv /\ [SyncNext]_all => [Lock!Next]_(Lock!vars)
    BY SyncInvStep
  <1> QED
    BY <1>1, <1>2, SyncAlwaysInv, PTL DEF SyncSpec, ImplementsLock, Lock!Spec

\* The semaphore implements FutexSemaphore with the permits that it was made with, one at
\* least; every worker takes a permit before it gives one back.
THEOREM SemaphoreRefines == SyncSpec => ImplementsSemaphore
  <1>1. SyncInit => Sem!Init
    BY ObjectsStart
  <1>2. SyncInv /\ [SyncNext]_all => [Sem!Next]_(Sem!vars)
    BY SyncInvStep
  <1> QED
    BY <1>1, <1>2, SyncAlwaysInv, PTL DEF SyncSpec, ImplementsSemaphore, Sem!Spec

\* okn_barrier() implements Barrier: nobody leaves before all have come, round after round.
THEOREM BarrierRefines == SyncSpec => ImplementsBarrier
  <1>1. SyncInit => Meeting!Init
    BY ObjectsStart
  <1>2. SyncInv /\ [SyncNext]_all =>
          [\E t \in Workers : Meeting!Arrive(t) \/ Meeting!Leave(t)]_<<Arrived, Leaving>>
    BY SyncInvStep, Zenon DEF MeetingNext
  <1> QED
    BY <1>1, <1>2, SyncAlwaysInv, PTL DEF SyncSpec, ImplementsBarrier, Meeting!Spec, Arrived, Leaving
=============================================================================
