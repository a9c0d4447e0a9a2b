------------------------------- MODULE Exregs -------------------------------
(***************************************************************************)
(* SYS_EXCHANGE_REGISTERS (pistachio/src/exregs.cc): abort a thread's IPC  *)
(* or mutex wait, halt or resume it, suspend it.  The registers it reads   *)
(* and writes are left out.  On SH nothing runs a thread's                 *)
(* post_syscall_callback, so suspending sets a flag and halts a thread     *)
(* that is running at the time.                                            *)
(***************************************************************************)
EXTENDS Thread

CONSTANT Controls     \* the control words of an instance

\* The bits of the control word: abort has the EXREGS_CONTROL_SEND and _RECV
\* bits; halt is meant for the HALTFLAG and the SUSPEND_FLAG operation.
ExregsCtrl ==
    {c \in [abort : SUBSET {"send", "recv"}, haltflag : BOOLEAN, suspend : BOOLEAN, halt : BOOLEAN] :
        c.halt => c.haltflag \/ c.suspend}

ASSUME ControlsAssumption == Controls \subseteq ExregsCtrl

\* finish_exchange_registers(): current goes back to the user.
FinishExchangeRegisters(s) ==
    [ActivateContinuation(s, "user") EXCEPT !.tcb[s.sched.current].sys = NULL]

\* schedule() from which current returns to the user.
ScheduleToUser(s) == Schedule([s EXCEPT !.tcb[s.sched.current].sys = NULL], "user", FALSE)

\* halt_thread(), when t is not current: the call returns.
Halt(s, t) == Deactivate(s, t, "halted")

\* Seeded fault: the caller goes on although the resumed thread may be above it.
ResumeNoSchedule(s, t) == FinishExchangeRegisters(Activate(s, t))

\* resume_thread()
Resume(s, t) == ScheduleToUser(Activate(s, t))

SetSuspended(s, t, flag) == [s EXCEPT !.tcb[t].suspended = flag]

\* The second part of finish_perform_exreg(): suspend or unsuspend t.
SuspendPart(s, t, ctrl) ==
    LET suspended == s.tcb[t].suspended
        flagged == SetSuspended(s, t, ctrl.halt)
    IN IF ~ctrl.suspend \/ suspended = ctrl.halt THEN FinishExchangeRegisters(s)
       ELSE IF ctrl.halt /\ IsRunnable(s, t)
       THEN IF t = s.sched.current THEN ScheduleToUser(Halt(flagged, t))
            ELSE FinishExchangeRegisters(Halt(flagged, t))
       ELSE IF ~ctrl.halt /\ s.tcb[t].state = "halted" THEN Resume(flagged, t)
       ELSE FinishExchangeRegisters(flagged)

\* Seeded fault: a thread that is halted by a suspend is resumed like any other.
FinishPerformExregIgnoresSuspend(s, t, ctrl) ==
    IF ctrl.haltflag /\ ctrl.halt /\ IsRunnable(s, t)
    THEN IF t = s.sched.current THEN ScheduleToUser(Halt(s, t))
         ELSE SuspendPart(Halt(s, t), t, ctrl)
    ELSE IF ctrl.haltflag /\ ~ctrl.halt /\ s.tcb[t].state = "halted"
    THEN Resume(s, t)
    ELSE SuspendPart(s, t, ctrl)

\* finish_perform_exreg(): halt or resume t, then suspend or unsuspend it.
FinishPerformExreg(s, t, ctrl) ==
    IF ctrl.haltflag /\ ctrl.halt /\ IsRunnable(s, t)
    THEN IF t = s.sched.current THEN ScheduleToUser(Halt(s, t))
         ELSE SuspendPart(Halt(s, t), t, ctrl)
    ELSE IF ctrl.haltflag /\ ~ctrl.halt /\ s.tcb[t].state = "halted" /\ ~s.tcb[t].suspended
    THEN Resume(s, t)
    ELSE SuspendPart(s, t, ctrl)

\* The bit of the control word that aborts what t waits in.
AbortBits(s, t) ==
    CASE s.tcb[t].state = "polling" -> {"send"}
      [] s.tcb[t].state \in {"waiting_forever", "waiting_notify"} -> {"recv"}
      [] s.tcb[t].state = "waiting_mutex" -> {"send", "recv"}
      [] OTHER -> {}

\* Seeded fault: a thread is taken off a mutex's queue, and not made to run.
AbortWaitRunsOn(s, t) ==
    IF s.tcb[t].state = "waiting_mutex" THEN RemoveDependency(s, t)
    ELSE FailIpc(Unwind(s, t, s.tcb[t].partner), t)

\* An IPC is unwound with its partner, which get_partner() asserts to be valid.
AbortWait(s, t) ==
    IF s.tcb[t].state = "waiting_mutex" THEN Activate(Unwind(s, t, NULL), t)
    ELSE LET partner == s.tcb[t].partner
         IN FailIpc(Unwind(Require(s, partner # INVALID, "get_partner: invalid"), t, partner), t)

\* perform_exregs()
PerformExregs(s, t, ctrl) ==
    IF AbortBits(s, t) \cap ctrl.abort # {}
    THEN Schedule([AbortWait(s, t) EXCEPT !.tcb[s.sched.current].sys = [tcb |-> t, ctrl |-> ctrl]],
                  "finish_perform_exreg", FALSE)
    ELSE FinishPerformExreg(s, t, ctrl)

-----------------------------------------------------------------------------
(* System call and continuation                                            *)

SysExchangeRegisters(t, ctrl) ==
    Trap("exregs") /\ tcb[t].exists /\ Commit(PerformExregs(S, t, ctrl))

\* finish_perform_exreg() of a caller that another thread may have preempted.
FinishExregs ==
    /\ Continue("finish_perform_exreg")
    /\ LET sys == tcb[current].sys IN Commit(FinishPerformExreg(S, sys.tcb, sys.ctrl))
=============================================================================
