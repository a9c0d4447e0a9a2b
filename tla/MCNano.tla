------------------------------- MODULE MCNano -------------------------------
\* An instance of Nano for TLC.
EXTENDS Nano, TLC

CONSTANTS t1, t2, t3, tick, sig, tag_a, tag_b, slot

MCTcbs == {t1, t2, t3}
MCThreads == (0 :> <<t1>>) @@ (1 :> <<t2>>)
MCSpare == <<t3>>
MCInterrupts == {tick}
MCSignals == {sig}
MCTags == {tag_a, tag_b}
MCSlots == {slot}
MCHash == [t \in MCTags |-> slot]

\* What the threads do, to bound the run: t1 waits for no signal and t2 for no futex,
\* t2 alone handles the interrupt, t1 and t2 keep their priorities when they are created
\* again, and at most two futex signals are kept.
Roles ==
    /\ tcb'[t1].state # "WAIT_SIGNAL" /\ tcb'[t1].signals = {}
    /\ tcb'[t2].state # "WAIT_FUTEX"
    /\ \A i \in Interrupts : handler'[i] \in {t2, NULL}
    /\ tcb'[t1].priority = 0 /\ tcb'[t2].priority = 1
    /\ Len(pending') <= 2
=============================================================================
