----------------------------- MODULE MCNanoSync -----------------------------
\* An instance of NanoSync for TLC: three workers of two priorities, and above them the
\* handler of an interrupt.
EXTENDS SyncObjects, TLC

CONSTANTS w1, w2, w3, drv, spare, tick, bar0, bar1, slot1, slot2

MCTcbs == {w1, w2, w3, drv, spare}
MCThreads == (0 :> <<w1, w2>>) @@ (1 :> <<w3>>) @@ (2 :> <<drv>>)
MCSpare == <<spare>>
MCInterrupts == {tick}
MCBarrierTag == (0 :> bar0) @@ (1 :> bar1)
MCTags == {lock_tag, sem_tag, bar0, bar1}
MCSlots == {slot1, slot2}
MCHash == [t \in MCTags |-> IF t \in {lock_tag, bar0} THEN slot1 ELSE slot2]
MCWorkers == {w1, w2, w3}
=============================================================================
