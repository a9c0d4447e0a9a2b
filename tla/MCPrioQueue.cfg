SPECIFICATION Spec
CONSTANTS
    Threads = {t1, t2, t3}
    idle = idle
    MAX_PRIO = 6
    BITS_WORD = 3
INVARIANTS
    TypeOK
    BitmapsExact
    QueuedAtEffectivePriority
    HighestIsFound
PROPERTY
    ImplementsReadyQueue
CHECK_DEADLOCK TRUE
