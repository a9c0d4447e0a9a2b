SPECIFICATION Spec
CONSTANTS
  t1 = t1
  t2 = t2
  t3 = t3
  tick = tick
  sig = sig
  tag_a = tag_a
  tag_b = tag_b
  slot = slot
  idle = idle
  NULL = NULL
  MAX_PRIORITY = 1
  Tcbs <- MCTcbs
  threads_at_priority <- MCThreads
  Spare <- MCSpare
  Interrupts <- MCInterrupts
  Signals <- MCSignals
  Tags <- MCTags
  Slots <- MCSlots
  hash_tag <- MCHash
ACTION_CONSTRAINT Roles
CHECK_DEADLOCK FALSE
INVARIANTS NanoConsistent NoLostWakeup SendersNotMissed InterruptsHaveWaiters ThreadsAccountedFor
