SPECIFICATION SyncSpec
CONSTANTS
  w1 = w1
  w2 = w2
  w3 = w3
  drv = drv
  spare = spare
  tick = tick
  lock_tag = lock_tag
  sem_tag = sem_tag
  bar0 = bar0
  bar1 = bar1
  slot1 = slot1
  slot2 = slot2
  idle = idle
  NULL = NULL
  MAX_PRIORITY = 2
  SemInit = 1
  Signals = {}
  irq_thread = drv
  irq = tick
  Tcbs <- MCTcbs
  threads_at_priority <- MCThreads
  Spare <- MCSpare
  Interrupts <- MCInterrupts
  Tags <- MCTags
  Slots <- MCSlots
  hash_tag <- MCHash
  barrier_tag <- MCBarrierTag
  Workers <- MCWorkers
INVARIANTS NoSignalDropped NoAssertionFails
PROPERTIES ImplementsLock ImplementsSemaphore ImplementsBarrier EveryoneGoesRound
