CONSTANTS
  a1 = a1
  b1 = b1
  c1 = c1
  Threads = {a1, b1, c1}
  m1 = m1
  m2 = m2
  Mutexes = {m1, m2}
  MAX_PRIO = 2
  DEFAULT_PRIORITY = 0
  Boot <- MCBoot
  BootPrio <- MCBootPrio
  BootMutexes = {m1, m2}
  Acceptors = {}
  Calls = {"timer", "schedule", "yield"}
  Requests = {}
  idle = idle
  NULL = NULL
  ANYTHREAD = ANYTHREAD
  WAITNOTIFY = WAITNOTIFY
  INVALID = INVALID
SYMMETRY MutexSymmetry
SPECIFICATION HybridSpec
INVARIANTS ContentionKnown HolderInherits NoAssertionFails
PROPERTIES ImplementsHybrid
