CONSTANTS
  low = low
  mid = mid
  mid2 = mid2
  high = high
  m1 = m1
  m2 = m2
  Threads = {low, mid, mid2, high}
  Mutexes = {m1, m2}
  MAX_PRIO = 2
  DEFAULT_PRIORITY = 0
  Boot <- MCBoot
  BootPrio <- MCBootPrio
  BootMutexes = {m1, m2}
  Acceptors = {}
  Calls = {"mutex", "mutex_control", "yield", "timer", "schedule"}
  Requests = {}
  Controls = {}
  idle = idle
  NULL = NULL
  ANYTHREAD = ANYTHREAD
  WAITNOTIFY = WAITNOTIFY
  INVALID = INVALID
SYMMETRY MutexSymmetry
SPECIFICATION Spec
INVARIANTS KernelConsistent PrioritiesRespected DeletedMutexUnused
PROPERTIES HandoverToHighest
