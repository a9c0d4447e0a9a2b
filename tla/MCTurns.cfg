CONSTANTS
  a1 = a1
  b1 = b1
  b2 = b2
  Threads = {a1, b1, b2}
  m1 = m1
  Mutexes = {m1}
  MAX_PRIO = 1
  DEFAULT_PRIORITY = 0
  Boot <- MCBoot
  BootPrio <- MCBootPrio
  BootMutexes = {m1}
  Acceptors = {}
  Calls = {"ipc", "mutex", "thread_switch", "yield", "timer"}
  Requests <- MCRequests
  Controls = {}
  idle = idle
  NULL = NULL
  ANYTHREAD = ANYTHREAD
  WAITNOTIFY = WAITNOTIFY
  INVALID = INVALID
SPECIFICATION MCSpec
INVARIANTS KernelConsistent
PROPERTIES TurnsAreTaken
