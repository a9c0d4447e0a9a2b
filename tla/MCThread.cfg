CONSTANTS
  a1 = a1
  b1 = b1
  c1 = c1
  Threads = {a1, b1, c1}
  m1 = m1
  Mutexes = {m1}
  MAX_PRIO = 1
  DEFAULT_PRIORITY = 0
  Boot <- MCBoot
  BootPrio <- MCBootPrio
  BootMutexes = {m1}
  Acceptors = {}
  Calls = {"thread_control", "ipc", "mutex", "timer"}
  Requests <- MCRequests
  Controls = {}
  idle = idle
  NULL = NULL
  ANYTHREAD = ANYTHREAD
  WAITNOTIFY = WAITNOTIFY
  INVALID = INVALID
SPECIFICATION Spec
INVARIANTS TypeOK KernelConsistent PrioritiesRespected DeletedLeavesNoTrace
