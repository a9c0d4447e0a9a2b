CONSTANTS
  a1 = a1
  b1 = b1
  b2 = b2
  Threads = {a1, b1, b2}
  m1 = m1
  Mutexes = {m1}
  MAX_PRIO = 2
  DEFAULT_PRIORITY = 0
  Boot <- MCBoot
  BootPrio <- MCBootPrio
  BootMutexes = {m1}
  Acceptors = {}
  Calls = {"exregs", "ipc", "mutex", "timer"}
  Requests <- FewRequests
  Controls <- FewControls
  idle = idle
  NULL = NULL
  ANYTHREAD = ANYTHREAD
  WAITNOTIFY = WAITNOTIFY
  INVALID = INVALID
SPECIFICATION Spec
ACTION_CONSTRAINT RolesKept
INVARIANTS KernelConsistent PrioritiesRespected
PROPERTIES SuspendedStaysHalted
