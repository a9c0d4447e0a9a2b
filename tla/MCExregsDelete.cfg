CONSTANTS
  a1 = a1
  b1 = b1
  b2 = b2
  Threads = {a1, b1, b2}
  m1 = m1
  Mutexes = {}
  MAX_PRIO = 2
  DEFAULT_PRIORITY = 0
  Boot <- MCBoot
  BootPrio <- MCBootPrio
  BootMutexes = {}
  Acceptors = {}
  Calls = {"exregs", "ipc", "thread_control", "timer"}
  Requests <- MCRequests
  Controls <- MCControls
  idle = idle
  NULL = NULL
  ANYTHREAD = ANYTHREAD
  WAITNOTIFY = WAITNOTIFY
  INVALID = INVALID
SPECIFICATION Spec
INVARIANTS ExregsTargetExists
