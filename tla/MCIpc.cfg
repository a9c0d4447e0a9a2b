CONSTANTS
  a1 = a1
  a2 = a2
  b1 = b1
  Threads = {a1, a2, b1}
  Mutexes = {}
  MAX_PRIO = 1
  DEFAULT_PRIORITY = 0
  Boot <- MCBoot
  BootPrio <- MCBootPrio
  BootMutexes = {}
  Acceptors = {a1, b1}
  Calls = {"ipc", "notify", "irq", "timer"}
  Requests <- MCRequests
  Controls = {}
  idle = idle
  NULL = NULL
  ANYTHREAD = ANYTHREAD
  WAITNOTIFY = WAITNOTIFY
  INVALID = INVALID
SPECIFICATION Spec
INVARIANTS KernelConsistent PrioritiesRespected NoMissedRendezvous OrderGivenUpForCopy NotifyNotLost
PROPERTIES ClosedWaitIsClosed
