CONSTANTS
  low = low
  mid = mid
  mid2 = mid2
  high = high
  m1 = m1
  m2 = m2
  Threads = {low, mid, mid2, high}
  Mutexes = {m1, m2}
  MAX_PRIO = 2
  DEFAULT_PRIORITY = 0
  Boot <- MCBoot
  BootPrio <- MCBootPrio
  BootMutexes = {m1, m2}
  Acceptors = {low, mid, mid2, high}
  Calls = {"mutex", "notify", "irq"}
  Requests <- MCRequests
  Controls = {}
  idle = idle
  NULL = NULL
  ANYTHREAD = ANYTHREAD
  WAITNOTIFY = WAITNOTIFY
  INVALID = INVALID
SPECIFICATION MCSpec
PROPERTIES TopPriorityGetsMutex
