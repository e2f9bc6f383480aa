\* I/O fails, pages are precious, condition variables wake spuriously.
SPECIFICATION Spec
CONSTANTS
  Client = {A, B}
  MACH_PORT_DEAD = DEAD
  NPages = 1
  KERN_SUCCESS = OK
  Error = {E}
  Thread = {t1}
  Call <- EveryCall
  NOTIFY_ON_EVICT = TRUE
  PRECIOUS = TRUE
  WriteLock <- AnyLock
  SPURIOUS_WAKEUPS = TRUE
  MaxFaults = 3
  MaxVersion = 2
  MAY_DIE = {}
  MAY_TERMINATE = {}
SYMMETRY Symmetry
CHECK_DEADLOCK FALSE
INVARIANTS WaitlistHeld PagingOut RequestAccounted
