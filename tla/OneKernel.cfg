\* One kernel and two threads that sync, return or shut down.
SPECIFICATION FairSpec
CONSTANTS
  Client = {A}
  MACH_PORT_DEAD = DEAD
  NPages = 1
  KERN_SUCCESS = OK
  Error = {}
  Thread = {t1, t2}
  Call <- Returning
  NOTIFY_ON_EVICT = TRUE
  PRECIOUS = TRUE
  WriteLock <- AnyLock
  SPURIOUS_WAKEUPS = FALSE
  MaxFaults = 3
  MaxVersion = 1
  MAY_DIE = {}
  MAY_TERMINATE = {}
CHECK_DEADLOCK FALSE
INVARIANTS AssertionsHold AccessListSound NotifyEvicted
PROPERTIES DurableAfterWait SyncReturns
