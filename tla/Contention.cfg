\* Three kernels contend for a page while a thread syncs it.
SPECIFICATION Spec
CONSTANTS
  Client = {A, B, C}
  MACH_PORT_DEAD = DEAD
  NPages = 1
  KERN_SUCCESS = OK
  Error = {}
  Thread = {t1}
  Call <- SyncWait
  NOTIFY_ON_EVICT = FALSE
  PRECIOUS = FALSE
  WriteLock <- AnyLock
  SPURIOUS_WAKEUPS = FALSE
  MaxFaults = 4
  MaxVersion = 1
  MAY_DIE = {}
  MAY_TERMINATE = {}
SYMMETRY Symmetry
CHECK_DEADLOCK FALSE
INVARIANTS LockAccounting UnlockAccounted OneOnBothLists RequestAccounted
