\* Kernels die or unmap the object; a call on one page or on both.
SPECIFICATION Spec
CONSTANTS
  Client = {A, B}
  MACH_PORT_DEAD = DEAD
  NPages = 2
  KERN_SUCCESS = OK
  Error = {}
  Thread = {t1}
  Call <- SomeCalls
  NOTIFY_ON_EVICT = FALSE
  PRECIOUS = FALSE
  WriteLock <- AnyLock
  SPURIOUS_WAKEUPS = FALSE
  MaxFaults = 2
  MaxVersion = 1
  MAY_DIE = {A, B}
  MAY_TERMINATE = {A, B}
SYMMETRY Symmetry
CHECK_DEADLOCK FALSE
INVARIANTS NoLostWakeup LockAccounting
