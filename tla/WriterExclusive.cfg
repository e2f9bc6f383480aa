\* Three kernels: two of them get write access.
SPECIFICATION Spec
CONSTANTS
  Client = {A, B, C}
  MACH_PORT_DEAD = DEAD
  NPages = 1
  KERN_SUCCESS = OK
  Error = {}
  Thread = {}
  Call <- NoCalls
  NOTIFY_ON_EVICT = FALSE
  PRECIOUS = FALSE
  WriteLock <- ReadWrite
  SPURIOUS_WAKEUPS = FALSE
  MaxFaults = 4
  MaxVersion = 1
  MAY_DIE = {}
  MAY_TERMINATE = {}
SYMMETRY Symmetry
CHECK_DEADLOCK FALSE
INVARIANT ExclusiveWriter
