\* One kernel: a request that is never answered.
SPECIFICATION FairSpec
CONSTANTS
  Client = {A}
  MACH_PORT_DEAD = DEAD
  NPages = 1
  KERN_SUCCESS = OK
  Error = {}
  Thread = {}
  Call <- NoCalls
  NOTIFY_ON_EVICT = FALSE
  PRECIOUS = FALSE
  WriteLock <- ReadWrite
  SPURIOUS_WAKEUPS = FALSE
  MaxFaults = 3
  MaxVersion = 1
  MAY_DIE = {}
  MAY_TERMINATE = {}
CHECK_DEADLOCK FALSE
PROPERTY RequestsAnswered
