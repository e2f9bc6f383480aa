\* Two threads, three calls, and two clients that come, terminate or die.
SPECIFICATION FairSpec
CONSTANTS
  Client = {c1, c2}
  Thread = {t1, t2}
  NCalls = 3
CHECK_DEADLOCK FALSE
INVARIANTS  PortsFreed Completed
 
