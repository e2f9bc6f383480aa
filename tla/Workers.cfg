\* Two workers, two objects, two requests to each.
SPECIFICATION FairSpec
CONSTANTS
  Worker = {w1, w2}
  Object = {o1, o2}
  NoObject = none
  MaxRequests = 2
INVARIANTS ObjectExclusive InhibitQuiet NoLostSignal
PROPERTIES InOrder InhibitReturns AllProcessed
