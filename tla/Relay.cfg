SPECIFICATION Spec
CONSTANTS
  NNames = 6
  Origins = {"client", "server"}
  Carried = {"none", "send", "receive"}
  MaxSend = 3
  MaxRights = 1
  Deaths = TRUE
CHECK_DEADLOCK FALSE
INVARIANTS   NoChain RightPort Audited
