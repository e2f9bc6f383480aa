\* Three messages to two ports; the connection may be lost.
SPECIFICATION Spec
CONSTANTS
  Queue = {"ipc", "tcp"}
  Port = {p1, p2}
  NMessages = 3
  UINT = 256
  Items <- ThreeMessages
SYMMETRY Symmetry
CHECK_DEADLOCK FALSE
INVARIANTS Framed Whole 
