SPECIFICATION Spec
CONSTANTS
  User = {u1}
  None = None
  Slots = 1
  PipeSize = 12
  RtcTypes = {}
  ForRtc = {}
  Faults = {"LOG"}
  MaxMoves = 3
  MaxMessages = 1
INVARIANTS ListOnItsWay
CHECK_DEADLOCK FALSE
