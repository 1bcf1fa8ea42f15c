SPECIFICATION FairSpec
CONSTANTS
  User = {u1, u2}
  None = None
  Slots = 2
  PipeSize = 1
  RtcTypes = {}
  ForRtc = {}
  Faults = {}
  MaxMoves = 2
  MaxMessages = 0
PROPERTIES CommandIsRead
CHECK_DEADLOCK FALSE
