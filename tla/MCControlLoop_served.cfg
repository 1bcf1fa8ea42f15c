SPECIFICATION FairSpec
CONSTANTS
  User = {u1}
  None = None
  Slots = 1
  PipeSize = 1
  RtcTypes = {"LOG", "DRIVE_DONE"}
  ForRtc = {}
  Faults = {"LOG"}
  MaxMoves = 3
  MaxMessages = 0
PROPERTIES CommandIsRead RtcIsBriefed
CHECK_DEADLOCK FALSE
