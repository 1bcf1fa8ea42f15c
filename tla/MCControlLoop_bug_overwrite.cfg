SPECIFICATION Spec
CONSTANTS
  User = {u1, u2}
  None = None
  Slots = 2
  PipeSize = 1
  RtcTypes = {"LOG", "NAV_UPDATE", "DRIVE_DONE"}
  ForRtc = {"COMMAND"}
  Faults = {"LOG"}
  MaxMoves = 4
  MaxMessages = 2
SYMMETRY Users
PROPERTIES StagedIsKept
CHECK_DEADLOCK FALSE
