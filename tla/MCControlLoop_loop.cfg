SPECIFICATION Spec
CONSTANTS
  User = {u1, u2}
  None = None
  Slots = 2
  PipeSize = 12
  RtcTypes = {"TV_OFFSET_DONE", "NAV_UPDATE", "DRIVE_DONE"}
  ForRtc = {"COMMAND"}
  Faults = {"TV_OFFSET_DONE"}
  MaxMoves = 4
  MaxMessages = 2
SYMMETRY Users
INVARIANTS TypeOK NobodyDeaf StatusOnItsWay ListOnItsWay InitFirst
CHECK_DEADLOCK FALSE
