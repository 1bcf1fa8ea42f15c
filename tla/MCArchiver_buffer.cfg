SPECIFICATION Spec
CONSTANTS
  Wrap = 4
  PipeSize = 2
  Commands = {"ARC_NEW_FRAME", "ARC_SAMPLING", "ARC_OPEN", "ARC_CLOSE", "ARC_FILTER", "ARC_SHUTDOWN"}
  Samplings = {0, 2}
  FileSizes = {}
  Directories = {}
  MaxCommands = 2
  MaxMarks = 1
  MaxRecords = 2
  Faults = {"open", "write", "report"}
INVARIANTS TypeOK OneHandOver NoLostWakeup NewFrameKept
PROPERTIES RecordsFollow
CHECK_DEADLOCK FALSE
