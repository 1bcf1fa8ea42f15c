SPECIFICATION FairSpec
CONSTANTS
  Wrap = 2
  PipeSize = 4
  Commands = {"ARC_NEW_FRAME", "ARC_SAMPLING", "ARC_OPEN", "ARC_CLOSE", "ARC_FILE_SIZE", "ARC_FILTER", "ARC_FLUSH", "ARC_CHDIR", "ARC_ADD_CLIENT", "ARC_TV_OFFSET_DONE"}
  Samplings = {2}
  FileSizes = {2}
  Directories = {1}
  MaxCommands = 2
  MaxMarks = 0
  MaxRecords = 2
  Faults = {"open", "write", "report", "reply", "connect"}
INVARIANTS CountIsOfFile ClientKnows
PROPERTIES FrameIsIntegrated FrameIsDone
CHECK_DEADLOCK FALSE
