SPECIFICATION FairSpec
CONSTANTS
  Wrap = 6
  PipeSize = 2
  Commands = {"ARC_SAMPLING"}
  Samplings = {2}
  FileSizes = {}
  Directories = {}
  MaxCommands = 3
  MaxMarks = 0
  MaxRecords = 3
  Faults = {}
PROPERTIES FrameIsIntegrated
CHECK_DEADLOCK FALSE
