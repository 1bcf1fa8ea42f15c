SPECIFICATION FairSpec
CONSTANTS
  Wrap = 2
  PipeSize = 4
  Commands = {"ARC_OPEN", "ARC_TV_OFFSET_DONE"}
  Samplings = {}
  FileSizes = {}
  Directories = {}
  MaxCommands = 3
  MaxMarks = 0
  MaxRecords = 3
  Faults = {}
PROPERTIES TvIsDone
