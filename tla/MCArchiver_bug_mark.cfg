SPECIFICATION FairSpec
CONSTANTS
  Wrap = 6
  PipeSize = 4
  Commands = {}
  Samplings = {}
  FileSizes = {}
  Directories = {}
  MaxCommands = 3
  MaxMarks = 1
  MaxRecords = 3
  Faults = {}
INVARIANTS MarkDoneIsSaved
PROPERTIES MarkIsDone
