SPECIFICATION Spec
CONSTANTS
  Wrap = 6
  PipeSize = 4
  Commands = {"ARC_OPEN", "ARC_FILTER"}
  Samplings = {}
  FileSizes = {}
  Directories = {}
  MaxCommands = 3
  MaxMarks = 1
  MaxRecords = 3
  Faults = {}
PROPERTIES FilteredIsMarked
