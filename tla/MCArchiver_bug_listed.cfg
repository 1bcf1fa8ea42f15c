SPECIFICATION Spec
CONSTANTS
  Wrap = 2
  PipeSize = 4
  Commands = {"ARC_ADD_CLIENT"}
  Samplings = {}
  FileSizes = {}
  Directories = {}
  MaxCommands = 3
  MaxMarks = 0
  MaxRecords = 3
  Faults = {}
INVARIANTS ListedOnce
