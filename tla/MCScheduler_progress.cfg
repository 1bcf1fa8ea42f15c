SPECIFICATION FairSpec
CONSTANTS
  c1 = c1
  c2 = c2
  c3 = c3
  c4 = c4
  f1 = f1
  f2 = f2
  Script <- ThreeScripts
  File <- TwoFiles
  None = None
  MaxQueue = 2
  MaxStmts = 1
  MaxRef = 4
  InsertAt <- AtEnd
  InteractiveOps = {"schedule", "abort_schedule"}
  ScriptOps = {"schedule"}
  Environment = {"autoqueue", "withdraw"}
PROPERTIES DoneWasRun QueuedIsStarted
