SPECIFICATION Spec
CONSTANTS
  c1 = c1
  c2 = c2
  c3 = c3
  c4 = c4
  f1 = f1
  f2 = f2
  Script <- FourScripts
  File = {}
  None = None
  MaxQueue = 3
  MaxStmts = 1
  MaxRef = 4
  InsertAt <- AnyEntry
  InteractiveOps = {"schedule", "load_reboot_script", "abort_schedule", "suspend_schedule", "resume_schedule", "remove_schedule", "move_schedule"}
  ScriptOps = {"schedule", "load_reboot_script", "abort_schedule", "suspend_schedule", "remove_schedule", "move_schedule"}
  Environment = {"client", "congestion"}
SYMMETRY ScriptSymmetry
INVARIANTS RefsCountUses Runnable SuspendedIsRunning ViewAgrees
