SPECIFICATION Spec
CONSTANTS
  c1 = c1
  c2 = c2
  c3 = c3
  c4 = c4
  f1 = f1
  f2 = f2
  Script <- ThreeScripts
  File = {}
  None = None
  MaxQueue = 2
  MaxStmts = 1
  MaxRef = 4
  InsertAt <- AnyEntry
  InteractiveOps = {"load_reboot_script"}
  ScriptOps = {"load_reboot_script"}
  Environment = {"rtc"}
PROPERTIES InitEndReported
