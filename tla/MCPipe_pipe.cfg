SPECIFICATION Spec
CONSTANTS
  r1 = r1
  r2 = r2
  w1 = w1
  w2 = w2
  Reader <- TwoReaders
  Writer <- TwoWriters
  Sizes = {2, 3}
  PIPE_BUF = 3
  Capacity = 4
  Limits = {"limit", "nowait"}
  Mortal <- TwoReaders
  None = None
SYMMETRY ThreadSymmetry
INVARIANTS TypeOK NoLostWakeup NoStandstill
PROPERTIES IsStream
