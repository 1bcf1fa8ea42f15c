SPECIFICATION Spec
CONSTANTS
  NSlots = 6
  MinInQueue = 4
  MaxTime = 14
  Twice = {1, 2, 3, 4, 5, 6, 7, 8, 9, 10, 11, 12, 13, 14}
  MaxErrors = 1
  Overflow = TRUE
  Prompt = TRUE
  Antenna = FALSE
CHECK_DEADLOCK FALSE
PROPERTIES ClearsSentFrame
