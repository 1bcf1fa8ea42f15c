SPECIFICATION Spec
CONSTANTS
  NSlots = 6
  MinInQueue = 4
  MaxTime = 10
  Twice = {1, 2, 3, 4, 5, 6, 7, 8, 9, 10}
  MaxErrors = 0
  Overflow = FALSE
  Prompt = TRUE
  Antenna = TRUE
CHECK_DEADLOCK FALSE
PROPERTIES SentUnmodified
