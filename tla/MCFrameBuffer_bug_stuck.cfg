SPECIFICATION FairSpec
CONSTANTS
  NSlots = 6
  MinInQueue = 4
  MaxTime = 8
  Twice = {1, 2, 3, 4, 5, 6, 7, 8}
  MaxErrors = 1
  Overflow = TRUE
  Prompt = TRUE
  Antenna = FALSE
CHECK_DEADLOCK FALSE
PROPERTIES QueueDrains
