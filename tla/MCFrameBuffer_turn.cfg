SPECIFICATION FairSpec
CONSTANTS
  NSlots = 6
  MinInQueue = 4
  MaxTime = 11
  Twice = {3, 11}
  MaxErrors = 0
  Overflow = FALSE
  Prompt = TRUE
  Antenna = TRUE
CHECK_DEADLOCK FALSE
PROPERTIES EachInTurn OldEnough QueueDrains
