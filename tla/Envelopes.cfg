SPECIFICATION FairSpec
CONSTANTS
  Patches <- Mixed
  Full = 8
  Threshold = 1
  FreeThreshold = 0
  VirtuallyZero = 1
  Transition = 2
  FlexPatches <- Pointed
  Highest = 4
  Longest = 3
  Chunk = 2
  Sizes = {3, 4}
  CancelInDelay = FALSE
  MaxNotes = 2
  MaxEvents = 3
CHECK_DEADLOCK FALSE
INVARIANTS OnTime
PROPERTIES NotEarly ReleaseFalls FlexContinuous BlockEnds KeepsPromise
