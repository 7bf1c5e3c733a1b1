SPECIFICATION Spec
CONSTANTS
  Speed = {1, 2}
  DefaultSpeed = 2
  Unit = {4, 8}
  DefaultUnit = 4
  Place = {0, 12}
  Delay = {0, 1}
  Size = {1, 2, 3, 5}
  Ahead = FALSE
  Capacity <- Pool
  Grain = 2
  Voice = {1, 2}
  Patches <- Steady
  MovedFrames = 2
INVARIANT FramesInOrder
