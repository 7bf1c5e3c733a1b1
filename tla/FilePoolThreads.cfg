SPECIFICATION Spec
CONSTANTS
  f1 = f1
  f2 = f2
  f3 = f3
  h1 = h1
  h2 = h2
  l1 = l1
  l2 = l2
  File = {f1, f3}
  Holder = {h1, h2}
  Loader = {l1, l2}
  Length <- LongMC
  Preload <- PreloadMC
  FullyLoaded = {f3}
  Unreadable = {}
  QueueCapacity = 2
  GarbageCapacity = 1
  MaxJobs = 2
  MaxPosts = 1
  Serialized = FALSE
  NoFile = NoFile
SYMMETRY ThreadSymmetry
INVARIANTS SpanBacked ExclusiveStream NoBufferLeak GarbageWithinCapacity
