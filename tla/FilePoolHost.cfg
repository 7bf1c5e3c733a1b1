SPECIFICATION FairSpec
CONSTANTS
  f1 = f1
  f2 = f2
  f3 = f3
  h1 = h1
  h2 = h2
  l1 = l1
  l2 = l2
  File = {f1, f2}
  Holder = {h1, h2}
  Loader = {l1}
  Length <- ShortMC
  Preload <- PreloadMC
  FullyLoaded = {}
  Unreadable = {f2}
  QueueCapacity = 2
  GarbageCapacity = 1
  MaxJobs = 1
  MaxPosts = 1
  Serialized = TRUE
  NoFile = NoFile
PROPERTIES SpanNeverShrinks PromiseFulfilled GarbageFreed
