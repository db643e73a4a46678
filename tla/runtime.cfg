SPECIFICATION RuntimeFairSpec
CONSTANTS
  Call = {c1, c2, c3}
  Downloader = {d1}
  Workers <- TwoThreads
  IoConcurrency = 2
  BackgroundCapacity = 2
INVARIANTS
  InteractiveReserve
  SlotConservation
PROPERTIES ThreadsEnd
CHECK_DEADLOCK FALSE
