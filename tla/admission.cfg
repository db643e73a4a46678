SPECIFICATION FairSpec
CONSTANTS
  Client = {c1, c2, c3}
  TaskCode = {ka, kb, kc}
  HeavyConcurrency = 2
  QueueLimit = 1
  Cancellable = {c1, c2, c3}
INVARIANTS
  NoLostWakeup
  TokenConservation
PROPERTIES
  ImplementsSlots
  WaitEnds
