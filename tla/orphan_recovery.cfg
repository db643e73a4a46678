SPECIFICATION FairSpec
CONSTANTS
  File = {f1}
  Slot = {s1, s2, s3}
  None = None
  LinkFallback = FALSE
  Restoring = FALSE
  Intrusion = "settled"
  MaxAborts = 3
INVARIANTS PurgedMeansGone QuarantineTracked IgnoredIsKept
PROPERTIES JournalConverges
