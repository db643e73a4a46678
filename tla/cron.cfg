SPECIFICATION FairSpec
CONSTANTS
  Run = {r1, r2}
  Request = {q1, q2}
  NoRun = NoRun
  Interrupting = TRUE
  Overlapping = FALSE
INVARIANTS NoOverlap FlagAgrees BusyIsLive InterruptLogged
PROPERTIES ReturnsWhenStopped RunsEnd
