SPECIFICATION FairSpec
CONSTANTS
  Worker = {w1, w2}
  None = None
  TTL = 3
  Lateness = 1
  Gap = 4
INVARIANTS ScopesExclusive
PROPERTIES ActsFresh NoTheft AbandonedRowGoes
