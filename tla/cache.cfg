CONSTANTS
  Clusters = {c1}
  Calls = {t1, t2}
  Reqs = {r1, r2}
  None = None
SPECIFICATION FairSpec
INVARIANTS DeletedNotServed NoFalseFallback SingleFetch
PROPERTY CallsReturn
CHECK_DEADLOCK FALSE
