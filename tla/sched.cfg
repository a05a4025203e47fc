SPECIFICATION FairSpec
CONSTANTS
    Tasks = {k1}
    Reqs = {q1, q2}
    Jobs = {j1}
    MaxStops = 1
INVARIANTS EnabledIsScheduled
PROPERTIES OneShotRetires
