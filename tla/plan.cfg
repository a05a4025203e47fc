SPECIFICATION Spec
CONSTANTS
    Turns = {t1, t2}
    Ops = {o1, o2}
    MaxOps = 2
    MaxPlans = 1
    MaxExecs = 2
    MaxEdits = 1
    MaxStops = 1
SYMMETRY Symmetry
INVARIANTS TypeOK DenyBlocksPlan AuditTruthful ExecutedMeansApplied ChangesAccounted
           OnlyPreviewedOpsRun
