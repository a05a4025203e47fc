CONSTANTS
    s1 = s1
    s2 = s2
    t1 = t1
    t2 = t2
    t3 = t3
    q1 = q1
    q2 = q2
    k1 = k1
    None = None
    Sessions = {s1, s2}
    Turns = {t1, t2, t3}
    Reqs = {q1, q2}
    Tasks = {k1}
SPECIFICATION Spec
INVARIANTS TypeOK LiveTurnFound NoStaleEntry NoOrphanRows DeleteSparesLiveTurns TasksKeepSessions
SYMMETRY Symmetry
