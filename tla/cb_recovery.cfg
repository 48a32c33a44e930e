SPECIFICATION CarefulSpec
CONSTANTS
    c1 = c1
    c2 = c2
    c3 = c3
    Callers = {c1, c2, c3}
    Threshold = 2
    Cooldown = 1
    StartTime = 3
    MayAbandon = {"CLOSED", "OPEN", "HALF_OPEN"}
    MaxTime = 6
    MaxFailures = 4
INVARIANT HalfOpenIsOwned
PROPERTY Recovers
