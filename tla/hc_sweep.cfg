SPECIFICATION Spec
CONSTANTS
    q1 = q1
    q2 = q2
    q3 = q3
    q4 = q4
    w1 = w1
    w2 = w2
    Queries = {q1, q2, q3}
    Writers = {w1, w2}
    Limit = 2
    Overlap = 1
    Lookback = 4
    Wall = 5
    Days = {1}
    Lag = 1
    MayFail = TRUE
    MaxClock = 9
    LastEnd = 4
SYMMETRY Symmetry
INVARIANTS
    TypeOK
    SweepCoverage
    NothingOutOfReach
