SPECIFICATION Spec
CONSTANTS
    q1 = q1
    q2 = q2
    q3 = q3
    q4 = q4
    w1 = w1
    w2 = w2
    Queries = {q1, q2, q3}
    Writers = {w1}
    Limit = 2
    Overlap = 1
    Lookback = 4
    Wall = 9
    Days = {4}
    Lag = 0
    MayFail = TRUE
    MaxClock = 11
    LastEnd = 10
INVARIANT RefreshesMissNothing
