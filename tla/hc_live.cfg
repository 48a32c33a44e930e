SPECIFICATION FairSpec
CONSTANTS
    q1 = q1
    q2 = q2
    q3 = q3
    q4 = q4
    w1 = w1
    w2 = w2
    Queries = {q1, q2}
    Writers = {w1}
    Limit = 1
    Overlap = 1
    Lookback = 6
    Wall = 9
    Days = {6}
    Lag = 1
    MayFail = FALSE
    MaxClock = 11
    LastEnd = 7
PROPERTIES
    SweepTerminates
    EventuallyCached
