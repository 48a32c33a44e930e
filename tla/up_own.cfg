SPECIFICATION FairSpec
CONSTANTS
    u1 = u1
    u2 = u2
    u3 = u3
    t1 = t1
    t2 = t2
    t3 = t3
    NoBatch = NoBatch
    Torn = Torn
    Uploads = {u1, u2, u3}
    Tables = {t1, t2}
    TableOf <- SharedTable
    Permits = 2
    PoolSize = 1
    Local = TRUE
    MayDrop = TRUE
    MayFail = TRUE
INVARIANTS
    TypeOK
    PermitsConserved
    OnlyDecodedRows
PROPERTIES
    AloneLoadsOnce
    HandlersEnd
