SPECIFICATION Spec
CONSTANTS
    u1 = u1
    u2 = u2
    u3 = u3
    t1 = t1
    t2 = t2
    t3 = t3
    NoBatch = NoBatch
    Torn = Torn
    Uploads = {u1, u2}
    Tables = {t1}
    TableOf <- OneTable
    Permits = 2
    PoolSize = 2
    Local = FALSE
    MayDrop = FALSE
    MayFail = FALSE
PROPERTY LoadsOnce
