SPECIFICATION FairService
CONSTANTS
    c1 = c1
    c2 = c2
    Callers = {c1, c2}
    Threshold = 1
    Cooldown = 2
    StartTime = 1
    MayAbandon = {"CLOSED", "OPEN", "HALF_OPEN"}
    MaxTime = 4
    MaxFailures = 2
    PoolSize = 1
    TTL = 2
    Timeout = 1
INVARIANTS
    ServiceTypeOK
    ClosedCountAccountedFor
    RowsNotTooOld
PROPERTIES
    NoAdmissionInHalfOpen
    ProbeWaitsOutCooldown
    RequestsEnd
