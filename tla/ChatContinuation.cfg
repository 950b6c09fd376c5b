CONSTANTS
    c1 = c1
    c2 = c2
    b1 = b1
    b2 = b2
    ChatWorker = {c1, c2}
    BacktestWorker = {b1, b2}
    Reader = {1}
    EventType <- MCEventType
    Nobody = Nobody
    None = None
    Job = {1, 2}
    MaxClaims = 2
    MaxRepairs = 2
    ActiveLimit = 2
    Environments = {{}, {"peers", "read"}, {"peers", "expiry"}, {"crash", "error"}, {"crash", "cascade"}}
SPECIFICATION Spec
\* Everything may be settled: then nothing is left to do.
CHECK_DEADLOCK FALSE
INVARIANTS
    TypeOK
    LogIsSound
    SummaryIsPosted
    RepairsAreBounded
PROPERTIES
    ChatSettles
