CONSTANTS
    r1 = r1
    r2 = r2
    w1 = w1
    w2 = w2
    Run = {r1}
    Worker = {w1, w2}
    MaxAttempts = 2
    ActiveLimit = 1
    LongRange = {r1}
    LongRangeActiveLimit = 1
    AutoChain = {r1}
    Environments = {{"peers", "error", "crash", "expiry", "heartbeat", "cancel"},
                    {"peers", "crash", "expiry", "heartbeat", "cancel"}, {"error"}}
    NoRun = NoRun
    NoWorker = NoWorker
SPECIFICATION Spec
\* Every submitted run may be finished: then nothing is left to do.
CHECK_DEADLOCK FALSE
INVARIANTS
    TypeOK
    AttemptsAreTokens
    PublicationIsSound
PROPERTIES
    RestingRunIsFinal
    ImplementsLeaseQueue
    JobsSettle
    RunsFinish
    CancelledIsNotPublished
