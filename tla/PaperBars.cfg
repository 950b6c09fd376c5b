CONSTANTS
    w1 = w1
    w2 = w2
    c1 = c1
    Worker = {w1, w2}
    Client = {}
    BatchSize = 2
    MaxBars = 3
    MaxCommands = 1
    MaxGeneration = 3
    Requests = {"stop", "kill", "heartbeat", "setState"}
    Faults = {"crash", "expiry"}
    NoWorker = NoWorker
SPECIFICATION Spec
SYMMETRY WorkerSymmetry
\* A stopped runtime is at rest.
CHECK_DEADLOCK FALSE
INVARIANTS
    TypeOK
    GenerationIsFence
    CursorIsBacked
    HaltsAreKept
