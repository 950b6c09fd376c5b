CONSTANTS
    w1 = w1
    w2 = w2
    c1 = c1
    Worker = {w1, w2}
    Client = {c1}
    BatchSize = 1
    MaxBars = 1
    MaxCommands = 0
    MaxGeneration = 1
    Requests = {"stop", "kill", "heartbeat", "setState"}
    Faults = {"locked"}
    NoWorker = NoWorker
SPECIFICATION Spec
SYMMETRY WorkerSymmetry
\* A stopped runtime is at rest.
CHECK_DEADLOCK FALSE
INVARIANTS
    CursorIsBacked
