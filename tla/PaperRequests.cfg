CONSTANTS
    w1 = w1
    w2 = w2
    c1 = c1
    Worker = {w1}
    Client = {c1}
    BatchSize = 1
    MaxBars = 1
    MaxCommands = 1
    MaxGeneration = 2
    Requests = {"stop", "kill", "heartbeat", "setState"}
    Faults = {"expiry", "locked", "abandon", "batch"}
    NoWorker = NoWorker
SPECIFICATION Spec
\* A stopped runtime is at rest.
CHECK_DEADLOCK FALSE
PROPERTIES
    StopIsFinal
    StopsTakeEffect
