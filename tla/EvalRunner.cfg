SPECIFICATION Spec
CONSTANTS
    Cases = 3
    Concurrency = 2
    MaxAttempts = 2
INVARIANTS
    ReportsAgree
    WorksWithinConcurrency
PROPERTIES
    EveryCaseIsReported
