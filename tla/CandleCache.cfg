SPECIFICATION Spec
CONSTANTS
    Readers = 2
    Times = 3
    MonthEnd = 2
\* Every reader may be served: then nothing is left to do.
CHECK_DEADLOCK FALSE
INVARIANTS
    CacheIsSound
PROPERTIES
    CoverageIsKept
    EveryReaderEnds
