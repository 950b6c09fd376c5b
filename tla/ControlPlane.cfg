SPECIFICATION Spec
CONSTANTS
    Requests = 3
    Batches = {{"respond", "resume"}, {"confirm"}, {"create"}}
\* Every request may be served: then nothing is left to do.
CHECK_DEADLOCK FALSE
INVARIANTS
    KeyIsSound
    AnsweredRunHasEnded
    LoadedOnce

    
