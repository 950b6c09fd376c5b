CONSTANTS
    p1 = p1
    p2 = p2
    Process = {p1, p2}
    Candidate = {1, 2, 3}
    Document = {"handbook"}
    MaxCalls = 4
    Environments = {{}, {"learn"}, {"learn", "fresh", "crash", "rebuild"}, {"peers"},
                    {"peers", "learn", "crash", "database", "rebuild"}}
    None = None
SPECIFICATION Spec
SYMMETRY MCSymmetry
\* When the last call is over nothing is left to do.
CHECK_DEADLOCK FALSE
INVARIANTS
    KnowledgeIsSound
PROPERTIES
    KnowledgeIsKept
