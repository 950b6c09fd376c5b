SPECIFICATION Spec
CONSTANTS
    MaxTools = 3
    MaxSteps = 2
    Stages = 3
    MaxRounds = 2
    MaxScouts = 2
INVARIANTS
    
    BlockedSaysNothing
    Bounded
    ContinuationIsAnswered
PROPERTIES
    TurnEnds
