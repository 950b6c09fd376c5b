SPECIFICATION LiveSpec
CONSTANTS
    gw = gw
    direct = direct
    Models = {gw, direct}
    Proxied = {gw}
    Stages <- MCStages
    Routes <- MCRoutes
    MaxRetries <- MCMaxRetries
    MaxConsecutive <- MCMaxConsecutive
    Persisted <- MCPersisted
    Enforce = TRUE
    Workflows = {"multi", "compact", "single"}
    WebSearch = TRUE
    RequireWebSearch = FALSE
    MaxRepairs = 2
    MaxLlmRepairs = 1
    MaxPostReviews = 1
    RepairAfterBudget = TRUE
INVARIANTS
    ResultIsSound
    BudgetsHold
PROPERTIES
    NoCallWhileCooling
    GenerationEnds
