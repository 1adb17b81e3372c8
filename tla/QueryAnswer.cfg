\* One query, up to three chains and one too many, answers of up to four messages.
CONSTANTS
    Chains = {1, 2, 3, 4}
    MaxParts = 4
    SNs = {1}
    MaxCalls = 2
    Handlers = {"one", "multi"}
    Outcomes = {"ok", "refused", "failed"}
SPECIFICATION FairSpec
INVARIANTS
    AnsweredOnce
    InOrder
    StopsSoon
PROPERTIES
    GetsAnswered
CHECK_DEADLOCK FALSE
