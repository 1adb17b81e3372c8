\* A query with one response, answered by the application or by the timer.
CONSTANTS
    Chains = {1, 2}
    MaxParts = 1
    SNs = {1, 2}
    MaxCalls = 1
    Handlers = {"one"}
    Outcomes = {"ok"}
SPECIFICATION Spec
INVARIANTS
    FindsQuery
CHECK_DEADLOCK FALSE
