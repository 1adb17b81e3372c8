\* In sequence: no response before the reply, no 1xx; own SNs only, wrap of the SN.
CONSTANTS
    Requests = {r1, r2}
    Answers = {}
    NoProxy = NoProxy
    MaxSN = 2
    MaxResponses = 2
    MaxItems = 1
    ConfigTypes = {"BasicParam", "VideoParam"}
    Requested = {"BasicParam", "VideoParam"}
    Faults = {"badxml", "payload", "nosession"}
SPECIFICATION FairSpec
INVARIANTS
    OutcomeIsFinal
PROPERTIES
    KeepsPromise
CHECK_DEADLOCK FALSE
