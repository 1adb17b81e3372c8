\* One own request of any kind and one answer that may carry its SN; every fault.
CONSTANTS
    Requests = {r1}
    Answers = {a1}
    NoProxy = NoProxy
    MaxSN = 2
    MaxResponses = 2
    MaxItems = 2
    ConfigTypes = {"BasicParam", "VideoParam", "OSD"}
    Requested = {"BasicParam", "VideoParam"}
    Faults = {"early", "provisional", "badxml", "payload", "nosession", "throw"}
SPECIFICATION FairSpec
INVARIANTS
    CallbackOnce
    MapRoutesOpenRequests
    NoLostWakeup
    SuccessIsComplete
PROPERTIES
    SentCompletes
CHECK_DEADLOCK FALSE
