\* Every fault but an application that hangs up before its answer has run.
CONSTANTS
    Faults = {"ackloss", "send", "sdp", "teardown"}
SPECIFICATION FairSpec
INVARIANTS
    EstablishedReachesPeer
    EstablishedByBoth
    NoStaleCancel
PROPERTIES
    StaysOver
    EndedTogether
    CallerSettles
CHECK_DEADLOCK FALSE
