CONSTANTS
    Messages = 3
    Keepalives = {2}
    MaxBuffers = 2
SPECIFICATION SessionSpec
INVARIANT LostOnlyWhenCut
PROPERTY GetsHandled
CHECK_DEADLOCK FALSE
