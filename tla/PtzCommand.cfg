SPECIFICATION Spec
CONSTANTS
    Addresses = {0, 2748, 65535}
    Speeds = {0, 31, 255}
    Ids = {1, 255}
    Numbers = {0, 300, 65535}
    MaxCalls = 4
INVARIANT CommandRead
PROPERTY AxesApart
CHECK_DEADLOCK FALSE
