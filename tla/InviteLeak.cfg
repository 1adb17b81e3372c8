\* The callee hangs up while its own 200 is still queued.
CONSTANTS
    Faults = {"earlybye"}
SPECIFICATION Spec
INVARIANTS
    OverLeavesMap
CHECK_DEADLOCK FALSE
