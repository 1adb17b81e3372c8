\* All faults, two chains at a time, a restart.  Two dialogs are enough for two
\* chains: a new one is accepted while at most one other is in use.
CONSTANTS
    Dialogs = {d1, d2}
    NoDialog = NoDialog
    MaxChains = 2
    MaxStarts = 2
    Faults = {"408", "send", "4xx", "5xx", "forget", "terminate", "notify", "camouflage", "remove"}
SPECIFICATION FairSpec
INVARIANTS
    KeepsSubscribing
PROPERTIES
    StoppedLearnsNothing
    ReleasedSendsNothing
    GetsActive
CHECK_DEADLOCK FALSE
