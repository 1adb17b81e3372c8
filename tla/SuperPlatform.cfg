\* One platform, two starts, any reply in any state, a superior that restarts.
CONSTANTS
    MaxChains = 2
    MaxKeepalives = 1
    MaxStarts = 2
    AuthLimit = 1
    Faults = {"408", "send", "401", "4xx", "redirect", "forget"}
SPECIFICATION FairSpec
INVARIANTS
    KeepsTrying
    SettledIsRegistered
PROPERTIES
    ReleasedIsQuiet
    GetsOnline
    RegistersAgain
    LogsOut
CHECK_DEADLOCK FALSE
