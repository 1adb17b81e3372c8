\* Two pollers, two objects for one id.
CONSTANTS
    Pollers = {w1, w2}
    Objects = {o1, o2}
    NoObject = NoObject
    NoTimer = NoTimer
    MaxAsked = 1
    MaxEvents = 1
    Faults = {"silent", "late", "lost", "camouflage"}
SPECIFICATION FairSpec
INVARIANTS
    WatchedWhenOnline
PROPERTIES
    PeerAndServerAgree
    SilenceIsNoticed
CHECK_DEADLOCK FALSE
