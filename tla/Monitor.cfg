CONSTANTS
    d1 = d1
    d2 = d2
    p1 = p1
    Kinds = {"network", "device", "settings", "events"}
    Devices = {d1, d2}
    Wifi = {d1}
    Points = {p1}
    Home <- OneEach
    Starts <- SomeStart
    MaxChanges = 3
SPECIFICATION FairSpec
INVARIANTS
    NothingMissed
PROPERTIES
    SilentAfterStop
    StopEnds
CHECK_DEADLOCK FALSE
