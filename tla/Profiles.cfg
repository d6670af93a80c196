CONSTANTS
    Paths = {"p1", "p2", "p3", "p4"}
    Names = {"corp", "eth0"}
    Keys = {"k1", "id"}
    Calls = {"c1", "c2", "c3"}
    OpsOf <- ConnectsAndOthers
    Starts <- SomeProfiles
    MaxOthers = 1
    None = None
SPECIFICATION Spec
INVARIANTS
    NoTwins
    UpdatesKept
    CertsStay
PROPERTIES
    VpnOpsSpare
CHECK_DEADLOCK FALSE
