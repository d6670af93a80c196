CONSTANTS
    Paths = {"p1", "p2", "p3", "p4"}
    Names = {"corp", "eth0"}
    Keys = {"k1", "id"}
    Calls = {"c1", "c2", "c3"}
    OpsOf <- ImportAndForget
    Starts <- SomeProfiles
    MaxOthers = 1
    None = None
SPECIFICATION Spec
INVARIANTS
    ImportedHaveCerts
CHECK_DEADLOCK FALSE
