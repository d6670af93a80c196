CONSTANTS
    Waits <- AllWaits
    States <- AllStates
    Reasons = {7, 10, 11}
    DeviceReasons = {9, 10, 16}
    MaxMoves = 4
SPECIFICATION FairSpec
INVARIANTS
    OkWasReached
    FailureIsReal
PROPERTIES
    WaitEnds
    FreshRestNoticed
CHECK_DEADLOCK FALSE
