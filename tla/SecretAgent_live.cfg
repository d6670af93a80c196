CONSTANTS
    c1 = c1
    c2 = c2
    c3 = c3
    k1 = k1
    k2 = k2
    Calls = {c1, c2}
    Cancels = {x1}
    Keys = {k1}
    KeyOf <- TwoCalls
    QueueDepth = 0
SPECIFICATION FairSpec
PROPERTIES
    CallReturns
    CancelledReturns
CHECK_DEADLOCK FALSE
