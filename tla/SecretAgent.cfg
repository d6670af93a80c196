CONSTANTS
    c1 = c1
    c2 = c2
    c3 = c3
    k1 = k1
    k2 = k2
    Calls = {c1, c2, c3}
    Cancels = {x1}
    Keys = {k1, k2}
    KeyOf <- SharedKey
    QueueDepth = 1
SPECIFICATION Spec
INVARIANTS
    PendingExact
    BackPressure
PROPERTIES
    AcceptedReplyDelivered
    CancelWins
    ImplementsExchange
SYMMETRY CallSymmetry
CHECK_DEADLOCK FALSE
