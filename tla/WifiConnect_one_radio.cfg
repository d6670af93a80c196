CONSTANTS
    a = a
    b = b
    c1 = c1
    c2 = c2
    r1 = r1
    p1 = p1
    p2 = p2
    p3 = p3
    Clients = {c1, c2}
    Profiles = {p1, p2, p3}
    Ssids = {a, b}
    RadioOrder <- OneRadio
    Requests <- OneRadioCalls
    Stores <- TwoSaved
    Additions <- OneAdded
SPECIFICATION Spec
INVARIANTS
    Serialised
    OkMeansConnected
    FailedConnectUndone
PROPERTIES
    ProfilesKept
    TryConnectYields
    ForgetComplete
SYMMETRY Symmetry
CHECK_DEADLOCK FALSE
