CONSTANTS
    WifiDevices <- TwoRadios
    OtherDevices <- OneCard
    Aps = {1, 2, 3, 4}
    ApInfo <- FourAps
    Hidden = "hidden"
    Profiles <- SavedProfiles
    office1 = office1
    office2 = office2
    Vpns <- TwoVpns
    VpnName <- TwoNames
    Ops <- AllOps
    MaxChanges = 3
    MaxPaths = 3
    None = None
SPECIFICATION Spec
SYMMETRY Symmetry
INVARIANTS
    OneActivePerRadio
    MergedFaithful
    RowsFaithful
    StableReported
    CurrentWasConnected
