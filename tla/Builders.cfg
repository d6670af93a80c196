CONSTANTS
    None = None
    Addresses <- MCAddresses
    Servers <- MCServers
    Peers <- MCPeers
    MaxCalls = 5
    MaxSets = 3
SPECIFICATION Spec
INVARIANTS PanicsOnlyByHand SecurityIsTheLastAsked WireGuardFaithful
CHECK_DEADLOCK FALSE
