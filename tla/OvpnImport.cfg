CONSTANTS
    None = None
    Texts <- MCTexts
    Directives <- MCDirectives
    Blocks <- MCBlocks
    BlockLines <- MCBlockLines
    Number <- MCNumber
    Octets <- MCOctets
    Usernames = {None, "", "user"}
    Bracketed <- MCBracketed
    WithColon = {"v6"}
    TcpNames = {"tcp", "tcp-client", "tcp4"}
    MaxItems = 4
    MaxContent = 1
    MaxSetters = 4
SPECIFICATION ImportSpec
INVARIANTS ReadAsWritten ImportIsFaithful ChecksAgree
CHECK_DEADLOCK FALSE
