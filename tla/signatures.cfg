SPECIFICATION FairSpec
CONSTANTS
    PolicyAdmins = {}
    Authors = {u1, u2}
    Handlers = {}
    Containers = {c1}
    Premium <- MCPremium
    MaxLoaded = 2
    DefaultMode = "shadow"
    TableEdits = TRUE
    Attempts = 2
    MaxWrites = 2
    MaxFaults = 2
    Signatures <- MCSignatures
    BadSignature <- MCBadSignature
    Community <- MCCommunity
    Reinit = 2
    TTL = 1

INVARIANTS
    CommunityFloor
    OnlyScreened
PROPERTIES
    AckedEnforced
    ShippedReturns
