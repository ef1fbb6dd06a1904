SPECIFICATION FairSpec
CONSTANTS
    PolicyAdmins = {a1}
    Authors = {u1}
    Handlers = {}
    Containers = {c1}
    Signatures <- MCSignatures
    BadSignature <- MCBadSignature
    Community <- MCCommunity
    Premium <- NoPremium
    MaxLoaded = 6
    DefaultMode = "shadow"
    TableEdits = FALSE
    Attempts = 1
    MaxWrites = 2
    MaxFaults = 0
    Reinit = 1
    TTL = 1
PROPERTIES
    AckedEnforced
