SPECIFICATION FairSpec
CONSTANTS
    PolicyAdmins = {a1}
    Authors = {}
    Handlers = {h1}
    Containers = {}
    Premium <- NoPremium
    MaxLoaded = 2
    DefaultMode = "shadow"
    TableEdits = TRUE
    Attempts = 1
    MaxWrites = 2
    MaxFaults = 2
    Signatures <- MCSignatures
    BadSignature <- MCBadSignature
    Community <- MCCommunity
    Reinit = 2
    TTL = 2

INVARIANTS
    TypeOK
    FreshInv
    EnforceIsFresh
PROPERTIES
    EditTakesEffect
