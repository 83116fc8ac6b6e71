SPECIFICATION FairSpec
CONSTANTS
    c1 = c1
    c2 = c2
    Callers <- MCCallers
    Kinds <- MCKinds
    Capacity = 2
    MaxCalls = 4
INVARIANTS
    TypeOK
    NothingVanishes
    CallersInOrder
PROPERTIES
    ForwardsInOrder
    CallersGetAway
    AcceptedIsHandled
