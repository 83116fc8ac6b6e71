SPECIFICATION Spec
CONSTANTS
    r = r
    mid = mid
    l1 = l1
    l2 = l2
    l3 = l3
    a1 = a1
    a2 = a2
    a3 = a3
    b1 = b1
    m1 = m1
    Servers <- TallServers
    Parent <- TallParent
    Sessions <- OnEachLeaf
    Home <- OnEachLeafHome
    Messages <- OneMessage
    MaxChanges = 3
INVARIANTS
    AtMostOnce
    OwedIsReceived
