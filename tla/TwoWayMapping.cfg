SPECIFICATION MapSpec
CONSTANTS
    i1 = i1
    i2 = i2
    i3 = i3
    th1 = th1
    th2 = th2
    Items <- MCItems
    Things <- MCThings
INVARIANTS
    MapTypeOK
    Inverse
PROPERTIES
    NoEmptySets
    IsARelation
