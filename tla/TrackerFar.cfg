SPECIFICATION Spec
CONSTANTS
    Axes <- MCAxes
    Bits = 6
    Positions <- MCPositions
    MinLevel = 2
    MaxLevel = 6
    MaxPending = 2
INVARIANTS
    FarIsHeard
