SPECIFICATION Spec
CONSTANTS
    a1 = a1
    a2 = a2
    ch1 = ch1
    ch2 = ch2
    Items <- TwoAgents
    Things <- TwoChannels
    Uses <- AllUses
    SilentWhenExpired = TRUE
    MaxUses = 6
SYMMETRY Interchangeable
INVARIANTS
    NoUpstreamLeak
