SPECIFICATION Spec
CONSTANTS
    a1 = a1
    a2 = a2
    ch1 = ch1
    ch2 = ch2
    Items <- TwoAgents
    Things <- OneChannel
    Uses <- AllUses
    SilentWhenExpired = FALSE
    MaxUses = 4
INVARIANTS
    CleanupIsFinal
