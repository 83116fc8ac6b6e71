SPECIFICATION FairSpec
CONSTANTS
    k1 = k1
    k2 = k2
    c1 = c1
    w1 = w1
    w2 = w2
    Keys <- MCKeys
    Callers <- MCCallers
    Workers <- MCWorkers
    Ttls <- MCTtls
    CallbackLists <- MCNoCallbacks
    CallbacksMayThrow = FALSE
    MaxTime = 1
    MaxCalls = 3
PROPERTIES
    TakesOnlyDueKeys
