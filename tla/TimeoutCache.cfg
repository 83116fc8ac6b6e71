SPECIFICATION FairSpec
CONSTANTS
    k1 = k1
    k2 = k2
    c1 = c1
    w1 = w1
    w2 = w2
    Keys <- MCOneKey
    Callers <- MCCallers
    Workers <- MCWorkers
    Ttls <- MCTtls
    CallbackLists <- MCCallbackLists
    CallbacksMayThrow = TRUE
    MaxTime = 1
    MaxCalls = 3
INVARIANTS
    OncePerArming
    QuietSetHasAKey
PROPERTIES
    SilencedStaysSilent
    LiveTimerNotifies
