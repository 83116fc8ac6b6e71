SPECIFICATION FairSpec
CONSTANTS
    s1 = s1
    s2 = s2
    Sessions <- TwoSessions
    Ttl = 2
    RenewAfter = 1
    MaxTime = 4
    MaxFrames = 2
INVARIANTS
    LookupFindsSession
    SessionIsWatched
    RenewalsKeepUp
PROPERTIES
    EverySessionEnds
