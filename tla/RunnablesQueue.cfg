SPECIFICATION FairSpec
CONSTANTS
    m1 = m1
    m2 = m2
    t1 = t1
    t2 = t2
    t3 = t3
    Runnables <- MCRunnables
    Threads <- MCThreads
    Outcomes <- AllOutcomes
    MaxSubmitted = 4
INVARIANTS
    TypeOK
    SingleRunner
    InOrder
    FlagMeansRunner
PROPERTIES
    RunsSerially
    ServesAsSerially
