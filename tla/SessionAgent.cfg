SPECIFICATION FairSpec
CONSTANTS
    t1 = t1
    t2 = t2
    t3 = t3
    Threads <- MCThreads
    Outcomes <- MCOutcomes
    Leftovers <- MCLeftovers
    MaxSubmitted = 2
INVARIANTS
    EachQueueInOrder
    ActsForItsSession
PROPERTIES
    OtherQueueLives
