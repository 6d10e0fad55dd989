\* Two threads share three lanes and may begin two more cycles; every pass ends.
SPECIFICATION FairSpec
CONSTANTS
    Number = {n1, n2}
    Thread = {t1, t2}
    NoThread = NoThread
    Lanes = 3
    TorLoop = TRUE
    MaxCycles = 3
    WithProfile = TRUE
INVARIANTS
    TypeOK
    NeverBackToABlockedLane
PROPERTIES
    GiveUpAfterWalks
    ImplementsTask
    PassEnds
