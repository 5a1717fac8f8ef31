CONSTANTS
    long = long
    short = short
    NoRoute = NoRoute
    Route <- MCRoute
    cut = cut
    Kept <- MCKept
    WpCount <- MCWpCount
    LossyLink = TRUE
SPECIFICATION FairSpec
INVARIANTS
    TypeOK
    AtMostOneLate
    AckedIsCurrent
    CompletedIsParked
PROPERTIES
    KeepsPromise
    StopReachesDrive
    HeldIsNotDriven
    OrderCompletes
