CONSTANTS
    o1 = o1
    cut = cut
    NoRoute = NoRoute
    Route <- MCOneOrder
    Kept <- MCKept
    WpCount <- MCOneWpCount
    StmSafety = {"FAULT_LATCHED"}
SPECIFICATION FairSpec
INVARIANT TypeOK
PROPERTIES
    CompletedUnlessOverlapped
    ServerSeesTruth
