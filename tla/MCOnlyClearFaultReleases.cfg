CONSTANTS
    long = long
    short = short
    NoRoute = NoRoute
    Route <- MCRoute
    cut = cut
    Kept <- MCKept
    WpCount <- MCWpCount
    LossyLink = FALSE
SPECIFICATION Spec
PROPERTY OnlyClearFaultReleases
