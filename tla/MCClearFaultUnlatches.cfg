CONSTANTS
    long = long
    NoRoute = NoRoute
    short = short
    Route <- MCOneRoute
    cut = cut
    Kept <- MCKept
    WpCount <- MCOneWpCount
    LossyLink = FALSE
SPECIFICATION FairSpec
PROPERTY ClearFaultUnlatches
