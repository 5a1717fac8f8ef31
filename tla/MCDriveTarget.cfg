CONSTANTS
    r1 = r1
    r3 = r3
    NoRoute = NoRoute
    Route <- MCRoute
    WpCount <- MCWpCount
    MaxStep = 1
    MaxTurns = 2
SPECIFICATION DriveSpec
INVARIANTS
    DriveTypeOK
    StatusHasCause
    IndexInBounds
PROPERTIES
    RouteWalked
    TargetContinues
    IdleAdoptsEncoder
