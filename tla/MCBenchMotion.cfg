CONSTANTS
    Orders <- MCOrders
    MaxDt = 2
    Accel = 1
    Decel = 1
    MinDist = 2
    LooseTol = 4
    Half = 4
    Epsilon = 1
    MaxAngle = 3
    MaxDelta = 1
    MaxWheel = 3
SPECIFICATION Spec
PROPERTIES
    SpeedFitsTheRoom
    StandsOnlyAtTolerance
    OrderArrives
    SteeringLimited
