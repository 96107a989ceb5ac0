SPECIFICATION FairSpec
CONSTANTS
    w1 = w1
    w2 = w2
    Worker <- MCWorker
    Client = {10, 11}
    Free = Free
    Monitor = Monitor
    DispatchMode = 0
    InitialDrivers = 0
    MaxRequests = 3
    MaxDrivers = 1
    TankFull = 2
    Place <- MCPlace
    Blocked <- MCBlocked
    Base = 0
    Origin = 9
    Distance <- MCDistance
    ArrivalRadius = 1
PROPERTIES
    Answered
    RideEnds
    PumpEnds
