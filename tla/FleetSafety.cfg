SPECIFICATION Spec
CONSTANTS
    w1 = w1
    w2 = w2
    Worker <- MCWorker
    Client = {10, 11}
    Free = Free
    Monitor = Monitor
    DispatchMode = 1
    InitialDrivers = 1
    MaxRequests = 3
    MaxDrivers = 2
    TankFull = 4
    Place <- MCPlace
    Blocked <- MCBlocked
    Base = 0
    Origin = 9
    Distance <- MCDistance
    ArrivalRadius = 1
SYMMETRY WorkerSymmetry
INVARIANTS
    TypeOK
    FleetOneStatus
    FleetTank
    PickStillBest
    Books
    UniqueReceipts
PROPERTY ImplementsBooking
