\* The first request lets the driver join; then two workers, each killed at any point
\* of a ride or of another join, and the driver after the restart.
\* No symmetry: StatusHeals is a liveness property.
SPECIFICATION RFairSpec
CONSTANTS
    Worker = {w1, w2}
    Client = {11}
    Free = Free
    Monitor = Monitor
    NoFile = NoFile
    MaxRestarts = 1
    DispatchMode = 0
    InitialDrivers = 0
    MaxRequests = 3
    MaxDrivers = 1
    TankFull = 2
    Place <- MCPlace
    Blocked <- MCBlocked
    Base = 0
    Origin = 9
    Distance <- MCDistance
    ArrivalRadius = 1
INVARIANTS RTypeOK BooksAcrossRestart
PROPERTY StatusHeals
CHECK_DEADLOCK FALSE
