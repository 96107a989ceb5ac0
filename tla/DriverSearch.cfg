SPECIFICATION Spec
CONSTANTS
    MaxDrivers = 3
    TankFull = 2
    Place <- MCPlace
    Blocked <- MCBlocked
    Base = 0
    Origin = 9
    Distance <- MCDistance
    ArrivalRadius = 1
    Table <- MCTable
    Infinity = 100
INVARIANTS
    TypeOK
    AnswerIsNearest
CHECK_DEADLOCK FALSE
