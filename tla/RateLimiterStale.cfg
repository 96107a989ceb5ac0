SPECIFICATION Spec
CONSTANTS
    w1 = w1
    w2 = w2
    Worker <- MCWorker
    Client = {1999, 2000}
    MaxClock = 3
    MaxAttempts = 12
SYMMETRY WorkerSymmetry
INVARIANT ThreePerSecond
CHECK_DEADLOCK FALSE
