\* Four dispatchers: a fresh one can have elder and younger siblings.  Three
\* SIGINTs: server_app's early one, one that starts the handler in the main thread
\* and one that starts it in the monitor thread.
SPECIFICATION Spec
CONSTANTS
    WORKER_COUNT = 4
    MaxSignals = 3
CHECK_DEADLOCK FALSE
INVARIANTS TypeOK NoOrphans SavedWhole
PROPERTIES ShutdownEnds PoolGoneEnds
