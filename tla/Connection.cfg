\* Safety and liveness, without symmetry: a worker can die while the other goes on,
\* and both can die, which ends the master; an abandoned first attempt can meet
\* the second.
SPECIFICATION FairSpec
CONSTANTS
    Worker = {w1, w2}
    Rider = {r1, r2}
    Attempts = 2
    NoConn = NoConn
CHECK_DEADLOCK FALSE
INVARIANTS TypeOK SameKey AnswerTrue ReportTrue
PROPERTY EverybodyReturns
