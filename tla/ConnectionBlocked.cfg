\* The refusal of a blocked request, as the comment on perform_ride_request has it.
SPECIFICATION Spec
CONSTANTS
    Worker = {w1, w2}
    Rider = {r1, r2}
    Attempts = 1
    NoConn = NoConn
SYMMETRY MCSymmetry
CHECK_DEADLOCK FALSE
INVARIANT BlockedIsTold
