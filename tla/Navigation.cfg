\* Every place a driver can come to from eight starts and twelve destinations.
SPECIFICATION Spec
CONSTANTS
    Start <- MCStart
    Destination <- MCDestination
INVARIANTS TypeOK WallOnlyBy
PROPERTIES OnMap LeavesWall NoRideEndsOnTheRoad StandsOnlyByReading
