\* The detection of drivers that stand still, as its comment has it.
SPECIFICATION Spec
CONSTANTS
    Start <- MCStart
    Destination <- MCDestination
PROPERTY StandingStillEnds
