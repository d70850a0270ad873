SPECIFICATION Spec
CONSTANTS
    MaxVer = 2
    MaxSchema = 1
    MaxBuilds = 2
    MaxMoves = 3
INVARIANTS TypeOK OneActor NoChangeLost 
PROPERTIES NoStepBack
CHECK_DEADLOCK FALSE
