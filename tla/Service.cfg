CONSTANT MAX_EXPONENT = 3
SPECIFICATION FairSpec
INVARIANTS
    TypeOK
    StoppedCleanly
PROPERTIES
    HealthMeansCycles
    StopEndsLoop
    ShutdownEnds
CHECK_DEADLOCK FALSE
