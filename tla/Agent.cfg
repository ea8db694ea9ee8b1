CONSTANTS
    MAX_HISTORY_ROUNDS = 2
    MaxIterations = 2
    SQL_FAILURE_LIMIT = 2
    MaxBlocks = 2
    MaxMessages = 8
    MaxTurns = 3
SPECIFICATION FairSpec
INVARIANTS
    TypeOK
    RequestIsPairedUnlessDisturbed
    TrailIsTrue
    DraftsAreCurrent
PROPERTY ScriptEnds
