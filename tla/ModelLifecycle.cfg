CONSTANTS
    RETRAIN_LOG_BUFFER_MAX_ROWS = 2
    RETRAIN_EVERY = 2
    BatchSizes = {1, 3}
    MaxCycles = 4
    MaxTags = 4
    Absent = Absent
    Empty = Empty
    NoModel = NoModel
SPECIFICATION Spec
INVARIANTS
    LifecycleTypeOK
    OneRetrainAtATime
    BufferIsLongestSuffix
    ModelsStayServed
    RetrainedModelsAreUsed
PROPERTY RetrainEnds
