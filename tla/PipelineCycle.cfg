CONSTANTS
    MaxWindow = 1
    PagesOf <- MCOneEach
    MAX_PAGES_PER_WINDOW = 2
    FETCH_RETRY_MAX_ATTEMPTS = 2
    NoWindow = NoWindow
    Keys = {k1, k2}
    HighKeys = {k1, k2}
    ANOMALY_DEDUP_TTL = 1
    WEBHOOK_RETRY_MAX_ATTEMPTS = 2
    MaxTime = 1
    Never = Never
    NoKey = NoKey
    RETRAIN_LOG_BUFFER_MAX_ROWS = 1
    RETRAIN_EVERY = 1
    MaxFaults = 1
SPECIFICATION FairPipelineSpec
INVARIANTS
    PipelineTypeOK
    AcknowledgedRowsAreStored
    AcknowledgedAnomaliesAreRecorded
    RecordedSentWasAccepted
    SentWasAccepted
PROPERTIES
    SuppressedIffRecent
    EventuallyCaughtUp
    KeepsLedger
