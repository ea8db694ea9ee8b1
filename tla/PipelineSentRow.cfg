CONSTANTS
    MaxWindow = 1
    PagesOf <- MCOneEach
    MAX_PAGES_PER_WINDOW = 2
    FETCH_RETRY_MAX_ATTEMPTS = 2
    NoWindow = NoWindow
    Keys = {k1, k2}
    HighKeys = {k1}
    ANOMALY_DEDUP_TTL = 1
    WEBHOOK_RETRY_MAX_ATTEMPTS = 2
    MaxTime = 2
    Never = Never
    NoKey = NoKey
    RETRAIN_LOG_BUFFER_MAX_ROWS = 1
    RETRAIN_EVERY = 0
    MaxFaults = 1
SPECIFICATION PipelineSpec
INVARIANT AnsweredAlertHasSentRow
