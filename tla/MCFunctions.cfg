CONSTANTS
    NoValue = NoValue
    Score <- AnyScore
    ANOMALY_SCORE_THRESHOLD = 0
    ALERT_HIGH_THRESHOLD = 0
    ALERT_MEDIUM_THRESHOLD = 0
    CONTEXT_WINDOW_MINUTES = 2
    TOKEN_HIGH_FLOOR = 50
    NEAR_TIMEOUT_THRESHOLD = 30
    HIGH_COST_FLOOR = 5
    SPIKE_MIN_BATCH_SIZE = 2
    MIN_COHORT_SIZE = 2
    MIN_CATEGORY_SIZE = 2
    LOG_INSERT_BATCH_SIZE = 2
    LOG_MEMORY_CAP = 3
    ANOMALY_MEMORY_CAP = 3
    LLM_SOURCE_IP_PLACEHOLDER = "__llm__"
    CUSTOM_QUERY_ROW_CAP = 2
    LIST_CAP = 2
    STRING_CAP = 15
    STRING_HEAD = 5
    STRING_TAIL = 5
    COMPACT_THRESHOLD_BYTES = 4
    ALERT_MAX_CHARS = 300
    MTTD_SAMPLE_WINDOW = 3
    MESSAGE_MAX_CHARS = 300
    TARGET_LABEL_MAX = 80
    MAX_EVIDENCE_ROWS = 10
    MaxInput = 4
    MaxBatches = 4
SPECIFICATION Spec
INVARIANTS
    TrainingMatchesServing
    ContextIsRecent
    LlmVerdictsAreGrounded
    CorpusIsSpared
    AcknowledgedLogsAreStored
    HelpersAgree
CHECK_DEADLOCK FALSE
