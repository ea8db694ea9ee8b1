CONSTANTS
    MaxWindow = 3
    PagesOf <- MCPagesOf
    MAX_PAGES_PER_WINDOW = 2
    FETCH_RETRY_MAX_ATTEMPTS = 3
    NoWindow = NoWindow
SPECIFICATION FetchSpec
INVARIANTS
    FetchTypeOK
    UnreadWindowIsOpen
    FetchedWindowIsComplete
    OnePassOverThePages
PROPERTIES
    AcknowledgedWindowsAdvance
    CallEnds
