CONSTANTS
    MaxWindow = 2
    PagesOf <- MCPagesOf
    MAX_PAGES_PER_WINDOW = 2
    FETCH_RETRY_MAX_ATTEMPTS = 3
    NoWindow = NoWindow
SPECIFICATION FetchSpec
INVARIANT NotLoadedWindowIsRetried
