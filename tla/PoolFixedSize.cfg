CONSTANTS
    Tasks = {t1, t2}
    Lifespan = Lifespan
    Size = 2
    Cancellable = {}
    NoConn = NoConn
    MaxQueues = 3
    MaxOpenFailures = 1
    MaxThreads = 2
SPECIFICATION Spec
INVARIANT FixedSize
