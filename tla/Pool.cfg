CONSTANTS
    Tasks = {t1, t2, t3}
    Lifespan = Lifespan
    Size = 1
    Cancellable = {t1}
    NoConn = NoConn
    MaxQueues = 3
    MaxOpenFailures = 2
    MaxThreads = 2
SPECIFICATION FairSpec
INVARIANTS
    TypeOK
    OneHolder
    NothingLost
PROPERTY AcquireIsServed
CHECK_DEADLOCK FALSE
