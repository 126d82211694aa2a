SPECIFICATION FairSpec
CONSTANTS
    Callers = {c1, c2}
    Threads = {t1, t2}
    NoThread = NoThread
    NoCaller = NoCaller
INVARIANTS
    TypeOK
    LifecycleInv
    NoThreadLost
    AtMostOneWorker
PROPERTIES
    RequestOutlivesWorker
    KeepsPromise
    WorkerHeedsStop
    DestructorReturns
    StopReturns
