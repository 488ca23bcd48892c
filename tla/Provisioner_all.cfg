\* Three provision calls, a stop, a poller, every fault, fair threads.
SPECIFICATION FairSpec
CONSTANTS
    Threads = {t1, t2, t3}
    Stoppers = {s1}
    Pollers = {p1}
    NoOne = NoOne
    Faults = TRUE
INVARIANTS
    InFlightHasWorker
    NoNameConflict
PROPERTIES
    InFlightResolves
    LockReleased
