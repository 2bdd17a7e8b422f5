SPECIFICATION FairSpec
\* A close that cannot lock leaves workers asleep and main joining them.
CHECK_DEADLOCK FALSE
CONSTANTS
    workers = 2
    jobs = 4
    capacity = 2
    None = None
    Faults = {"lock", "wait", "wake", "create", "allocate", "join"}
INVARIANTS TypeOK JobsHaveOnePlace TrimsWhenQuiescent ReportIsTrue
PROPERTIES ImplementsQueue PoolTerminates
