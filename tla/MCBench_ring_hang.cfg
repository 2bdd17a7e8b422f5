\* An allocation fails in the ring.
SPECIFICATION FairSpec
CHECK_DEADLOCK FALSE
CONSTANTS
    threads = 2
    live_slots = 1
    Workloads = {"ring"}
    Faults = {"allocate"}
    None = None
PROPERTIES RingEnds
