\* One producer and two consumers; of eight slots two are held, so that a
\* preparation can stop halfway.
SPECIFICATION FairSpec
\* A worker that fails in the ring can leave the others at the barrier.
CHECK_DEADLOCK FALSE
CONSTANTS
    threads = 3
    live_slots = 8
    Workloads = {"ring", "handoff", "mixed", "burst", "fixed"}
    Faults = {"create", "allocate", "clock", "check", "join"}
    None = None
INVARIANTS NoUseAfterFree SlotsAccounted TrimsWhenQuiescent PhasesApart
PROPERTIES BenchmarkEnds
