SPECIFICATION CallSpec
\* Every call returns once.
CHECK_DEADLOCK FALSE
CONSTANTS
    SIZE_MAX = 31
    Invalid = Invalid
    Unwritten = Unwritten
    HPLF_PAYLOAD_ALIGNMENT = 2
    sizeof_block = 3
    sizeof_slab = 5
    HPLF_SLAB_TARGET_BYTES = 22
    class_count = 3
    capacities <- Capacities
    HPLF_MAX_SMALL_SIZE = 8
INVARIANTS ArithmeticExact RoundingExact ClassTight LayoutsFit
