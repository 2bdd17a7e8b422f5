SPECIFICATION Spec
CONSTANTS
    ClassCount = 2
    Capacity <- TwoClasses
    CLASS_BLOCK_LIMIT = 1
    TOTAL_BYTES_LIMIT = 2
    REFILL_LIMIT = 2
    SIZE_MAX = 255
    Thread = {t1, t2}
    Slab = {s1, s2}
    Slot = {x1, x2}
    None = None
    Ops = {"malloc", "free", "realloc", "flush", "trim", "exit"}
    OsFails = {"lock", "map", "unmap", "key", "descriptor", "register"}
    QuiescentTrim = FALSE
SYMMETRY Symmetry
INVARIANTS TypeOK OneOwner NoBlockLost ClassSegregated CacheLifecycle
PROPERTIES ReallocAllocatesFirst ImplementsOwnership
