\* Two threads that miss the transfer list together.
SPECIFICATION Spec
CONSTANTS
    ClassCount = 1
    Capacity <- OneClass
    CLASS_BLOCK_LIMIT = 1
    TOTAL_BYTES_LIMIT = 2
    REFILL_LIMIT = 1
    SIZE_MAX = 255
    Thread = {t1, t2}
    Slab = {s1, s2}
    Slot = {x1, x2}
    None = None
    Ops = {"malloc"}
    OsFails = {}
    QuiescentTrim = FALSE
CHECK_DEADLOCK FALSE
PROPERTIES NoExcessMap
