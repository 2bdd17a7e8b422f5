SPECIFICATION FairSpec
CONSTANTS
    ClassCount = 2
    Capacity <- TwoClasses
    CLASS_BLOCK_LIMIT = 1
    TOTAL_BYTES_LIMIT = 2
    REFILL_LIMIT = 1
    SIZE_MAX = 255
    Thread = {t1, t2}
    Slab = {s1}
    Slot = {x1, x2}
    None = None
    Ops = {"malloc", "free", "trim", "exit"}
    OsFails = {}
    QuiescentTrim = FALSE
PROPERTIES CallsReturn ExitPublishesCache
