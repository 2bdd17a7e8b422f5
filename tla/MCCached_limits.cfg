\* One cache at its limits: classes of one and two bytes, three slots a slab,
\* so that a free can exceed the class limit, the byte limit and both, and a
\* slab has more blocks than a refill accepts.  Callers keep the precondition of
\* hplf_trim_quiescent, and munmap succeeds.
SPECIFICATION Spec
CONSTANTS
    ClassCount = 2
    Capacity <- TwoClasses
    CLASS_BLOCK_LIMIT = 2
    TOTAL_BYTES_LIMIT = 3
    REFILL_LIMIT = 2
    SIZE_MAX = 255
    Thread = {t1, t2}
    Slab = {s1, s2}
    Slot = {x1, x2, x3}
    None = None
    Ops = {"malloc", "free", "realloc", "flush", "trim"}
    OsFails = {"descriptor"}
    QuiescentTrim = TRUE
SYMMETRY Symmetry
INVARIANTS CacheAccounting CacheWithinLimits RefillHasBlock
PROPERTIES TrimReleasesFreeSlabs
