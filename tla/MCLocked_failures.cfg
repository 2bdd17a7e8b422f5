SPECIFICATION Spec
CONSTANTS
    Thread = {t1, t2}
    Class = {c1, c2}
    Slab = {s1, s2, s3}
    Slot = {x1, x2}
    None = None
    OsFails = {"lock", "unlock", "map", "unmap"}
SYMMETRY Symmetry
INVARIANTS BlocksAccounted
PROPERTIES ImplementsOwnership
