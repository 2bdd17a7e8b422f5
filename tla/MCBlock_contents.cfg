\* 24 bytes hold two slabs, or a slab and a large block, or two large blocks.
SPECIFICATION Spec
CONSTANTS
    SIZE_MAX = 63
    PTRDIFF_MAX = 31
    Invalid = Invalid
    NULL = NULL
    META = META
    HPLF_PAYLOAD_ALIGNMENT = 2
    sizeof_block = 1
    sizeof_slab = 1
    HPLF_SLAB_TARGET_BYTES = 10
    class_count = 2
    capacities <- Capacities
    HPLF_MAX_SMALL_SIZE = 4
    page_size = 4
    memory_bytes = 24
    Requests = {0, 1, 3, 7, 33}
    Counts = {1, 33}
    Fills = {1}
    OsFails = {"page_query", "map", "unmap", "lock", "unlock"}
INVARIANTS BlocksApart HeapAccounted ContentsKept
PROPERTIES ErrnoContract TrimReportsBytes
