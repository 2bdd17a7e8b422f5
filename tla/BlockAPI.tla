------------------------------ MODULE BlockAPI ------------------------------
(***************************************************************************)
(* The public functions of src/allocator.c on the bytes of the address     *)
(* space: small and large blocks, their prefixes, the contents of payloads *)
(* and errno.  One call at a time, in the build without caches; the other  *)
(* modules have the interleavings.                                         *)
(*                                                                         *)
(* The heap is one record, and a function of the code maps a heap to the   *)
(* set of its outcomes, one for each way the system may answer.  A byte    *)
(* is 0, META if it belongs to a header or a prefix, or what its caller    *)
(* wrote.  A free list is the set of its blocks.                           *)
(***************************************************************************)
EXTENDS SizeMath, FiniteSets

CONSTANTS
    page_size,
    memory_bytes,    \* the size of the address space, from 0
    NULL,
    META,
    PTRDIFF_MAX,
    Requests, Counts,  \* the sizes callers ask for, and the counts of a calloc
    Fills,           \* what callers write
    OsFails          \* "page_query", "map", "unmap", "lock", "unlock"

ASSUME HeapAssumption ==
    /\ page_size \in Size \ {0} /\ page_size % HPLF_PAYLOAD_ALIGNMENT = 0
    /\ IsPowerOfTwo(HPLF_PAYLOAD_ALIGNMENT)
    /\ memory_bytes \in Size
    /\ PTRDIFF_MAX \in Size /\ Requests \cup Counts \subseteq Size
    /\ 0 \notin Fills /\ META \notin Fills \cup {0}
    /\ NULL \notin Int

VARIABLES
    heap,     \* [mem, prefix, slabs, free_lists, lost, errno]
    live,     \* what callers know of the bytes of each payload they hold
    answer    \* the last call (a realloc counts as a malloc), whether it asked for bytes
              \* and got none, the class it asked for then, and what a trim returned

vars == <<heap, live, answer>>

Bytes(address, length) == address..(address + length - 1)

offset == block_payload_offset

MayFail(calls) == calls \cap OsFails # {}

Init ==
    /\ heap = [mem |-> <<>>, prefix |-> <<>>, slabs |-> <<>>,
               free_lists |-> [c \in Class |-> {}], lost |-> {}, errno |-> "unset"]
    /\ live = <<>>
    /\ answer = [function |-> "none", failed |-> FALSE, class |-> Invalid, released |-> 0]

-----------------------------------------------------------------------------
(***************************************************************************)
(* os_memory.c, and writes to memory.                                      *)
(***************************************************************************)

Without(f, S) == [x \in DOMAIN f \ S |-> f[x]]

Overlay(f, S, value) == [x \in S \cup DOMAIN f |-> IF x \in S THEN value ELSE f[x]]

Lesser(m, n) == IF m <= n THEN m ELSE n

Write(h, S, value) == [h EXCEPT !.mem = Overlay(h.mem, S, value)]

\* Where the system can put a mapping.
Bases(h, length) ==
    {b \in 0..(memory_bytes - 1) :
        /\ b % page_size = 0 /\ b + length <= memory_bytes
        /\ Bytes(b, length) \cap DOMAIN h.mem = {}}

os_map(h, base, length) == Write(h, Bytes(base, length), 0)

MapMayFail(h, length) == Bases(h, length) = {} \/ MayFail({"page_query", "map"})

os_unmap(h, base, length) ==
    [h EXCEPT !.mem = Without(h.mem, Bytes(base, length)),
              !.prefix = Without(h.prefix, Bytes(base, length))]

Prefixes(blocks) == UNION {Bytes(b, sizeof_block) : b \in blocks}

InitBlocks(h, blocks, fields) ==
    [Write(h, Prefixes(blocks), META) EXCEPT !.prefix = Overlay(h.prefix, blocks, fields)]

Success(h, payload) == [heap |-> h, payload |-> payload]

Failure(h, error) == [heap |-> [h EXCEPT !.errno = error], payload |-> NULL]

-----------------------------------------------------------------------------
(***************************************************************************)
(* Allocation.                                                             *)
(***************************************************************************)

SlabBlocks(base, layout) == {base + SlotOffset(layout, i) : i \in 0..(layout.slot_count - 1)}

slab_create(h, class, base) ==
    LET layout == slab_layout_compute(capacities[class], page_size)
        blocks == SlabBlocks(base, layout)
        mapped == os_map(h, base, layout.mapping_length)
        header == Write(mapped, Bytes(base, sizeof_slab), META)
        fields == [kind |-> "small", owner |-> base, length |-> layout.mapping_length,
                   requested_size |-> 0, capacity |-> capacities[class]]
        slab == [class |-> class, blocks |-> blocks, length |-> layout.mapping_length]
    IN  [InitBlocks(header, blocks, fields) EXCEPT
            !.slabs = Overlay(h.slabs, {base}, slab),
            !.free_lists[class] = blocks]

\* The heaps with a block of the class on its list.
Refilled(h, class) ==
    LET layout == slab_layout_compute(capacities[class], page_size)
    IN  IF h.free_lists[class] # {} THEN {h}
        ELSE IF layout = Invalid THEN {}
        ELSE {slab_create(h, class, base) : base \in Bases(h, layout.mapping_length)}

RefillMayFail(h, class) ==
    LET layout == slab_layout_compute(capacities[class], page_size)
    IN  h.free_lists[class] = {} /\ (layout = Invalid \/ MapMayFail(h, layout.mapping_length))

TakeBlock(h, class, block, requested_size) ==
    [h EXCEPT !.free_lists[class] = @ \ {block},
              !.prefix[block].requested_size = requested_size]

allocate_small(h, requested_size, class) ==
    LET takes == UNION {{<<TakeBlock(g, class, b, requested_size), b>> :
                            b \in g.free_lists[class]} : g \in Refilled(h, class)}
    IN  {Success(t[1], t[2] + offset) : t \in takes}
        \cup (IF MayFail({"unlock"})
              THEN {Failure([t[1] EXCEPT !.lost = @ \cup {t[2]}], "lock error") : t \in takes}
              ELSE {})
        \cup (IF RefillMayFail(h, class) THEN {Failure(h, "ENOMEM")} ELSE {})
        \cup (IF MayFail({"lock"}) THEN {Failure(h, "lock error")} ELSE {})

\* Mutant: the prefix is not part of the mapping's size.
large_without_prefix(h, requested_size) ==
    LET length == size_round_up_multiple(requested_size, page_size)
    IN  {Success(InitBlocks(os_map(h, base, length), {base},
                    [kind |-> "large", owner |-> base, length |-> length,
                     requested_size |-> requested_size, capacity |-> length - offset]),
                 base + offset) : base \in Bases(h, length)}
        \cup (IF MapMayFail(h, length) THEN {Failure(h, "ENOMEM")} ELSE {})

allocate_large(h, requested_size) ==
    LET layout == large_layout_compute(requested_size, page_size)
        length == layout.mapping_length
        fields(base) == [kind |-> "large", owner |-> base, length |-> length,
                         requested_size |-> requested_size,
                         capacity |-> length - layout.payload_offset]
    IN  IF layout = Invalid THEN {Failure(h, "ENOMEM")}
        ELSE {Success(InitBlocks(os_map(h, base, length), {base}, fields(base)), base + offset) :
                 base \in Bases(h, length)}
             \cup (IF MapMayFail(h, length) THEN {Failure(h, "ENOMEM")} ELSE {})

malloc(h, size) ==
    IF size = 0 THEN {Success(h, NULL)}
    ELSE IF size > PTRDIFF_MAX THEN {Failure(h, "ENOMEM")}
    ELSE IF size_class_for(size) # Invalid THEN allocate_small(h, size, size_class_for(size))
    ELSE allocate_large(h, size)

\* Mutant: the payload is not cleared.
calloc_without_memset(h, n, size) ==
    LET total_size == size_multiply(n, size)
    IN  IF n = 0 \/ size = 0 THEN {Success(h, NULL)}
        ELSE IF total_size = Invalid THEN {Failure(h, "ENOMEM")}
        ELSE malloc(h, total_size)

calloc(h, n, size) ==
    LET total_size == size_multiply(n, size)
        cleared(o) == IF o.payload = NULL THEN o
                      ELSE [o EXCEPT !.heap = Write(@, Bytes(o.payload, total_size), 0)]
    IN  IF n = 0 \/ size = 0 THEN {Success(h, NULL)}
        ELSE IF total_size = Invalid THEN {Failure(h, "ENOMEM")}
        ELSE {cleared(o) : o \in malloc(h, total_size)}

-----------------------------------------------------------------------------
(***************************************************************************)
(* Release.  A block that a failing call puts out of reach is lost.        *)
(***************************************************************************)

Lose(h, block) == [h EXCEPT !.lost = @ \cup {block}]

\* Mutant: errno is not restored when munmap fails.
free_keeps_unmap_errno(h, payload) ==
    LET block == payload - offset
        fields == h.prefix[block]
        class == h.slabs[fields.owner].class
    IN  IF payload = NULL THEN {h}
        ELSE IF fields.kind = "large"
        THEN {os_unmap(h, fields.owner, fields.length)}
             \cup (IF MayFail({"unmap"})
                   THEN {[Lose(h, block) EXCEPT !.errno = "unmap error"]} ELSE {})
        ELSE {[h EXCEPT !.prefix[block].requested_size = 0,
                        !.free_lists[class] = @ \cup {block}]}
             \cup (IF MayFail({"lock"}) THEN {Lose(h, block)} ELSE {})

free(h, payload) ==
    LET block == payload - offset
        fields == h.prefix[block]
        class == h.slabs[fields.owner].class
    IN  IF payload = NULL THEN {h}
        ELSE IF fields.kind = "large"
        THEN {os_unmap(h, fields.owner, fields.length)}
             \cup (IF MayFail({"unmap"}) THEN {Lose(h, block)} ELSE {})
        ELSE {[h EXCEPT !.prefix[block].requested_size = 0,
                        !.free_lists[class] = @ \cup {block}]}
             \cup (IF MayFail({"lock"}) THEN {Lose(h, block)} ELSE {})

realloc_can_retain(h, block, requested_size) ==
    LET class == size_class_for(requested_size)
        fields == h.prefix[block]
    IN  IF fields.kind = "small"
        THEN class # Invalid /\ class = h.slabs[fields.owner].class
        ELSE class = Invalid /\ requested_size <= fields.capacity

CopyPayload(h, from, to, length) ==
    [h EXCEPT !.mem = [a \in DOMAIN h.mem |->
                          IF a \in Bytes(to, length) THEN h.mem[from + a - to] ELSE h.mem[a]]]

realloc(h, payload, size) ==
    LET block == payload - offset
        moved(o) ==
            LET copy_size == Lesser(h.prefix[block].requested_size, size)
            IN  {Success(g, o.payload) :
                    g \in free(CopyPayload(o.heap, payload, o.payload, copy_size), payload)}
    IN  IF payload = NULL THEN malloc(h, size)
        ELSE IF size = 0 THEN {Success(g, NULL) : g \in free(h, payload)}
        ELSE IF size > PTRDIFF_MAX THEN {Failure(h, "ENOMEM")}
        ELSE IF realloc_can_retain(h, block, size)
        THEN {Success([h EXCEPT !.prefix[block].requested_size = size], payload)}
        ELSE UNION {IF o.payload = NULL THEN {o} ELSE moved(o) : o \in malloc(h, size)}

WhollyFree(h) == {s \in DOMAIN h.slabs : h.slabs[s].blocks \subseteq h.free_lists[h.slabs[s].class]}

\* Mutant: the blocks of the slabs stay on the list of their class.
unmap_keeps_blocks(h, unmapped) ==
    LET gone == UNION {Bytes(s, h.slabs[s].length) : s \in unmapped}
    IN  [h EXCEPT !.mem = Without(h.mem, gone), !.prefix = Without(h.prefix, gone),
                  !.slabs = Without(h.slabs, unmapped)]

\* The slabs are unmapped and their blocks taken from the list of their class.
UnmapSlabs(h, unmapped) ==
    LET gone == UNION {Bytes(s, h.slabs[s].length) : s \in unmapped}
        removed(c) == UNION {h.slabs[s].blocks : s \in {t \in unmapped : h.slabs[t].class = c}}
    IN  [h EXCEPT !.mem = Without(h.mem, gone), !.prefix = Without(h.prefix, gone),
                  !.slabs = Without(h.slabs, unmapped),
                  !.free_lists = [c \in Class |-> h.free_lists[c] \ removed(c)]]

\* Mutant: the total is overwritten, not added to.
last_released(h, unmapped) ==
    IF unmapped = {} THEN 0 ELSE h.slabs[CHOOSE s \in unmapped : TRUE].length

\* released_total, which saturates.
ReleasedTotal(h, unmapped) ==
    LET total[S \in SUBSET unmapped] ==
            IF S = {} THEN 0
            ELSE LET s == CHOOSE s \in S : TRUE
                     new_total == size_add(total[S \ {s}], h.slabs[s].length)
                 IN  IF new_total = Invalid THEN SIZE_MAX ELSE new_total
    IN  total[unmapped]

\* A slab whose unmapping fails stays in the registry with all its blocks, and errno
\* tells of the failure.
trim_quiescent(h) ==
    LET outcome(unmapped, error) ==
            [heap |-> [UnmapSlabs(h, unmapped) EXCEPT !.errno = error],
             released |-> ReleasedTotal(h, unmapped)]
    IN  {outcome(WhollyFree(h), h.errno)}
        \cup (IF MayFail({"unmap"})
              THEN {outcome(unmapped, "unmap error") :
                       unmapped \in (SUBSET WhollyFree(h)) \ {WhollyFree(h)}}
              ELSE {})
        \cup (IF MayFail({"lock"}) THEN {outcome({}, h.errno)} ELSE {})

-----------------------------------------------------------------------------
(***************************************************************************)
(* The calls.  A caller knows the bytes that it wrote, that calloc cleared *)
(* and that realloc promises to keep.                                      *)
(***************************************************************************)

Known(bytes, fill) == [bytes |-> bytes, fill |-> fill]

\* Invalid if the request is too large for a class.
ClassAsked(size) == IF size > PTRDIFF_MAX THEN Invalid ELSE size_class_for(size)

Answer(function, size, payload) ==
    LET failed == size # 0 /\ payload = NULL
    IN  answer' = [function |-> function, failed |-> failed,
                   class |-> IF failed THEN ClassAsked(size) ELSE Invalid, released |-> 0]

Holds(payload, known) ==
    IF payload = NULL THEN live ELSE Overlay(live, {payload}, known)

MallocCall(size) ==
    \E o \in malloc(heap, size) :
        /\ heap' = o.heap
        /\ live' = Holds(o.payload, Known(0, 0))
        /\ Answer("malloc", size, o.payload)

CallocCall(n, size) ==
    \E o \in calloc(heap, n, size) :
        /\ heap' = o.heap
        /\ live' = Holds(o.payload, Known(n * size, 0))
        /\ Answer("calloc", n * size, o.payload)

CallerWrites(payload, fill) ==
    LET size == heap.prefix[payload - offset].requested_size IN
    /\ live[payload] # Known(size, fill)
    /\ heap' = Write(heap, Bytes(payload, size), fill)
    /\ live' = [live EXCEPT ![payload] = Known(size, fill)]
    /\ Answer("write", size, payload)

FreeCall(payload) ==
    \E h \in free(heap, payload) :
        /\ heap' = h
        /\ live' = Without(live, {payload})
        /\ Answer("free", 0, NULL)

Kept(payload, size) ==
    IF payload = NULL THEN Known(0, 0) ELSE [live[payload] EXCEPT !.bytes = Lesser(@, size)]

ReallocCall(payload, size) ==
    \E o \in realloc(heap, payload, size) :
        /\ heap' = o.heap
        /\ live' = IF size # 0 /\ o.payload = NULL THEN live
                   ELSE LET rest == Without(live, {payload}) IN
                        IF o.payload = NULL THEN rest
                        ELSE Overlay(rest, {o.payload}, Kept(payload, size))
        /\ Answer("malloc", size, o.payload)

TrimCall ==
    \E o \in trim_quiescent(heap) :
        /\ heap' = o.heap
        /\ UNCHANGED live
        /\ answer' = [function |-> "trim", failed |-> FALSE, class |-> Invalid,
                      released |-> o.released]

Next ==
    \/ \E size \in Requests : MallocCall(size)
    \/ \E n \in Counts, size \in Requests : CallocCall(n, size)
    \/ \E p \in DOMAIN live \cup {NULL} : FreeCall(p)
    \/ \E p \in DOMAIN live, fill \in Fills : CallerWrites(p, fill)
    \/ \E p \in DOMAIN live \cup {NULL}, size \in Requests : ReallocCall(p, size)
    \/ TrimCall

Spec == Init /\ [][Next]_vars

-----------------------------------------------------------------------------
(***************************************************************************)
(* Properties.                                                             *)
(***************************************************************************)

Extent(block) == Bytes(block, offset + heap.prefix[block].capacity)

Headers == UNION {Bytes(s, sizeof_slab) : s \in DOMAIN heap.slabs}

Blocks == DOMAIN heap.prefix

\* Blocks, with their prefixes, lie in mapped memory and overlap neither each other nor
\* the header of a slab, and payloads are aligned, whatever was mapped, freed and mapped
\* again before (src/allocator.c:190, src/slab.c:52-64).
BlocksApart ==
    /\ \A b \in Blocks :
           /\ Extent(b) \subseteq DOMAIN heap.mem \ Headers
           /\ (b + offset) % HPLF_PAYLOAD_ALIGNMENT = 0
           /\ heap.prefix[b].requested_size <= heap.prefix[b].capacity
    /\ \A b, d \in Blocks : b # d => Extent(b) \cap Extent(d) = {}

\* Every block is in exactly one place, large ones too: with a caller, on the free list
\* of its class, or lost by a lock or an unmapping that failed.  Memory of nobody's block
\* and no slab is not mapped, also after a failure (src/allocator.c:182, :236, :350).
HeapAccounted ==
    LET held == {p - offset : p \in DOMAIN live}
        free_blocks == UNION {heap.free_lists[c] : c \in Class}
    IN  /\ Blocks = held \cup free_blocks \cup heap.lost
        /\ held \cap free_blocks = {} /\ held \cap heap.lost = {}
        /\ free_blocks \cap heap.lost = {}
        /\ DOMAIN heap.mem =
               (UNION {Bytes(s, heap.slabs[s].length) : s \in DOMAIN heap.slabs}) \cup
               (UNION {Bytes(heap.prefix[b].owner, heap.prefix[b].length) : b \in Blocks})

\* The bytes a caller knows keep their values, through reallocs that move, shrink or
\* fail and through whatever other callers do, and nobody writes over a prefix or a
\* header (src/allocator.c:298, :345, :358; include/hplf/allocator.h:26, :32).
ContentsKept ==
    /\ \A p \in DOMAIN live : \A a \in Bytes(p, live[p].bytes) : heap.mem[a] = live[p].fill
    /\ \A a \in Headers \cup Prefixes(Blocks) : heap.mem[a] = META

\* The errors that a request can have met in h.  Only one of a class takes the mutex,
\* and it needs memory only if the list of its class is empty.
Errors(h, class) ==
    (IF class # Invalid /\ h.free_lists[class] # {} THEN {} ELSE {"ENOMEM"})
    \cup (IF class # Invalid /\ MayFail({"lock", "unlock"}) THEN {"lock error"} ELSE {})

\* A free never changes errno, though an unmapping fails in it.  An allocation that fails
\* for its size or for want of memory leaves ENOMEM, and one that fails with a block at
\* hand the error of the mutex (include/hplf/allocator.h:14, :19; src/allocator.c:137,
\* :151, :168, :185).
ErrnoContract ==
    [][/\ answer'.function = "free" => heap'.errno = heap.errno
       /\ answer'.failed => heap'.errno \in Errors(heap, answer'.class)]_vars

\* What the header says of calloc: "other failures set errno to ENOMEM"
\* (include/hplf/allocator.h:26).
CallocSetsENOMEM ==
    answer.function = "calloc" /\ answer.failed => heap.errno = "ENOMEM"

\* A trim returns the number of bytes it gave back to the system, though some unmappings
\* fail or the lock does (include/hplf/allocator.h:40, src/allocator.c:481-495).
TrimReportsBytes ==
    [][answer'.function = "trim" =>
           answer'.released = Cardinality(DOMAIN heap.mem) - Cardinality(DOMAIN heap'.mem)]_vars
=============================================================================
