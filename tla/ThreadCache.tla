---------------------------- MODULE ThreadCache ----------------------------
(***************************************************************************)
(* The decisions of src/thread_cache.c: how many blocks a refill accepts   *)
(* and what a cache that has outgrown its limits evicts.  A thread cache   *)
(* keeps, per size class, a list of blocks and their count, and one total  *)
(* of the slot bytes it retains.  The operators below compute from the     *)
(* counts (cnt) and the total (bytes), as the code does, and never from    *)
(* the lists.                                                              *)
(*                                                                         *)
(* size_t values live in 0..SIZE_MAX and wrap, so that a subtraction below *)
(* zero shows up as an enormous value and not as a negative one.           *)
(***************************************************************************)
EXTENDS FiniteSets, Sums

CONSTANTS
    ClassCount,         \* HPLF_SIZE_CLASS_COUNT
    Capacity,           \* slot bytes of each size class
    CLASS_BLOCK_LIMIT,  \* HPLF_CACHE_CLASS_BLOCK_LIMIT
    TOTAL_BYTES_LIMIT,  \* HPLF_CACHE_TOTAL_BYTES_LIMIT
    REFILL_LIMIT,       \* HPLF_CACHE_REFILL_LIMIT
    SIZE_MAX

Class == 0 .. ClassCount - 1

ASSUME ClassAssumption == ClassCount \in Nat \ {0}

ASSUME CapacityAssumption == Capacity \in [Class -> Nat \ {0}]

ASSUME LimitAssumption ==
    /\ CLASS_BLOCK_LIMIT \in Nat \ {0}
    /\ TOTAL_BYTES_LIMIT \in Nat \ {0}
    /\ REFILL_LIMIT \in Nat \ {0}
    /\ SIZE_MAX \in Nat

Smaller(a, b) == IF a < b THEN a ELSE b

\* Subtraction of size_t values.
size_sub(a, b) == IF a >= b THEN a - b ELSE (a - b) % (SIZE_MAX + 1)

\* hplf_transfer_list_take_prefix: how many of k blocks a prefix of at most n has.
prefix_count(k, n) == Smaller(k, n)

\* Mutant: the byte budget is forgotten.
refill_limit_without_bytes(cnt, bytes, c) ==
    Smaller(REFILL_LIMIT, size_sub(CLASS_BLOCK_LIMIT, cnt[c]))

\* hplf_thread_cache_refill: how many blocks of class c the cache accepts.
refill_limit(cnt, bytes, c) ==
    LET class_space == size_sub(CLASS_BLOCK_LIMIT, cnt[c])
        byte_space  == size_sub(TOTAL_BYTES_LIMIT, bytes) \div Capacity[c]
    IN  Smaller(Smaller(REFILL_LIMIT, class_space), byte_space)

OverClassLimit(cnt, c) == cnt[c] > CLASS_BLOCK_LIMIT

OverByteLimit(bytes) == bytes > TOTAL_BYTES_LIMIT

\* hplf_thread_cache_extract_eviction has something to do after a block of
\* class current was stored.
must_evict(cnt, bytes, current) ==
    OverClassLimit(cnt, current) \/ OverByteLimit(bytes)

\* It evicts from class c: the current class while that has blocks, else the
\* lowest class that has any.
evicts_from(cnt, current, c) ==
    IF cnt[current] # 0
    THEN c = current
    ELSE cnt[c] # 0 /\ \A d \in Class : d < c => cnt[d] = 0

\* How many blocks of class c it asks for: the excess over the class limit, or
\* else all of them.
eviction_count(cnt, current, c) ==
    IF OverClassLimit(cnt, current) THEN cnt[c] - CLASS_BLOCK_LIMIT ELSE cnt[c]
=============================================================================
