------------------------------ MODULE SizeMath ------------------------------
(***************************************************************************)
(* The size arithmetic of the allocator: checked_math.h, size_class.c, and *)
(* the layouts of slabs (slab.h) and large blocks (block.h).               *)
(*                                                                         *)
(* A C function that returns a bool and writes an output is an operator    *)
(* that returns the output, or Invalid.  size_t wraps at SIZE_MAX + 1.     *)
(***************************************************************************)
EXTENDS Integers

CONSTANTS
    SIZE_MAX,
    Invalid,                 \* what a function that returns false yields
    HPLF_PAYLOAD_ALIGNMENT,  \* of max_align_t
    sizeof_block, sizeof_slab,
    HPLF_SLAB_TARGET_BYTES,
    class_count,             \* HPLF_SIZE_CLASS_COUNT
    capacities,              \* size_class_capacities
    HPLF_MAX_SMALL_SIZE

Size == 0..SIZE_MAX

Class == 0..(class_count - 1)

\* No odd divisor but 1; in the code, (n & (n - 1)) == 0.
IsPowerOfTwo(n) == n # 0 /\ \A d \in 2..n : n % d = 0 => d % 2 = 0

\* Sizes fit in size_t.
ASSUME SizeAssumption ==
    /\ SIZE_MAX \in Nat
    /\ Invalid \notin Int
    /\ HPLF_PAYLOAD_ALIGNMENT \in Size \ {0}
    /\ sizeof_block \in Size \ {0} /\ sizeof_slab \in Size \ {0}
    /\ HPLF_SLAB_TARGET_BYTES \in Size \ {0}

\* size_t has a power of two of values.
ASSUME WordAssumption == \A n \in Size : IsPowerOfTwo(n) => (SIZE_MAX + 1) % n = 0

\* The table ascends to the largest small size.
ASSUME ClassAssumption ==
    /\ class_count \in Nat \ {0}
    /\ capacities \in [Class -> Size \ {0}]
    /\ \A c, d \in Class : c < d => capacities[c] < capacities[d]
    /\ HPLF_MAX_SMALL_SIZE = capacities[class_count - 1]

wrap(n) == n % (SIZE_MAX + 1)

-----------------------------------------------------------------------------
(***************************************************************************)
(* checked_math.h                                                          *)
(***************************************************************************)

\* Mutant: the bound lets the sum be SIZE_MAX + 1.
add_bound_high(left, right) ==
    IF right > SIZE_MAX + 1 - left THEN Invalid ELSE wrap(left + right)

size_add(left, right) ==
    IF right > SIZE_MAX - left THEN Invalid ELSE wrap(left + right)

size_multiply(left, right) ==
    IF left # 0 /\ right > SIZE_MAX \div left THEN Invalid ELSE wrap(left * right)

size_align_up_pow2(value, alignment) ==
    LET mask == alignment - 1 IN
    IF alignment = 0 \/ ~IsPowerOfTwo(alignment) \/ value > SIZE_MAX - mask
      THEN Invalid
      ELSE (value + mask) - ((value + mask) % alignment)

\* Mutant: a multiple is rounded up to the next one.
round_up_always(value, multiple) ==
    IF multiple = 0 THEN Invalid ELSE size_add(value, multiple - (value % multiple))

size_round_up_multiple(value, multiple) ==
    IF multiple = 0 THEN Invalid
    ELSE IF value % multiple = 0 THEN value
    ELSE size_add(value, multiple - (value % multiple))

-----------------------------------------------------------------------------
(***************************************************************************)
(* size_class.c.  The loop stops at the first class that is large enough.  *)
(***************************************************************************)

LargeEnough(size) == {c \in Class : size <= capacities[c]}

\* Mutant: the search starts with the largest class.
class_from_the_top(size) ==
    IF size = 0 \/ size > HPLF_MAX_SMALL_SIZE THEN Invalid
    ELSE CHOOSE c \in LargeEnough(size) : \A d \in LargeEnough(size) : d <= c

size_class_for(size) ==
    IF size = 0 \/ size > HPLF_MAX_SMALL_SIZE THEN Invalid
    ELSE CHOOSE c \in LargeEnough(size) : \A d \in LargeEnough(size) : c <= d

-----------------------------------------------------------------------------
(***************************************************************************)
(* block.h and slab.h                                                      *)
(***************************************************************************)

block_payload_offset == size_align_up_pow2(sizeof_block, HPLF_PAYLOAD_ALIGNMENT)

large_layout_compute(requested_size, page_size) ==
    LET bytes_before_rounding == size_add(block_payload_offset, requested_size)
        mapping_length == size_round_up_multiple(bytes_before_rounding, page_size)
    IN  IF \/ requested_size = 0 \/ page_size = 0
           \/ block_payload_offset = Invalid
           \/ bytes_before_rounding = Invalid
           \/ mapping_length = Invalid
          THEN Invalid
          ELSE [payload_offset |-> block_payload_offset, mapping_length |-> mapping_length]

\* Mutant: the slot has no room for the prefix.
slot_without_prefix(class_capacity) == class_capacity

slot_bytes_for(class_capacity) == size_add(block_payload_offset, class_capacity)

slab_layout_compute(class_capacity, page_size) ==
    LET mapping_length == size_round_up_multiple(HPLF_SLAB_TARGET_BYTES, page_size)
        first_slot_offset == size_align_up_pow2(sizeof_slab, HPLF_PAYLOAD_ALIGNMENT)
        slot_bytes == slot_bytes_for(class_capacity)
        slot_stride == size_align_up_pow2(slot_bytes, HPLF_PAYLOAD_ALIGNMENT)
        slot_count == (mapping_length - first_slot_offset) \div slot_stride
        occupied_bytes == size_multiply(slot_count, slot_stride)
        occupied_end == size_add(first_slot_offset, occupied_bytes)
    IN  IF \/ class_capacity = 0 \/ page_size = 0
           \/ mapping_length = Invalid \/ first_slot_offset = Invalid
           \/ block_payload_offset = Invalid \/ slot_bytes = Invalid
           \/ slot_stride = Invalid
           \/ first_slot_offset >= mapping_length
           \/ slot_count = 0
           \/ occupied_bytes = Invalid \/ occupied_end = Invalid
           \/ occupied_end > mapping_length
          THEN Invalid
          ELSE [mapping_length |-> mapping_length, first_slot_offset |-> first_slot_offset,
                payload_offset |-> block_payload_offset, slot_stride |-> slot_stride,
                slot_count |-> slot_count, class_capacity |-> class_capacity]

\* Where hplf_slab_create puts the prefix of each slot.
SlotOffset(layout, i) == layout.first_slot_offset + i * layout.slot_stride

-----------------------------------------------------------------------------
(***************************************************************************)
(* What the results have to be, in unbounded arithmetic.                   *)
(***************************************************************************)

Exact(n) == IF n <= SIZE_MAX THEN n ELSE Invalid

\* result is the least multiple of unit that is not below value, if size_t has it.
RoundsUp(value, unit, result) ==
    IF result = Invalid
      THEN \A k \in Size : k * unit >= value => k * unit > SIZE_MAX
      ELSE /\ result \in value..SIZE_MAX
           /\ result < value + unit
           /\ \E k \in 0..result : result = k * unit

SmallestClass(size, class) ==
    IF class = Invalid
      THEN size = 0 \/ \A c \in Class : capacities[c] < size
      ELSE /\ class \in Class
           /\ size <= capacities[class]
           /\ \A c \in Class : c < class => capacities[c] < size

PayloadEnd(layout, i) == SlotOffset(layout, i) + layout.payload_offset + layout.class_capacity

\* The header comes before the slots, a prefix before its payload, every slot ends
\* before the next one and the last one within the mapping, payloads are aligned, and
\* no further slot would fit.
SlabLayoutFits(layout) ==
    LET slots == 0..(layout.slot_count - 1)
    IN  /\ sizeof_slab <= layout.first_slot_offset
        /\ sizeof_block <= layout.payload_offset
        /\ \A i \in slots :
               /\ PayloadEnd(layout, i) <= SlotOffset(layout, i + 1)
               /\ SlotOffset(layout, i + 1) <= layout.mapping_length
               /\ (SlotOffset(layout, i) + layout.payload_offset) % HPLF_PAYLOAD_ALIGNMENT = 0
        /\ SlotOffset(layout, layout.slot_count + 1) > layout.mapping_length

\* The prefix comes before the payload, which ends in the last page of the mapping.
LargeLayoutFits(layout, requested_size, page_size) ==
    /\ sizeof_block <= layout.payload_offset
    /\ layout.payload_offset + requested_size \in
           (layout.mapping_length - page_size + 1)..layout.mapping_length
    /\ layout.mapping_length % page_size = 0
=============================================================================
