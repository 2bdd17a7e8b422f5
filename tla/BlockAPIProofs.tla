--------------------------- MODULE BlockAPIProofs ---------------------------
(***************************************************************************)
(* Proofs about BlockAPI, for any address space, page size, alignment,     *)
(* table of classes and failures: blocks lie apart, every block and every  *)
(* mapped byte is accounted for, callers' bytes are kept, errno and the    *)
(* result of a trim are what the header promises.                          *)
(*                                                                         *)
(* The invariant Sound(h, held) is about a heap and the blocks callers     *)
(* hold, so what a function of the code does to the heap is a lemma about  *)
(* its outcomes.  The layouts come from SizeMathProofs; the variables of   *)
(* SizeCalls, which it extends, play no part here.                         *)
(***************************************************************************)
EXTENDS BlockAPI, SizeMathProofs, DataInduction, FiniteSetTheorems

\* The prefix and the payload of a block.
Ext(h, b) == Bytes(b, offset + h.prefix[b].capacity)

\* The mapping a block is part of, and that of a slab.
Mapping(h, b) == Bytes(h.prefix[b].owner, h.prefix[b].length)

SlabBytes(h, s) == Bytes(s, h.slabs[s].length)

\* The fields of struct hplf_block and of struct hplf_slab.
BlockFields == [kind : {"small", "large"}, owner : Nat, length : Nat, requested_size : Nat,
                capacity : Nat]

SlabFields == [class : Class, blocks : SUBSET Nat, length : Nat]

\* h is a record with the fields of a heap.
IsHeap(h) ==
    h = [mem |-> h.mem, prefix |-> h.prefix, slabs |-> h.slabs, free_lists |-> h.free_lists,
         lost |-> h.lost, errno |-> h.errno]

\* Blocks and slabs are addresses, and their fields have their types.
HeapType(h) ==
    /\ IsHeap(h)
    /\ DOMAIN h.mem \subseteq 0..(memory_bytes - 1)
    /\ DOMAIN h.prefix \subseteq Nat /\ h.prefix \in [DOMAIN h.prefix -> BlockFields]
    /\ DOMAIN h.slabs \subseteq Nat /\ h.slabs \in [DOMAIN h.slabs -> SlabFields]

\* A slab begins with its header and has the blocks that name it as their owner.
SlabsOK(h) ==
    \A s \in DOMAIN h.slabs :
        /\ Bytes(s, sizeof_slab) \subseteq SlabBytes(h, s)
        /\ h.slabs[s].blocks = {b \in DOMAIN h.prefix : h.prefix[b].owner = s}

\* A small block lies in its slab, behind the header; a large one owns its mapping.
BlockOK(h, b) ==
    /\ offset \in Nat /\ sizeof_block <= offset
    /\ (b + offset) % HPLF_PAYLOAD_ALIGNMENT = 0
    /\ h.prefix[b].requested_size <= h.prefix[b].capacity
    /\ Ext(h, b) \subseteq Mapping(h, b)
    /\ LET owner == h.prefix[b].owner
       IN  IF owner \in DOMAIN h.slabs
           THEN /\ h.prefix[b].kind = "small"
                /\ h.prefix[b].length = h.slabs[owner].length
                /\ h.prefix[b].capacity = capacities[h.slabs[owner].class]
                /\ Ext(h, b) \cap Bytes(owner, sizeof_slab) = {}
           ELSE h.prefix[b].kind = "large" /\ owner = b

BlocksOK(h) == \A b \in DOMAIN h.prefix : BlockOK(h, b)

\* Mappings do not overlap, and blocks of the same slab do not either.
MappingsApart(h) ==
    /\ \A s, t \in DOMAIN h.slabs : s # t => SlabBytes(h, s) \cap SlabBytes(h, t) = {}
    /\ \A s \in DOMAIN h.slabs, b \in DOMAIN h.prefix :
           h.prefix[b].owner # s => SlabBytes(h, s) \cap Mapping(h, b) = {}
    /\ \A b, d \in DOMAIN h.prefix :
           /\ h.prefix[b].owner # h.prefix[d].owner => Mapping(h, b) \cap Mapping(h, d) = {}
           /\ b # d => Ext(h, b) \cap Ext(h, d) = {}

\* The mapped bytes are those of the slabs and of the blocks.
Covered(h) ==
    DOMAIN h.mem = (UNION {SlabBytes(h, s) : s \in DOMAIN h.slabs}) \cup
                   (UNION {Mapping(h, b) : b \in DOMAIN h.prefix})

\* How the memory of the heap is laid out.
Structure(h) ==
    HeapType(h) /\ SlabsOK(h) /\ BlocksOK(h) /\ MappingsApart(h) /\ Covered(h)

\* The blocks on the free lists.
FreeBlocks(h) == UNION {h.free_lists[c] : c \in Class}

\* Every block is in one place, and free ones are on the list of their slab's class.
Accounted(h, held) ==
    /\ h.free_lists \in [Class -> SUBSET Nat]
    /\ DOMAIN h.prefix = held \cup FreeBlocks(h) \cup h.lost
    /\ held \cap FreeBlocks(h) = {} /\ held \cap h.lost = {} /\ FreeBlocks(h) \cap h.lost = {}
    /\ \A c \in Class : \A b \in h.free_lists[c] :
           h.prefix[b].owner \in DOMAIN h.slabs /\ h.slabs[h.prefix[b].owner].class = c

\* Headers and prefixes are intact.
Intact(h) ==
    /\ \A s \in DOMAIN h.slabs : \A a \in Bytes(s, sizeof_slab) : h.mem[a] = META
    /\ \A b \in DOMAIN h.prefix : \A a \in Bytes(b, sizeof_block) : h.mem[a] = META

\* The heap is laid out, accounted for and intact, with callers holding the blocks held.
Sound(h, held) == Structure(h) /\ Accounted(h, held) /\ Intact(h)

\* The blocks that callers hold.
Held(known) == {p - offset : p \in DOMAIN known}

\* What a caller knows of a payload is true, and callers know what they hold.
KnownAt(h, p, known) ==
    /\ known.bytes \in Nat /\ known = Known(known.bytes, known.fill)
    /\ known.bytes <= h.prefix[p - offset].requested_size
    /\ \A a \in Bytes(p, known.bytes) : h.mem[a] = known.fill

KnownOK(h, known) ==
    /\ DOMAIN known \subseteq Nat /\ known = [p \in DOMAIN known |-> known[p]]
    /\ \A p \in DOMAIN known : KnownAt(h, p, known[p])

\* The inductive invariant.
IInv == Sound(heap, Held(live)) /\ KnownOK(heap, live)

-----------------------------------------------------------------------------
(***************************************************************************)
(* Intervals of bytes, and the layouts in the address space.               *)
(***************************************************************************)

\* An interval of bytes, byte by byte.
LEMMA BytesAre ==
    ASSUME NEW a \in Int, NEW n \in Int
    PROVE  \A x : x \in Bytes(a, n) <=> x \in Int /\ a <= x /\ x < a + n
BY DEF Bytes

\* The constants of the heap are sizes.
LEMMA HeapFacts ==
    /\ page_size \in Nat \ {0} /\ page_size \in Size
    /\ HPLF_PAYLOAD_ALIGNMENT \in Nat \ {0} /\ page_size % HPLF_PAYLOAD_ALIGNMENT = 0
    /\ memory_bytes \in Nat /\ memory_bytes <= SIZE_MAX
    /\ sizeof_block \in Nat \ {0} /\ sizeof_slab \in Nat \ {0}
    /\ NULL \notin Int
    /\ \A c \in Class : capacities[c] \in Size /\ capacities[c] \in Nat \ {0}
<1>1. page_size \in Size \ {0} /\ memory_bytes \in Size
  BY HeapAssumption
<1>2. \A c \in Class : capacities[c] \in Size \ {0}
  BY ClassAssumption
<1> QED BY <1>1, <1>2, HeapAssumption, SizeAssumption, SizeIsNat DEF Size

\* Pages are aligned, and so is what lies a multiple of the alignment behind one.
LEMMA AlignedInPage ==
    ASSUME NEW base \in Nat, base % page_size = 0, NEW n \in Nat,
           n % HPLF_PAYLOAD_ALIGNMENT = 0
    PROVE  (base + n) % HPLF_PAYLOAD_ALIGNMENT = 0
<1> DEFINE A == HPLF_PAYLOAD_ALIGNMENT
<1>0. page_size \in Nat \ {0} /\ A \in Nat \ {0} /\ page_size % A = 0
  BY HeapFacts
<1>1. base = page_size * (base \div page_size) /\ base \div page_size \in Nat
  BY <1>0, DivMod, DivBound
<1>2. page_size = A * (page_size \div A) /\ page_size \div A \in Nat
  BY <1>0, DivMod, DivBound
<1>3. n = A * (n \div A) /\ n \div A \in Nat
  BY <1>0, DivMod, DivBound
<1> DEFINE k == base \div page_size
           j == page_size \div A
           i == n \div A
<1> HIDE DEF k, j, i, A
<1>4. base = (A * j) * k /\ n = A * i /\ i \in Nat /\ j \in Nat /\ k \in Nat
  BY <1>1, <1>2, <1>3 DEF i, j, k
<1>5. j * k \in Nat /\ (A * j) * k = A * (j * k)
  BY <1>0, <1>4
<1>6. base + n = A * (j * k + i) /\ j * k + i \in Nat
  BY <1>0, <1>4, <1>5
<1>7. (A * (j * k + i)) % A = 0
  BY <1>0, <1>6, MultipleMod
<1> QED BY <1>6, <1>7 DEF A

\* The blocks of a new slab lie behind its header, apart and aligned, in the mapping.
LEMMA SlabInMemory ==
    ASSUME NEW c \in Class, NEW base \in Nat, base % page_size = 0,
           slab_layout_compute(capacities[c], page_size) # Invalid
    PROVE  LET layout == slab_layout_compute(capacities[c], page_size)
               blocks == SlabBlocks(base, layout)
               extent(b) == Bytes(b, offset + capacities[c])
           IN  /\ layout.mapping_length \in Nat
               /\ offset \in Nat /\ sizeof_block <= offset
               /\ Bytes(base, sizeof_slab) \subseteq Bytes(base, layout.mapping_length)
               /\ blocks \subseteq Nat
               /\ \A b \in blocks :
                      /\ (b + offset) % HPLF_PAYLOAD_ALIGNMENT = 0
                      /\ extent(b) \subseteq Bytes(base, layout.mapping_length)
                      /\ extent(b) \cap Bytes(base, sizeof_slab) = {}
               /\ \A b, d \in blocks : b # d => extent(b) \cap extent(d) = {}
<1> DEFINE layout == slab_layout_compute(capacities[c], page_size)
           len == layout.mapping_length
           first == layout.first_slot_offset
           stride == layout.slot_stride
           n == layout.slot_count
           cap == capacities[c]
           blocks == SlabBlocks(base, layout)
           extent(b) == Bytes(b, offset + cap)
<1>1. /\ SlabLayoutFits(layout)
      /\ layout \in [mapping_length : Nat, first_slot_offset : Nat,
                     payload_offset : {block_payload_offset} \cap Nat, slot_stride : Nat,
                     slot_count : Nat \ {0}, class_capacity : {cap}]
  BY HeapFacts, SlabFits
<1>2. /\ len \in Nat /\ first \in Nat /\ stride \in Nat /\ n \in Nat \ {0} /\ cap \in Nat \ {0}
      /\ offset \in Nat /\ layout.payload_offset = offset /\ layout.class_capacity = cap
  BY <1>1, HeapFacts DEF offset
<1> HIDE DEF layout
<1>3. \A i \in Nat : SlotOffset(layout, i) = first + i * stride /\ i * stride \in Nat
  BY <1>2 DEF SlotOffset
<1>4. \A i \in Nat : (i + 1) * stride = i * stride + stride
  <2>1. \A m, i \in Nat : (i + 1) * m = i * m + m
    OBVIOUS
  <2> QED BY <1>2, <2>1
<1>5. sizeof_slab <= first /\ sizeof_block <= offset
  BY <1>1, <1>2 DEF SlabLayoutFits
<1>6. \A i \in 0..(n - 1) :
         /\ i \in Nat
         /\ first + i * stride + offset + cap <= first + i * stride + stride
         /\ first + i * stride + stride <= len
         /\ (first + i * stride + offset) % HPLF_PAYLOAD_ALIGNMENT = 0
  <2> SUFFICES ASSUME NEW i \in 0..(n - 1)
               PROVE  /\ i \in Nat
                      /\ first + i * stride + offset + cap <= first + i * stride + stride
                      /\ first + i * stride + stride <= len
                      /\ (first + i * stride + offset) % HPLF_PAYLOAD_ALIGNMENT = 0
    OBVIOUS
  <2>1. i \in Nat /\ i + 1 \in Nat
    BY <1>2
  <2>2. /\ PayloadEnd(layout, i) <= SlotOffset(layout, i + 1)
        /\ SlotOffset(layout, i + 1) <= len
        /\ (SlotOffset(layout, i) + layout.payload_offset) % HPLF_PAYLOAD_ALIGNMENT = 0
    BY <1>1 DEF SlabLayoutFits
  <2>3. /\ SlotOffset(layout, i) = first + i * stride /\ i * stride \in Nat
        /\ SlotOffset(layout, i + 1) = first + (i * stride + stride)
    BY <1>3, <1>4, <2>1
  <2>4. PayloadEnd(layout, i) = first + i * stride + offset + cap
    BY <1>2, <2>3 DEF PayloadEnd
  <2> QED BY <1>2, <2>1, <2>2, <2>3, <2>4
<1>7. \A b \in blocks : \E i \in 0..(n - 1) : b = base + (first + i * stride)
  BY <1>3, <1>6 DEF SlabBlocks
<1>8. ASSUME NEW b \in blocks
      PROVE  /\ b \in Nat
             /\ (b + offset) % HPLF_PAYLOAD_ALIGNMENT = 0
             /\ extent(b) \subseteq Bytes(base, len)
             /\ extent(b) \cap Bytes(base, sizeof_slab) = {}
  <2>1. PICK i \in 0..(n - 1) : b = base + (first + i * stride)
    BY <1>7
  <2>2. /\ i \in Nat /\ i * stride \in Nat
        /\ first + i * stride + offset + cap <= first + i * stride + stride
        /\ first + i * stride + stride <= len
        /\ (first + i * stride + offset) % HPLF_PAYLOAD_ALIGNMENT = 0
    BY <1>3, <1>6
  <2>3. b \in Nat /\ b + offset = base + (first + i * stride + offset)
    BY <1>2, <2>1, <2>2
  <2>4. (b + offset) % HPLF_PAYLOAD_ALIGNMENT = 0
    <3>1. first + i * stride + offset \in Nat
      BY <1>2, <2>2
    <3> QED BY <2>2, <2>3, <3>1, AlignedInPage
  <2>5. b + (offset + cap) <= base + len /\ base + sizeof_slab <= b /\ base <= b
    BY <1>2, <1>5, <2>1, <2>2, HeapFacts
  <2>6. \A x \in extent(b) : x \in Int /\ b <= x /\ x < b + (offset + cap)
    BY <1>2, <2>3, BytesAre
  <2>7. \A x : x \in Bytes(base, len) <=> x \in Int /\ base <= x /\ x < base + len
    BY <1>2, BytesAre
  <2>8. \A x \in Bytes(base, sizeof_slab) : x \in Int /\ x < base + sizeof_slab
    BY HeapFacts, BytesAre
  <2>9. extent(b) \subseteq Bytes(base, len)
    BY <1>2, <2>3, <2>5, <2>6, <2>7
  <2>10. extent(b) \cap Bytes(base, sizeof_slab) = {}
    BY <2>3, <2>5, <2>6, <2>8, HeapFacts
  <2> QED BY <2>3, <2>4, <2>9, <2>10
<1>9. ASSUME NEW b \in blocks, NEW d \in blocks, b # d PROVE extent(b) \cap extent(d) = {}
  <2>1. PICK i \in 0..(n - 1) : b = base + (first + i * stride)
    BY <1>7
  <2>2. PICK j \in 0..(n - 1) : d = base + (first + j * stride)
    BY <1>7
  <2>3. /\ i \in Nat /\ j \in Nat /\ i * stride \in Nat /\ j * stride \in Nat
        /\ first + i * stride + offset + cap <= first + i * stride + stride
        /\ first + j * stride + offset + cap <= first + j * stride + stride
    BY <1>3, <1>6
  <2>4. /\ b \in Nat /\ d \in Nat
        /\ \A x \in extent(b) : x \in Int /\ b <= x /\ x < b + (offset + cap)
        /\ \A x \in extent(d) : x \in Int /\ d <= x /\ x < d + (offset + cap)
    BY <1>2, <1>8, <1>9, BytesAre
  <2>5. b + (offset + cap) <= d \/ d + (offset + cap) <= b
    <3>1. CASE i < j
      <4>1. stride * (i + 1) <= stride * j
        BY <1>2, <2>3, <3>1, ProductMonotone
      <4>2. i * stride + stride <= j * stride
        BY <1>2, <1>4, <2>3, <4>1
      <4>3. first + i * stride + (offset + cap) <= first + j * stride
        BY <1>2, <2>3, <4>2
      <4> QED BY <1>2, <2>1, <2>2, <2>3, <4>3
    <3>2. CASE j < i
      <4>1. stride * (j + 1) <= stride * i
        BY <1>2, <2>3, <3>2, ProductMonotone
      <4>2. j * stride + stride <= i * stride
        BY <1>2, <1>4, <2>3, <4>1
      <4>3. first + j * stride + (offset + cap) <= first + i * stride
        BY <1>2, <2>3, <4>2
      <4> QED BY <1>2, <2>1, <2>2, <2>3, <4>3
    <3>3. i # j
      BY <1>9, <2>1, <2>2
    <3> QED BY <2>3, <3>1, <3>2, <3>3
  <2> QED BY <1>2, <2>4, <2>5
<1>10. Bytes(base, sizeof_slab) \subseteq Bytes(base, len)
  <2>1. sizeof_slab <= len
    <3>1. 0 \in 0..(n - 1)
      BY <1>2
    <3>2. 0 * stride \in Nat /\ first + 0 * stride + stride <= len
      BY <1>3, <1>6, <3>1
    <3> QED BY <1>2, <1>5, <3>2, HeapFacts
  <2> QED BY <1>2, <2>1, HeapFacts, BytesAre
<1>11. blocks \subseteq Nat
  BY <1>8
<1> QED BY <1>2, <1>5, <1>8, <1>9, <1>10, <1>11 DEF layout

\* A large block fits in its mapping.
LEMMA LargeInMemory ==
    ASSUME NEW size \in Size, NEW base \in Nat, base % page_size = 0,
           large_layout_compute(size, page_size) # Invalid
    PROVE  LET layout == large_layout_compute(size, page_size)
           IN  /\ layout.mapping_length \in Nat /\ layout.payload_offset = offset
               /\ offset \in Nat /\ sizeof_block <= offset
               /\ offset + size <= layout.mapping_length
               /\ (base + offset) % HPLF_PAYLOAD_ALIGNMENT = 0
<1> DEFINE layout == large_layout_compute(size, page_size)
<1>1. /\ LargeLayoutFits(layout, size, page_size)
      /\ layout \in [payload_offset : {block_payload_offset} \cap Nat, mapping_length : Nat]
  BY HeapFacts, LargeFits
<1> HIDE DEF layout
<1>2. layout.mapping_length \in Nat /\ layout.payload_offset = offset /\ offset \in Nat
  BY <1>1 DEF offset
<1>3. size \in Nat
  BY SizeIsNat
<1>4. sizeof_block <= offset /\ offset + size <= layout.mapping_length
  BY <1>1, <1>2, <1>3, HeapFacts DEF LargeLayoutFits
<1>5. (base + offset) % HPLF_PAYLOAD_ALIGNMENT = 0
  <2>1. block_payload_offset # Invalid
    BY <1>2, SizeAssumption DEF offset
  <2>2. PICK k \in Nat : offset = k * HPLF_PAYLOAD_ALIGNMENT
    BY <2>1, OffsetIsSize DEF offset
  <2>3. offset = HPLF_PAYLOAD_ALIGNMENT * k
    BY <2>2, HeapFacts
  <2>4. offset % HPLF_PAYLOAD_ALIGNMENT = 0
    BY <2>3, HeapFacts, MultipleMod
  <2> QED BY <1>2, <2>4, AlignedInPage
<1> QED BY <1>2, <1>4, <1>5 DEF layout

-----------------------------------------------------------------------------
(***************************************************************************)
(* The fields of a changed heap.                                           *)
(***************************************************************************)

\* g differs from h in the fields of the list only.
SameButMem(h, g) ==
    /\ IsHeap(g) /\ g.prefix = h.prefix /\ g.slabs = h.slabs
    /\ g.free_lists = h.free_lists /\ g.lost = h.lost /\ g.errno = h.errno

\* A write changes the memory only.
LEMMA WriteIs ==
    ASSUME NEW h, IsHeap(h), NEW S, NEW v
    PROVE  SameButMem(h, Write(h, S, v)) /\ Write(h, S, v).mem = Overlay(h.mem, S, v)
<1> DEFINE g == [mem |-> Overlay(h.mem, S, v), prefix |-> h.prefix, slabs |-> h.slabs,
                 free_lists |-> h.free_lists, lost |-> h.lost, errno |-> h.errno]
<1>1. Write(h, S, v) = g
  BY DEF Write, IsHeap
<1> QED BY <1>1 DEF SameButMem, IsHeap

\* New prefixes, and the bytes they take.
LEMMA InitBlocksIs ==
    ASSUME NEW h, IsHeap(h), NEW blocks, NEW fields
    PROVE  LET g == InitBlocks(h, blocks, fields)
           IN  /\ IsHeap(g) /\ g.mem = Overlay(h.mem, Prefixes(blocks), META)
               /\ g.prefix = Overlay(h.prefix, blocks, fields)
               /\ g.slabs = h.slabs /\ g.free_lists = h.free_lists /\ g.lost = h.lost
               /\ g.errno = h.errno
<1> DEFINE w == Write(h, Prefixes(blocks), META)
           g == [mem |-> w.mem, prefix |-> Overlay(h.prefix, blocks, fields),
                 slabs |-> w.slabs, free_lists |-> w.free_lists, lost |-> w.lost,
                 errno |-> w.errno]
<1>1. SameButMem(h, w) /\ w.mem = Overlay(h.mem, Prefixes(blocks), META)
  BY WriteIs
<1>2. InitBlocks(h, blocks, fields) = [w EXCEPT !.prefix = Overlay(h.prefix, blocks, fields)]
  BY DEF InitBlocks
<1> HIDE DEF w
<1>3. InitBlocks(h, blocks, fields) = g
  BY <1>1, <1>2 DEF SameButMem, IsHeap
<1> QED BY <1>1, <1>3 DEF SameButMem, IsHeap

-----------------------------------------------------------------------------
(***************************************************************************)
(* What the structure of a heap implies.                                   *)
(***************************************************************************)

\* The fields of a block and of a slab have their types.
LEMMA FieldTypes ==
    ASSUME NEW h, HeapType(h)
    PROVE  /\ \A b \in DOMAIN h.prefix :
                  /\ b \in Nat
                  /\ h.prefix[b].owner \in Nat /\ h.prefix[b].length \in Nat
                  /\ h.prefix[b].requested_size \in Nat /\ h.prefix[b].capacity \in Nat
           /\ \A s \in DOMAIN h.slabs :
                  /\ s \in Nat /\ h.slabs[s].class \in Class /\ h.slabs[s].length \in Nat
                  /\ h.slabs[s].blocks \subseteq Nat
<1>1. ASSUME NEW b \in DOMAIN h.prefix
      PROVE  b \in Nat /\ h.prefix[b] \in BlockFields
  BY DEF HeapType
<1>2. ASSUME NEW s \in DOMAIN h.slabs
      PROVE  s \in Nat /\ h.slabs[s] \in SlabFields
  BY DEF HeapType
<1> QED BY <1>1, <1>2 DEF BlockFields, SlabFields

\* A block's prefix and payload lie apart in its extent.
LEMMA InExtent ==
    ASSUME NEW h, HeapType(h), NEW b \in DOMAIN h.prefix, BlockOK(h, b)
    PROVE  /\ b \in Ext(h, b)
           /\ Bytes(b, sizeof_block) \subseteq Ext(h, b)
           /\ Bytes(b + offset, h.prefix[b].capacity) \subseteq Ext(h, b)
           /\ Bytes(b + offset, h.prefix[b].capacity) \cap Bytes(b, sizeof_block) = {}
<1> DEFINE cap == h.prefix[b].capacity
<1>1. b \in Nat /\ cap \in Nat /\ offset \in Nat /\ sizeof_block <= offset
  BY FieldTypes DEF BlockOK
<1>2. sizeof_block \in Nat \ {0} /\ b + offset \in Int /\ offset + cap \in Int
  BY <1>1, HeapFacts
<1>3. /\ \A x : x \in Ext(h, b) <=> x \in Int /\ b <= x /\ x < b + (offset + cap)
      /\ \A x : x \in Bytes(b, sizeof_block) <=> x \in Int /\ b <= x /\ x < b + sizeof_block
      /\ \A x : x \in Bytes(b + offset, cap) <=>
                    x \in Int /\ b + offset <= x /\ x < (b + offset) + cap
  BY <1>1, <1>2, BytesAre DEF Ext
<1> HIDE DEF cap
<1>4. b \in Ext(h, b) /\ Bytes(b, sizeof_block) \subseteq Ext(h, b)
  BY <1>1, <1>2, <1>3
<1>5. Bytes(b + offset, cap) \subseteq Ext(h, b)
  BY <1>1, <1>2, <1>3
<1>6. Bytes(b + offset, cap) \cap Bytes(b, sizeof_block) = {}
  BY <1>1, <1>2, <1>3
<1> QED BY <1>4, <1>5, <1>6 DEF cap

\* Covered, byte by byte.
LEMMA CoveredIs ==
    ASSUME NEW h
    PROVE  Covered(h) <=> \A x : x \in DOMAIN h.mem <=>
                              \/ \E s \in DOMAIN h.slabs : x \in SlabBytes(h, s)
                              \/ \E b \in DOMAIN h.prefix : x \in Mapping(h, b)
<1> DEFINE S == UNION {SlabBytes(h, s) : s \in DOMAIN h.slabs}
           M == UNION {Mapping(h, b) : b \in DOMAIN h.prefix}
<1>1. \A x : x \in S <=> \E s \in DOMAIN h.slabs : x \in SlabBytes(h, s)
  OBVIOUS
<1>2. \A x : x \in M <=> \E b \in DOMAIN h.prefix : x \in Mapping(h, b)
  OBVIOUS
<1>3. Covered(h) <=> DOMAIN h.mem = S \cup M
  BY DEF Covered
<1> HIDE DEF S, M
<1> QED BY <1>1, <1>2, <1>3

\* Extents and headers are mapped, and do not overlap.
LEMMA InMemory ==
    ASSUME NEW h, Structure(h)
    PROVE  /\ \A b \in DOMAIN h.prefix :
                  /\ b \in Ext(h, b) /\ b \in Mapping(h, b)
                  /\ Ext(h, b) \subseteq DOMAIN h.mem /\ Mapping(h, b) \subseteq DOMAIN h.mem
                  /\ h.prefix[b].owner \in DOMAIN h.mem
           /\ \A s \in DOMAIN h.slabs :
                  /\ s \in SlabBytes(h, s) /\ SlabBytes(h, s) \subseteq DOMAIN h.mem
                  /\ Bytes(s, sizeof_slab) \subseteq DOMAIN h.mem
                  /\ s \in Bytes(s, sizeof_slab)
           /\ \A b \in DOMAIN h.prefix, s \in DOMAIN h.slabs :
                  Ext(h, b) \cap Bytes(s, sizeof_slab) = {}
<1>0. HeapType(h) /\ SlabsOK(h) /\ BlocksOK(h) /\ MappingsApart(h) /\ Covered(h)
  BY DEF Structure
<1>1. ASSUME NEW s \in DOMAIN h.slabs
      PROVE  /\ s \in SlabBytes(h, s) /\ SlabBytes(h, s) \subseteq DOMAIN h.mem
             /\ Bytes(s, sizeof_slab) \subseteq DOMAIN h.mem
             /\ s \in Bytes(s, sizeof_slab)
  <2>1. s \in Nat /\ Bytes(s, sizeof_slab) \subseteq SlabBytes(h, s)
    BY <1>0, FieldTypes DEF SlabsOK
  <2>2. s \in Bytes(s, sizeof_slab)
    BY <2>1, HeapFacts, BytesAre
  <2>3. SlabBytes(h, s) \subseteq DOMAIN h.mem
    BY <1>0, CoveredIs
  <2> QED BY <2>1, <2>2, <2>3
<1>2. ASSUME NEW b \in DOMAIN h.prefix
      PROVE  /\ b \in Ext(h, b) /\ b \in Mapping(h, b)
             /\ Ext(h, b) \subseteq DOMAIN h.mem /\ Mapping(h, b) \subseteq DOMAIN h.mem
             /\ h.prefix[b].owner \in DOMAIN h.mem
  <2>1. BlockOK(h, b)
    BY <1>0 DEF BlocksOK
  <2>2. b \in Ext(h, b) /\ Ext(h, b) \subseteq Mapping(h, b)
    BY <1>0, <2>1, InExtent DEF BlockOK
  <2>3. Mapping(h, b) \subseteq DOMAIN h.mem
    BY <1>0, CoveredIs
  <2>4. h.prefix[b].owner \in DOMAIN h.slabs \/ h.prefix[b].owner = b
    BY <2>1 DEF BlockOK
  <2> QED BY <1>1, <2>2, <2>3, <2>4
<1>3. ASSUME NEW b \in DOMAIN h.prefix, NEW s \in DOMAIN h.slabs
      PROVE  Ext(h, b) \cap Bytes(s, sizeof_slab) = {}
  <2>1. BlockOK(h, b)
    BY <1>0 DEF BlocksOK
  <2>2. CASE h.prefix[b].owner = s
    BY <2>1, <2>2 DEF BlockOK
  <2>3. CASE h.prefix[b].owner # s
    <3>1. SlabBytes(h, s) \cap Mapping(h, b) = {}
      BY <1>0, <2>3 DEF MappingsApart
    <3>2. Ext(h, b) \subseteq Mapping(h, b) /\ Bytes(s, sizeof_slab) \subseteq SlabBytes(h, s)
      BY <1>0, <2>1 DEF BlockOK, SlabsOK
    <3> QED BY <3>1, <3>2
  <2> QED BY <2>2, <2>3
<1> QED BY <1>1, <1>2, <1>3

\* Prefixes whose other fields, and slabs, that stay keep the structure.
LEMMA SameStructure ==
    ASSUME NEW h, Structure(h), NEW g, IsHeap(g), g.slabs = h.slabs,
           DOMAIN g.mem = DOMAIN h.mem, DOMAIN g.prefix = DOMAIN h.prefix,
           g.prefix \in [DOMAIN g.prefix -> BlockFields],
           \A b \in DOMAIN h.prefix :
               /\ g.prefix[b].kind = h.prefix[b].kind
               /\ g.prefix[b].owner = h.prefix[b].owner
               /\ g.prefix[b].length = h.prefix[b].length
               /\ g.prefix[b].capacity = h.prefix[b].capacity
               /\ g.prefix[b].requested_size <= g.prefix[b].capacity
    PROVE  Structure(g) /\ \A b \in DOMAIN h.prefix : Ext(g, b) = Ext(h, b)
<1>0. HeapType(h) /\ SlabsOK(h) /\ BlocksOK(h) /\ MappingsApart(h) /\ Covered(h)
  BY DEF Structure
<1>1. /\ \A b \in DOMAIN h.prefix : Ext(g, b) = Ext(h, b) /\ Mapping(g, b) = Mapping(h, b)
      /\ \A s \in DOMAIN h.slabs : SlabBytes(g, s) = SlabBytes(h, s)
  BY DEF Ext, Mapping, SlabBytes
<1>2. HeapType(g)
  BY <1>0 DEF HeapType
<1>3. SlabsOK(g)
  BY <1>0, <1>1 DEF SlabsOK
<1>4. BlocksOK(g)
  BY <1>0, <1>1 DEF BlocksOK, BlockOK
<1>5. MappingsApart(g)
  BY <1>0, <1>1 DEF MappingsApart
<1>6. Covered(g)
  BY <1>0, <1>1 DEF Covered
<1> QED BY <1>1, <1>2, <1>3, <1>4, <1>5, <1>6 DEF Structure

\* g has one more mapping than h, at base, with the given blocks: a slab or a large block.
AddsMapping(h, g, base, blocks, fields) ==
    LET bytes == Bytes(base, fields.length)
        extent(b) == Bytes(b, offset + fields.capacity)
    IN  /\ IsHeap(g) /\ base \in Nat
        /\ bytes \subseteq 0..(memory_bytes - 1) /\ bytes \cap DOMAIN h.mem = {}
        /\ DOMAIN g.mem = bytes \cup DOMAIN h.mem
        /\ blocks \subseteq Nat /\ fields \in BlockFields /\ fields.owner = base
        /\ fields.requested_size <= fields.capacity
        /\ g.prefix = Overlay(h.prefix, blocks, fields)
        /\ offset \in Nat /\ sizeof_block <= offset
        /\ \A b \in blocks : /\ (b + offset) % HPLF_PAYLOAD_ALIGNMENT = 0
                             /\ extent(b) \subseteq bytes
        /\ \A b, d \in blocks : b # d => extent(b) \cap extent(d) = {}

\* The new mapping is a slab of a class.
AddsSlab(h, g, base, blocks, fields) ==
    \E class \in Class :
        /\ g.slabs = Overlay(h.slabs, {base},
                             [class |-> class, blocks |-> blocks, length |-> fields.length])
        /\ fields.kind = "small" /\ fields.capacity = capacities[class]
        /\ Bytes(base, sizeof_slab) \subseteq Bytes(base, fields.length)
        /\ \A b \in blocks :
               Bytes(b, offset + fields.capacity) \cap Bytes(base, sizeof_slab) = {}

\* The new mapping is a large block.
AddsLarge(h, g, base, blocks, fields) ==
    g.slabs = h.slabs /\ blocks = {base} /\ fields.kind = "large"

\* The base of a new mapping is not mapped before, so it and its blocks are new.
LEMMA NewBase ==
    ASSUME NEW h, Structure(h), NEW g, NEW base, NEW blocks, NEW fields,
           AddsMapping(h, g, base, blocks, fields),
           AddsSlab(h, g, base, blocks, fields) \/ AddsLarge(h, g, base, blocks, fields)
    PROVE  /\ base \notin DOMAIN h.slabs /\ blocks \cap DOMAIN h.prefix = {}
           /\ \A b \in DOMAIN h.prefix : h.prefix[b].owner # base
           /\ \A b \in blocks : b \in Bytes(base, fields.length)
<1> DEFINE bytes == Bytes(base, fields.length)
<1>0. /\ base \in Nat /\ bytes \cap DOMAIN h.mem = {} /\ blocks \subseteq Nat
      /\ fields.capacity \in Nat /\ offset \in Nat /\ sizeof_block <= offset
      /\ \A b \in blocks : Bytes(b, offset + fields.capacity) \subseteq bytes
  BY DEF AddsMapping, BlockFields
<1>1. \A b \in blocks : b \in bytes
  <2> SUFFICES ASSUME NEW b \in blocks PROVE b \in bytes
    OBVIOUS
  <2>1. b \in Nat /\ offset + fields.capacity \in Nat \ {0}
    BY <1>0, HeapFacts
  <2>2. b \in Bytes(b, offset + fields.capacity)
    BY <2>1, BytesAre
  <2> QED BY <1>0, <2>2
<1>2. base \in bytes
  <2>1. CASE AddsSlab(h, g, base, blocks, fields)
    <3>1. base \in Bytes(base, sizeof_slab)
      BY <1>0, HeapFacts, BytesAre
    <3> QED BY <2>1, <3>1 DEF AddsSlab
  <2>2. CASE AddsLarge(h, g, base, blocks, fields)
    BY <1>1, <2>2 DEF AddsLarge
  <2> QED BY <2>1, <2>2
<1> HIDE DEF bytes
<1>3. base \notin DOMAIN h.mem /\ \A b \in blocks : b \notin DOMAIN h.mem
  BY <1>0, <1>1, <1>2
<1>4. base \notin DOMAIN h.slabs
  BY <1>3, InMemory
<1>5. blocks \cap DOMAIN h.prefix = {}
  <2>1. \A b \in DOMAIN h.prefix : b \in DOMAIN h.mem
    BY InMemory
  <2> QED BY <1>3, <2>1
<1>6. \A b \in DOMAIN h.prefix : h.prefix[b].owner # base
  BY <1>3, InMemory
<1> QED BY <1>1, <1>4, <1>5, <1>6 DEF bytes

\* A new mapping keeps the structure.
LEMMA NewMapping ==
    ASSUME NEW h, Structure(h), NEW g, NEW base, NEW blocks, NEW fields,
           AddsMapping(h, g, base, blocks, fields),
           AddsSlab(h, g, base, blocks, fields) \/ AddsLarge(h, g, base, blocks, fields)
    PROVE  /\ Structure(g)
           /\ DOMAIN g.prefix = blocks \cup DOMAIN h.prefix
           /\ \A b \in blocks : g.prefix[b] = fields
           /\ \A b \in DOMAIN h.prefix : g.prefix[b] = h.prefix[b] /\ Ext(g, b) = Ext(h, b)
           /\ \A s \in DOMAIN h.slabs : s \in DOMAIN g.slabs /\ g.slabs[s] = h.slabs[s]
<1> DEFINE bytes == Bytes(base, fields.length)
           extent(b) == Bytes(b, offset + fields.capacity)
<1>0. HeapType(h) /\ SlabsOK(h) /\ BlocksOK(h) /\ MappingsApart(h) /\ Covered(h)
  BY DEF Structure
<1>1. /\ IsHeap(g) /\ base \in Nat
      /\ bytes \subseteq 0..(memory_bytes - 1) /\ bytes \cap DOMAIN h.mem = {}
      /\ DOMAIN g.mem = bytes \cup DOMAIN h.mem
      /\ blocks \subseteq Nat /\ fields \in BlockFields /\ fields.owner = base
      /\ fields.requested_size <= fields.capacity
      /\ g.prefix = Overlay(h.prefix, blocks, fields)
      /\ offset \in Nat /\ sizeof_block <= offset
      /\ \A b \in blocks : /\ (b + offset) % HPLF_PAYLOAD_ALIGNMENT = 0
                           /\ extent(b) \subseteq bytes
      /\ \A b, d \in blocks : b # d => extent(b) \cap extent(d) = {}
  BY DEF AddsMapping
<1>2. /\ base \notin DOMAIN h.slabs /\ blocks \cap DOMAIN h.prefix = {}
      /\ \A b \in DOMAIN h.prefix : h.prefix[b].owner # base
      /\ \A b \in blocks : b \in bytes
  BY NewBase
<1>3. /\ DOMAIN g.prefix = blocks \cup DOMAIN h.prefix
      /\ \A b \in blocks : g.prefix[b] = fields
      /\ \A b \in DOMAIN h.prefix : g.prefix[b] = h.prefix[b]
  <2> DEFINE o == Overlay(h.prefix, blocks, fields)
  <2>1. /\ DOMAIN o = blocks \cup DOMAIN h.prefix
        /\ \A x \in blocks : o[x] = fields
        /\ \A x \in DOMAIN h.prefix : x \notin blocks => o[x] = h.prefix[x]
    BY DEF Overlay
  <2> HIDE DEF o
  <2>2. g.prefix = o /\ \A x \in DOMAIN h.prefix : x \notin blocks
    BY <1>1, <1>2 DEF o
  <2> QED BY <2>1, <2>2
<1>4. /\ \A b \in blocks : Ext(g, b) = extent(b) /\ Mapping(g, b) = bytes
      /\ \A b \in DOMAIN h.prefix : Ext(g, b) = Ext(h, b) /\ Mapping(g, b) = Mapping(h, b)
  BY <1>1, <1>3 DEF Ext, Mapping
<1>5. /\ DOMAIN h.slabs \subseteq DOMAIN g.slabs
      /\ DOMAIN g.slabs = DOMAIN h.slabs \/ DOMAIN g.slabs = {base} \cup DOMAIN h.slabs
      /\ \A s \in DOMAIN h.slabs : g.slabs[s] = h.slabs[s] /\ SlabBytes(g, s) = SlabBytes(h, s)
      /\ base \in DOMAIN g.slabs =>
            /\ g.slabs[base] \in SlabFields /\ g.slabs[base].blocks = blocks
            /\ g.slabs[base].length = fields.length
            /\ fields.kind = "small" /\ fields.capacity = capacities[g.slabs[base].class]
            /\ Bytes(base, sizeof_slab) \subseteq bytes
            /\ \A b \in blocks : extent(b) \cap Bytes(base, sizeof_slab) = {}
            /\ SlabBytes(g, base) = bytes
      /\ base \notin DOMAIN g.slabs => blocks = {base} /\ fields.kind = "large"
  <2>1. CASE AddsLarge(h, g, base, blocks, fields)
    BY <1>2, <2>1 DEF AddsLarge, SlabBytes
  <2>2. CASE AddsSlab(h, g, base, blocks, fields)
    <3>1. PICK class \in Class :
             /\ g.slabs = Overlay(h.slabs, {base},
                                  [class |-> class, blocks |-> blocks, length |-> fields.length])
             /\ fields.kind = "small" /\ fields.capacity = capacities[class]
             /\ Bytes(base, sizeof_slab) \subseteq bytes
             /\ \A b \in blocks : extent(b) \cap Bytes(base, sizeof_slab) = {}
      BY <2>2 DEF AddsSlab
    <3> DEFINE slab == [class |-> class, blocks |-> blocks, length |-> fields.length]
    <3>2. slab \in SlabFields
      BY <1>1 DEF SlabFields, BlockFields
    <3>3. /\ DOMAIN g.slabs = {base} \cup DOMAIN h.slabs
          /\ g.slabs[base] = slab
          /\ \A s \in DOMAIN h.slabs : g.slabs[s] = h.slabs[s]
      <4> DEFINE o == Overlay(h.slabs, {base}, slab)
      <4>1. /\ DOMAIN o = {base} \cup DOMAIN h.slabs
            /\ \A x \in {base} : o[x] = slab
            /\ \A x \in DOMAIN h.slabs : x \notin {base} => o[x] = h.slabs[x]
        BY DEF Overlay
      <4>2. g.slabs = o
        BY <3>1
      <4> HIDE DEF o, slab
      <4> QED BY <1>2, <4>1, <4>2
    <3>4. slab.class = class /\ slab.blocks = blocks /\ slab.length = fields.length
      OBVIOUS
    <3> HIDE DEF slab
    <3>5. SlabBytes(g, base) = bytes /\ \A s \in DOMAIN h.slabs : SlabBytes(g, s) = SlabBytes(h, s)
      BY <3>3, <3>4 DEF SlabBytes
    <3> HIDE DEF bytes, extent
    <3> QED BY <3>1, <3>2, <3>3, <3>4, <3>5
  <2> QED BY <2>1, <2>2
<1> HIDE DEF bytes, extent
<1>6. HeapType(g)
  <2>1. DOMAIN g.mem \subseteq 0..(memory_bytes - 1)
    BY <1>0, <1>1 DEF HeapType
  <2>2. DOMAIN g.prefix \subseteq Nat /\ g.prefix \in [DOMAIN g.prefix -> BlockFields]
    <3>1. \A b \in DOMAIN g.prefix : b \in Nat /\ g.prefix[b] \in BlockFields
      BY <1>0, <1>1, <1>3 DEF HeapType
    <3>2. g.prefix = [b \in DOMAIN g.prefix |-> g.prefix[b]]
      BY <1>1 DEF Overlay
    <3> QED BY <3>1, <3>2
  <2>3. DOMAIN g.slabs \subseteq Nat /\ g.slabs \in [DOMAIN g.slabs -> SlabFields]
    <3>1. \A s \in DOMAIN g.slabs : s \in Nat /\ g.slabs[s] \in SlabFields
      BY <1>0, <1>1, <1>5 DEF HeapType
    <3>2. g.slabs = [s \in DOMAIN g.slabs |-> g.slabs[s]]
      BY <1>0 DEF AddsSlab, AddsLarge, Overlay, HeapType
    <3> QED BY <3>1, <3>2
  <2> QED BY <1>1, <2>1, <2>2, <2>3 DEF HeapType
<1>7. SlabsOK(g)
  <2> SUFFICES ASSUME NEW s \in DOMAIN g.slabs
               PROVE  /\ Bytes(s, sizeof_slab) \subseteq SlabBytes(g, s)
                      /\ g.slabs[s].blocks = {b \in DOMAIN g.prefix : g.prefix[b].owner = s}
    BY DEF SlabsOK
  <2>1. CASE s = base
    <3>1. \A b \in DOMAIN g.prefix : g.prefix[b].owner = base <=> b \in blocks
      BY <1>1, <1>2, <1>3
    <3>2. {b \in DOMAIN g.prefix : g.prefix[b].owner = base} = blocks
      BY <1>3, <3>1
    <3> QED BY <1>5, <2>1, <3>2
  <2>2. CASE s # base
    <3>1. s \in DOMAIN h.slabs
      BY <1>5, <2>2
    <3>2. {b \in DOMAIN g.prefix : g.prefix[b].owner = s}
             = {b \in DOMAIN h.prefix : h.prefix[b].owner = s}
      BY <1>1, <1>3, <2>2
    <3> QED BY <1>0, <1>5, <3>1, <3>2 DEF SlabsOK
  <2> QED BY <2>1, <2>2
<1>8. BlocksOK(g)
  <2> SUFFICES ASSUME NEW b \in DOMAIN g.prefix PROVE BlockOK(g, b)
    BY DEF BlocksOK
  <2>1. CASE b \in blocks
    <3>1. g.prefix[b] = fields /\ Ext(g, b) = extent(b) /\ Mapping(g, b) = bytes
      BY <1>3, <1>4, <2>1
    <3> QED BY <1>1, <1>5, <2>1, <3>1 DEF BlockOK
  <2>2. CASE b \in DOMAIN h.prefix
    <3>1. BlockOK(h, b)
      BY <1>0, <2>2 DEF BlocksOK
    <3>2. /\ g.prefix[b] = h.prefix[b] /\ Ext(g, b) = Ext(h, b) /\ Mapping(g, b) = Mapping(h, b)
          /\ h.prefix[b].owner \in DOMAIN g.slabs <=> h.prefix[b].owner \in DOMAIN h.slabs
      BY <1>2, <1>3, <1>4, <1>5, <2>2
    <3>3. h.prefix[b].owner \in DOMAIN h.slabs =>
             g.slabs[h.prefix[b].owner] = h.slabs[h.prefix[b].owner]
      BY <1>5
    <3> QED BY <3>1, <3>2, <3>3 DEF BlockOK
  <2> QED BY <1>3, <2>1, <2>2
<1>9. MappingsApart(g)
  <2>1. /\ \A b \in DOMAIN h.prefix : Mapping(h, b) \cap bytes = {} /\ Ext(h, b) \cap bytes = {}
        /\ \A s \in DOMAIN h.slabs : SlabBytes(h, s) \cap bytes = {}
    <3>1. bytes \cap DOMAIN h.mem = {}
      BY <1>1
    <3> QED BY <3>1, InMemory
  <2>2. \A s, t \in DOMAIN g.slabs : s # t => SlabBytes(g, s) \cap SlabBytes(g, t) = {}
    BY <1>0, <1>5, <2>1 DEF MappingsApart
  <2>3. \A s \in DOMAIN g.slabs, b \in DOMAIN g.prefix :
           g.prefix[b].owner # s => SlabBytes(g, s) \cap Mapping(g, b) = {}
    BY <1>0, <1>1, <1>3, <1>4, <1>5, <2>1 DEF MappingsApart
  <2>4. \A b, d \in DOMAIN g.prefix :
           g.prefix[b].owner # g.prefix[d].owner => Mapping(g, b) \cap Mapping(g, d) = {}
    BY <1>0, <1>1, <1>3, <1>4, <2>1 DEF MappingsApart
  <2>5. \A b, d \in DOMAIN g.prefix : b # d => Ext(g, b) \cap Ext(g, d) = {}
    <3>1. \A b, d \in DOMAIN h.prefix : b # d => Ext(h, b) \cap Ext(h, d) = {}
      BY <1>0 DEF MappingsApart
    <3>2. \A b \in blocks, d \in DOMAIN h.prefix : extent(b) \cap Ext(h, d) = {}
      BY <1>1, <2>1
    <3>3. \A b, d \in blocks : b # d => extent(b) \cap extent(d) = {}
      BY <1>1
    <3> SUFFICES ASSUME NEW b \in DOMAIN g.prefix, NEW d \in DOMAIN g.prefix, b # d
                 PROVE  Ext(g, b) \cap Ext(g, d) = {}
      OBVIOUS
    <3>4. CASE b \in blocks /\ d \in blocks
      BY <1>4, <3>3, <3>4
    <3>5. CASE b \in blocks /\ d \in DOMAIN h.prefix
      BY <1>4, <3>2, <3>5
    <3>6. CASE b \in DOMAIN h.prefix /\ d \in blocks
      BY <1>4, <3>2, <3>6
    <3>7. CASE b \in DOMAIN h.prefix /\ d \in DOMAIN h.prefix
      BY <1>4, <3>1, <3>7
    <3> QED BY <1>3, <3>4, <3>5, <3>6, <3>7
  <2> QED BY <2>2, <2>3, <2>4, <2>5 DEF MappingsApart
<1>10. Covered(g)
  <2>1. \A x : x \in DOMAIN h.mem <=> \/ \E s \in DOMAIN h.slabs : x \in SlabBytes(h, s)
                                     \/ \E b \in DOMAIN h.prefix : x \in Mapping(h, b)
    BY <1>0, CoveredIs
  <2>2. \A x \in bytes : \/ \E s \in DOMAIN g.slabs : x \in SlabBytes(g, s)
                         \/ \E b \in DOMAIN g.prefix : x \in Mapping(g, b)
    BY <1>3, <1>4, <1>5
  <2>3. \A s \in DOMAIN g.slabs : SlabBytes(g, s) \subseteq DOMAIN g.mem
    BY <1>1, <1>5, <2>1
  <2>4. \A b \in DOMAIN g.prefix : Mapping(g, b) \subseteq DOMAIN g.mem
    BY <1>1, <1>3, <1>4, <2>1
  <2>5. ASSUME NEW x
        PROVE  x \in DOMAIN g.mem <=> \/ \E s \in DOMAIN g.slabs : x \in SlabBytes(g, s)
                                      \/ \E b \in DOMAIN g.prefix : x \in Mapping(g, b)
    <3>1. CASE x \in bytes
      BY <1>1, <2>2, <3>1
    <3>2. ASSUME x \in DOMAIN h.mem
          PROVE  \/ \E s \in DOMAIN g.slabs : x \in SlabBytes(g, s)
                 \/ \E b \in DOMAIN g.prefix : x \in Mapping(g, b)
      BY <1>3, <1>4, <1>5, <2>1, <3>2
    <3> QED BY <1>1, <2>3, <2>4, <3>1, <3>2
  <2> QED BY <2>5, CoveredIs
<1> QED BY <1>3, <1>4, <1>5, <1>6, <1>7, <1>8, <1>9, <1>10 DEF Structure

\* x is a byte of a mapping in M.
Gone(h, M, x) == \/ \E s \in DOMAIN h.slabs : s \in M /\ x \in SlabBytes(h, s)
                 \/ \E b \in DOMAIN h.prefix : h.prefix[b].owner \in M /\ x \in Mapping(h, b)

\* g is h without the mappings of M, whose bytes are gone.
DropsMappings(h, g, M, gone) ==
    /\ IsHeap(g) /\ g.mem = Without(h.mem, gone) /\ g.prefix = Without(h.prefix, gone)
    /\ g.slabs = Without(h.slabs, M)
    /\ \A x \in DOMAIN h.mem : x \in gone <=> Gone(h, M, x)

\* The bytes of other mappings stay.
LEMMA OthersStay ==
    ASSUME NEW h, Structure(h), NEW M, NEW gone,
           \A x \in DOMAIN h.mem : x \in gone <=> Gone(h, M, x)
    PROVE  /\ \A s \in DOMAIN h.slabs : s \notin M => SlabBytes(h, s) \cap gone = {}
           /\ \A b \in DOMAIN h.prefix :
                  /\ h.prefix[b].owner \notin M =>
                         Mapping(h, b) \cap gone = {} /\ Ext(h, b) \cap gone = {} /\ b \notin gone
                  /\ h.prefix[b].owner \in M => b \in gone
<1>0. MappingsApart(h) /\ BlocksOK(h)
  BY DEF Structure
<1>1. ASSUME NEW s \in DOMAIN h.slabs, s \notin M, NEW x \in SlabBytes(h, s) PROVE x \notin gone
  <2>1. x \in DOMAIN h.mem
    BY <1>1, InMemory
  <2>2. \A t \in DOMAIN h.slabs : t \in M => x \notin SlabBytes(h, t)
    BY <1>0, <1>1 DEF MappingsApart
  <2>3. \A b \in DOMAIN h.prefix : h.prefix[b].owner \in M => x \notin Mapping(h, b)
    BY <1>0, <1>1 DEF MappingsApart
  <2> QED BY <2>1, <2>2, <2>3 DEF Gone
<1>2. ASSUME NEW b \in DOMAIN h.prefix, h.prefix[b].owner \notin M, NEW x \in Mapping(h, b)
      PROVE  x \notin gone
  <2>1. x \in DOMAIN h.mem
    BY <1>2, InMemory
  <2>2. \A t \in DOMAIN h.slabs : t \in M => x \notin SlabBytes(h, t)
    BY <1>0, <1>2 DEF MappingsApart
  <2>3. \A d \in DOMAIN h.prefix : h.prefix[d].owner \in M => x \notin Mapping(h, d)
    BY <1>0, <1>2 DEF MappingsApart
  <2> QED BY <2>1, <2>2, <2>3 DEF Gone
<1>3. ASSUME NEW b \in DOMAIN h.prefix, h.prefix[b].owner \in M PROVE b \in gone
  <2>1. b \in Mapping(h, b) /\ b \in DOMAIN h.mem
    BY InMemory
  <2> QED BY <1>3, <2>1 DEF Gone
<1>4. \A b \in DOMAIN h.prefix : Ext(h, b) \subseteq Mapping(h, b) /\ b \in Mapping(h, b)
  BY <1>0, InMemory DEF BlocksOK, BlockOK
<1>5. \A s \in DOMAIN h.slabs : s \notin M => SlabBytes(h, s) \cap gone = {}
  BY <1>1
<1>6. \A b \in DOMAIN h.prefix : h.prefix[b].owner \notin M =>
         Mapping(h, b) \cap gone = {} /\ Ext(h, b) \cap gone = {} /\ b \notin gone
  BY <1>2, <1>4
<1> QED BY <1>3, <1>5, <1>6

\* Without some mappings the structure stays.
LEMMA RemovedMappings ==
    ASSUME NEW h, Structure(h), NEW g, NEW M, NEW gone, DropsMappings(h, g, M, gone)
    PROVE  /\ Structure(g)
           /\ DOMAIN g.prefix = {b \in DOMAIN h.prefix : h.prefix[b].owner \notin M}
           /\ \A b \in DOMAIN g.prefix :
                  /\ g.prefix[b] = h.prefix[b]
                  /\ \A a \in Ext(h, b) : a \in DOMAIN g.mem /\ g.mem[a] = h.mem[a]
           /\ \A s \in DOMAIN g.slabs :
                  /\ g.slabs[s] = h.slabs[s]
                  /\ \A a \in Bytes(s, sizeof_slab) : g.mem[a] = h.mem[a]
<1>0. HeapType(h) /\ SlabsOK(h) /\ BlocksOK(h) /\ MappingsApart(h) /\ Covered(h)
  BY DEF Structure
<1>1. /\ IsHeap(g) /\ g.mem = Without(h.mem, gone) /\ g.prefix = Without(h.prefix, gone)
      /\ g.slabs = Without(h.slabs, M)
      /\ \A x \in DOMAIN h.mem : x \in gone <=> Gone(h, M, x)
  BY DEF DropsMappings
<1>2. /\ \A s \in DOMAIN h.slabs : s \notin M => SlabBytes(h, s) \cap gone = {}
      /\ \A b \in DOMAIN h.prefix :
             /\ h.prefix[b].owner \notin M =>
                    Mapping(h, b) \cap gone = {} /\ Ext(h, b) \cap gone = {} /\ b \notin gone
             /\ h.prefix[b].owner \in M => b \in gone
  BY <1>1, OthersStay
<1>3. /\ DOMAIN g.mem = DOMAIN h.mem \ gone
      /\ \A a \in DOMAIN g.mem : g.mem[a] = h.mem[a]
  BY <1>1 DEF Without
<1>4. /\ DOMAIN g.prefix = DOMAIN h.prefix \ gone
      /\ \A b \in DOMAIN g.prefix : g.prefix[b] = h.prefix[b]
      /\ g.prefix = [b \in DOMAIN g.prefix |-> g.prefix[b]]
  BY <1>1 DEF Without
<1>5. /\ DOMAIN g.slabs = DOMAIN h.slabs \ M
      /\ \A s \in DOMAIN g.slabs : g.slabs[s] = h.slabs[s]
      /\ g.slabs = [s \in DOMAIN g.slabs |-> g.slabs[s]]
  BY <1>1 DEF Without
<1>6. \A b : b \in DOMAIN g.prefix <=> b \in DOMAIN h.prefix /\ h.prefix[b].owner \notin M
  BY <1>2, <1>4
<1>7. /\ \A b \in DOMAIN g.prefix : Ext(g, b) = Ext(h, b) /\ Mapping(g, b) = Mapping(h, b)
      /\ \A s \in DOMAIN g.slabs : SlabBytes(g, s) = SlabBytes(h, s)
  BY <1>4, <1>5 DEF Ext, Mapping, SlabBytes
<1>8. HeapType(g)
  <2>1. DOMAIN g.mem \subseteq 0..(memory_bytes - 1)
    BY <1>0, <1>3 DEF HeapType
  <2>2. \A b \in DOMAIN g.prefix : b \in Nat /\ g.prefix[b] \in BlockFields
    BY <1>0, <1>4 DEF HeapType
  <2>3. \A s \in DOMAIN g.slabs : s \in Nat /\ g.slabs[s] \in SlabFields
    BY <1>0, <1>5 DEF HeapType
  <2>4. DOMAIN g.prefix \subseteq Nat /\ g.prefix \in [DOMAIN g.prefix -> BlockFields]
    BY <1>4, <2>2
  <2>5. DOMAIN g.slabs \subseteq Nat /\ g.slabs \in [DOMAIN g.slabs -> SlabFields]
    BY <1>5, <2>3
  <2> QED BY <1>1, <2>1, <2>4, <2>5 DEF HeapType
<1>9. SlabsOK(g)
  <2> SUFFICES ASSUME NEW s \in DOMAIN g.slabs
               PROVE  /\ Bytes(s, sizeof_slab) \subseteq SlabBytes(g, s)
                      /\ g.slabs[s].blocks = {b \in DOMAIN g.prefix : g.prefix[b].owner = s}
    BY DEF SlabsOK
  <2>1. s \in DOMAIN h.slabs /\ s \notin M
    BY <1>5
  <2>2. {b \in DOMAIN g.prefix : g.prefix[b].owner = s}
           = {b \in DOMAIN h.prefix : h.prefix[b].owner = s}
    BY <1>4, <1>6, <2>1
  <2> QED BY <1>0, <1>5, <1>7, <2>1, <2>2 DEF SlabsOK
<1>10. BlocksOK(g)
  <2> SUFFICES ASSUME NEW b \in DOMAIN g.prefix PROVE BlockOK(g, b)
    BY DEF BlocksOK
  <2>1. b \in DOMAIN h.prefix /\ h.prefix[b].owner \notin M
    BY <1>6
  <2>2. BlockOK(h, b)
    BY <1>0, <2>1 DEF BlocksOK
  <2>3. /\ g.prefix[b] = h.prefix[b] /\ Ext(g, b) = Ext(h, b) /\ Mapping(g, b) = Mapping(h, b)
        /\ h.prefix[b].owner \in DOMAIN g.slabs <=> h.prefix[b].owner \in DOMAIN h.slabs
        /\ h.prefix[b].owner \in DOMAIN g.slabs =>
               g.slabs[h.prefix[b].owner] = h.slabs[h.prefix[b].owner]
    BY <1>4, <1>5, <1>7, <2>1
  <2> QED BY <2>2, <2>3 DEF BlockOK
<1>11. MappingsApart(g)
  <2>1. /\ \A b \in DOMAIN g.prefix : b \in DOMAIN h.prefix
        /\ \A s \in DOMAIN g.slabs : s \in DOMAIN h.slabs
    BY <1>5, <1>6
  <2> QED BY <1>0, <1>4, <1>7, <2>1 DEF MappingsApart
<1>12. Covered(g)
  <2>1. \A x : x \in DOMAIN h.mem <=> \/ \E s \in DOMAIN h.slabs : x \in SlabBytes(h, s)
                                      \/ \E b \in DOMAIN h.prefix : x \in Mapping(h, b)
    BY <1>0, CoveredIs
  <2>2. ASSUME NEW x \in DOMAIN g.mem
        PROVE  \/ \E s \in DOMAIN g.slabs : x \in SlabBytes(g, s)
               \/ \E b \in DOMAIN g.prefix : x \in Mapping(g, b)
    <3>1. x \in DOMAIN h.mem /\ x \notin gone
      BY <1>3
    <3>2. ~ Gone(h, M, x)
      BY <1>1, <3>1
    <3>3. ASSUME NEW s \in DOMAIN h.slabs, x \in SlabBytes(h, s)
          PROVE  s \in DOMAIN g.slabs /\ x \in SlabBytes(g, s)
      BY <1>5, <1>7, <3>2, <3>3 DEF Gone
    <3>4. ASSUME NEW b \in DOMAIN h.prefix, x \in Mapping(h, b)
          PROVE  b \in DOMAIN g.prefix /\ x \in Mapping(g, b)
      BY <1>6, <1>7, <3>2, <3>4 DEF Gone
    <3> QED BY <2>1, <3>1, <3>3, <3>4
  <2>3. ASSUME NEW s \in DOMAIN g.slabs, NEW x \in SlabBytes(g, s) PROVE x \in DOMAIN g.mem
    <3>1. s \in DOMAIN h.slabs /\ s \notin M /\ x \in SlabBytes(h, s)
      BY <1>5, <1>7, <2>3
    <3> QED BY <1>2, <1>3, <2>1, <3>1
  <2>4. ASSUME NEW b \in DOMAIN g.prefix, NEW x \in Mapping(g, b) PROVE x \in DOMAIN g.mem
    <3>1. b \in DOMAIN h.prefix /\ h.prefix[b].owner \notin M /\ x \in Mapping(h, b)
      BY <1>6, <1>7, <2>4
    <3> QED BY <1>2, <1>3, <2>1, <3>1
  <2> QED BY <2>2, <2>3, <2>4, CoveredIs
<1>13. Structure(g)
  BY <1>8, <1>9, <1>10, <1>11, <1>12 DEF Structure
<1>14. ASSUME NEW b \in DOMAIN g.prefix, NEW a \in Ext(h, b)
       PROVE  a \in DOMAIN g.mem /\ g.mem[a] = h.mem[a]
  <2>1. a \in Ext(g, b)
    BY <1>7
  <2>2. a \in DOMAIN g.mem
    BY <1>13, <2>1, InMemory
  <2> QED BY <1>3, <2>2
<1>15. ASSUME NEW s \in DOMAIN g.slabs, NEW a \in Bytes(s, sizeof_slab) PROVE g.mem[a] = h.mem[a]
  <2>1. a \in DOMAIN g.mem
    BY <1>13, InMemory
  <2> QED BY <1>3, <2>1
<1> QED BY <1>4, <1>5, <1>6, <1>13, <1>14, <1>15

-----------------------------------------------------------------------------
(***************************************************************************)
(* Changes to a sound heap.  Each keeps the blocks of the other callers.   *)
(***************************************************************************)

\* What callers hold after one more block, and after one less.
More(H, b) == H \cup {b}

Less(H, b) == H \ {b}

\* The blocks of H keep their prefixes and their bytes.
Keeps(h, g, H) ==
    \A b \in H : /\ b \in DOMAIN g.prefix /\ g.prefix[b] = h.prefix[b]
                 /\ \A a \in Ext(h, b) : g.mem[a] = h.mem[a]

\* Two steps keep what each of them keeps.
LEMMA KeepsTwice ==
    ASSUME NEW h, NEW g, NEW k, NEW H, Keeps(h, g, H), Keeps(g, k, H)
    PROVE  Keeps(h, k, H)
<1> SUFFICES ASSUME NEW b \in H
             PROVE  /\ b \in DOMAIN k.prefix /\ k.prefix[b] = h.prefix[b]
                    /\ \A a \in Ext(h, b) : k.mem[a] = h.mem[a]
  BY DEF Keeps
<1>1. g.prefix[b] = h.prefix[b] /\ \A a \in Ext(h, b) : g.mem[a] = h.mem[a]
  BY DEF Keeps
<1>2. /\ b \in DOMAIN k.prefix /\ k.prefix[b] = g.prefix[b]
      /\ \A a \in Ext(g, b) : k.mem[a] = g.mem[a]
  BY DEF Keeps
<1>3. Ext(g, b) = Ext(h, b)
  BY <1>1 DEF Ext
<1> QED BY <1>1, <1>2, <1>3

\* What is kept for many blocks is kept for some of them.
LEMMA KeepsFewer ==
    ASSUME NEW h, NEW g, NEW H, NEW K, K \subseteq H, Keeps(h, g, H)
    PROVE  Keeps(h, g, K)
BY DEF Keeps

\* A block is on the list of its own class only.
LEMMA FreeIs ==
    ASSUME NEW h
    PROVE  \A x : x \in FreeBlocks(h) <=> \E c \in Class : x \in h.free_lists[c]
BY DEF FreeBlocks

\* What holds of the blocks that callers hold.
LEMMA HeldIs ==
    ASSUME NEW h, NEW H, Sound(h, H), NEW b \in H
    PROVE  /\ b \in DOMAIN h.prefix /\ b \in Nat /\ b \notin FreeBlocks(h) /\ b \notin h.lost
           /\ BlockOK(h, b) /\ HeapType(h) /\ IsHeap(h)
<1>1. b \in DOMAIN h.prefix /\ b \notin FreeBlocks(h) /\ b \notin h.lost
  BY DEF Sound, Accounted
<1>2. HeapType(h) /\ BlocksOK(h)
  BY DEF Sound, Structure
<1>3. b \in Nat
  BY <1>1, <1>2, FieldTypes
<1> QED BY <1>1, <1>2, <1>3 DEF BlocksOK, HeapType

\* A field that soundness does not speak of.
LEMMA SameSound ==
    ASSUME NEW h, NEW H, Sound(h, H), NEW g, IsHeap(g), g.mem = h.mem, g.prefix = h.prefix,
           g.slabs = h.slabs, g.free_lists = h.free_lists, g.lost = h.lost
    PROVE  Sound(g, H) /\ Keeps(h, g, H)
<1>0. Structure(h) /\ Accounted(h, H) /\ Intact(h)
  BY DEF Sound
<1>1. Structure(g)
  <2>1. h.prefix \in [DOMAIN h.prefix -> BlockFields]
    BY <1>0 DEF Structure, HeapType
  <2>2. \A b \in DOMAIN h.prefix : h.prefix[b].requested_size <= h.prefix[b].capacity
    BY <1>0 DEF Structure, BlocksOK, BlockOK
  <2> QED BY <1>0, <2>1, <2>2, SameStructure
<1>2. FreeBlocks(g) = FreeBlocks(h)
  BY DEF FreeBlocks
<1>3. Accounted(g, H)
  BY <1>0, <1>2 DEF Accounted
<1>4. Intact(g)
  BY <1>0 DEF Intact
<1>5. H \subseteq DOMAIN h.prefix
  BY <1>0 DEF Accounted
<1> QED BY <1>1, <1>3, <1>4, <1>5 DEF Sound, Keeps

\* errno after a failure.
SetErrno(h, error) == [h EXCEPT !.errno = error]

\* errno is no part of what the invariant is about.
LEMMA ErrnoIs ==
    ASSUME NEW h, NEW H, Sound(h, H), NEW error
    PROVE  LET g == SetErrno(h, error)
           IN  /\ Sound(g, H) /\ Keeps(h, g, H) /\ g.errno = error
               /\ g.mem = h.mem /\ g.prefix = h.prefix /\ g.slabs = h.slabs
<1> DEFINE g == [mem |-> h.mem, prefix |-> h.prefix, slabs |-> h.slabs,
                 free_lists |-> h.free_lists, lost |-> h.lost, errno |-> error]
<1>1. IsHeap(h)
  BY DEF Sound, Structure, HeapType
<1>2. SetErrno(h, error) = g
  BY <1>1 DEF IsHeap, SetErrno
<1>3. /\ IsHeap(g) /\ g.mem = h.mem /\ g.prefix = h.prefix /\ g.slabs = h.slabs
      /\ g.free_lists = h.free_lists /\ g.lost = h.lost /\ g.errno = error
  BY DEF IsHeap
<1> HIDE DEF g
<1>4. Sound(g, H) /\ Keeps(h, g, H)
  BY <1>3, SameSound
<1> QED BY <1>2, <1>3, <1>4

\* A block that a failing call loses.
LEMMA LoseIs ==
    ASSUME NEW h, NEW H, Sound(h, H), NEW b \in H
    PROVE  /\ Sound(Lose(h, b), Less(H, b)) /\ Keeps(h, Lose(h, b), Less(H, b))
           /\ Lose(h, b).errno = h.errno
<1> DEFINE g == [mem |-> h.mem, prefix |-> h.prefix, slabs |-> h.slabs,
                 free_lists |-> h.free_lists, lost |-> h.lost \cup {b}, errno |-> h.errno]
<1>0. Structure(h) /\ Accounted(h, H) /\ Intact(h) /\ IsHeap(h)
  BY DEF Sound, Structure, HeapType
<1>1. Lose(h, b) = g
  BY <1>0 DEF Lose, IsHeap
<1>2. /\ IsHeap(g) /\ g.mem = h.mem /\ g.prefix = h.prefix /\ g.slabs = h.slabs
      /\ g.free_lists = h.free_lists /\ g.lost = h.lost \cup {b} /\ g.errno = h.errno
  BY DEF IsHeap
<1> HIDE DEF g
<1>3. Structure(g)
  <2>1. h.prefix \in [DOMAIN h.prefix -> BlockFields]
    BY <1>0 DEF Structure, HeapType
  <2>2. \A d \in DOMAIN h.prefix : h.prefix[d].requested_size <= h.prefix[d].capacity
    BY <1>0 DEF Structure, BlocksOK, BlockOK
  <2> QED BY <1>0, <1>2, <2>1, <2>2, SameStructure
<1>4. FreeBlocks(g) = FreeBlocks(h)
  BY <1>2 DEF FreeBlocks
<1>5. Accounted(g, Less(H, b))
  <2>1. b \in DOMAIN h.prefix /\ b \notin FreeBlocks(h)
    BY HeldIs
  <2> QED BY <1>0, <1>2, <1>4, <2>1 DEF Accounted, Less
<1>6. Intact(g)
  BY <1>0, <1>2 DEF Intact
<1>7. H \subseteq DOMAIN h.prefix
  BY <1>0 DEF Accounted
<1> QED BY <1>1, <1>2, <1>3, <1>5, <1>6, <1>7 DEF Sound, Keeps, Less

\* The field requested_size of a block.
Resized(h, b, size) == [h.prefix EXCEPT ![b].requested_size = size]

\* A new requested size leaves the other fields and the other blocks alone.
LEMMA ResizedIs ==
    ASSUME NEW h, HeapType(h), NEW b \in DOMAIN h.prefix, NEW size \in Nat
    PROVE  /\ DOMAIN Resized(h, b, size) = DOMAIN h.prefix
           /\ Resized(h, b, size) \in [DOMAIN h.prefix -> BlockFields]
           /\ \A d \in DOMAIN h.prefix :
                  /\ d # b => Resized(h, b, size)[d] = h.prefix[d]
                  /\ Resized(h, b, size)[d].kind = h.prefix[d].kind
                  /\ Resized(h, b, size)[d].owner = h.prefix[d].owner
                  /\ Resized(h, b, size)[d].length = h.prefix[d].length
                  /\ Resized(h, b, size)[d].capacity = h.prefix[d].capacity
           /\ Resized(h, b, size)[b].requested_size = size
<1>1. h.prefix \in [DOMAIN h.prefix -> BlockFields] /\ h.prefix[b] \in BlockFields
  BY DEF HeapType
<1>2. /\ DOMAIN Resized(h, b, size) = DOMAIN h.prefix
      /\ Resized(h, b, size)[b] = [h.prefix[b] EXCEPT !.requested_size = size]
      /\ \A d \in DOMAIN h.prefix : d # b => Resized(h, b, size)[d] = h.prefix[d]
  BY <1>1 DEF Resized
<1>3. /\ [h.prefix[b] EXCEPT !.requested_size = size] \in BlockFields
      /\ [h.prefix[b] EXCEPT !.requested_size = size].requested_size = size
      /\ [h.prefix[b] EXCEPT !.requested_size = size].kind = h.prefix[b].kind
      /\ [h.prefix[b] EXCEPT !.requested_size = size].owner = h.prefix[b].owner
      /\ [h.prefix[b] EXCEPT !.requested_size = size].length = h.prefix[b].length
      /\ [h.prefix[b] EXCEPT !.requested_size = size].capacity = h.prefix[b].capacity
  BY <1>1 DEF BlockFields
<1>4. Resized(h, b, size) \in [DOMAIN h.prefix -> BlockFields]
  BY <1>1, <1>3 DEF Resized
<1> QED BY <1>2, <1>3, <1>4

\* g is h but for the size of the request for b, and for free lists and lost blocks.
Resizes(h, g, b, size) ==
    /\ IsHeap(g) /\ g.mem = h.mem /\ g.slabs = h.slabs /\ g.prefix = Resized(h, b, size)
    /\ size \in Nat /\ size <= h.prefix[b].capacity

\* A resized block keeps the structure and the headers.
LEMMA ResizedSound ==
    ASSUME NEW h, NEW H, Sound(h, H), NEW b, b \in DOMAIN h.prefix, NEW size, NEW g,
           Resizes(h, g, b, size)
    PROVE  /\ Structure(g) /\ Intact(g) /\ Keeps(h, g, Less(H, b))
           /\ DOMAIN g.prefix = DOMAIN h.prefix
           /\ \A d \in DOMAIN h.prefix : g.prefix[d].owner = h.prefix[d].owner
           /\ g.prefix[b].requested_size = size /\ Ext(g, b) = Ext(h, b)
<1>0. HeapType(h) /\ BlocksOK(h) /\ Structure(h) /\ Intact(h) /\ H \subseteq DOMAIN h.prefix
  BY DEF Sound, Structure, Accounted
<1>1. /\ DOMAIN g.prefix = DOMAIN h.prefix
      /\ g.prefix \in [DOMAIN h.prefix -> BlockFields]
      /\ \A d \in DOMAIN h.prefix :
             /\ d # b => g.prefix[d] = h.prefix[d]
             /\ g.prefix[d].kind = h.prefix[d].kind
             /\ g.prefix[d].owner = h.prefix[d].owner
             /\ g.prefix[d].length = h.prefix[d].length
             /\ g.prefix[d].capacity = h.prefix[d].capacity
      /\ g.prefix[b].requested_size = size
  BY <1>0, ResizedIs DEF Resizes
<1>2. \A d \in DOMAIN h.prefix : g.prefix[d].requested_size <= g.prefix[d].capacity
  <2>1. \A d \in DOMAIN h.prefix : h.prefix[d].requested_size <= h.prefix[d].capacity
    BY <1>0 DEF BlocksOK, BlockOK
  <2> QED BY <1>1, <2>1 DEF Resizes
<1>3. Structure(g) /\ \A d \in DOMAIN h.prefix : Ext(g, d) = Ext(h, d)
  BY <1>0, <1>1, <1>2, SameStructure DEF Resizes
<1>4. Intact(g)
  BY <1>0, <1>1 DEF Intact, Resizes
<1> QED BY <1>0, <1>1, <1>3, <1>4 DEF Keeps, Resizes, Less

\* realloc that retains the block.
Retain(h, b, size) == [h EXCEPT !.prefix[b].requested_size = size]

\* A realloc in place.
LEMMA RetainIs ==
    ASSUME NEW h, NEW H, Sound(h, H), NEW b \in H, NEW size \in Nat,
           size <= h.prefix[b].capacity
    PROVE  LET g == Retain(h, b, size)
           IN  /\ Sound(g, H) /\ Keeps(h, g, Less(H, b)) /\ g.mem = h.mem
               /\ g.prefix[b].requested_size = size /\ g.errno = h.errno
<1> DEFINE g == [mem |-> h.mem, prefix |-> Resized(h, b, size), slabs |-> h.slabs,
                 free_lists |-> h.free_lists, lost |-> h.lost, errno |-> h.errno]
<1>0. b \in DOMAIN h.prefix /\ IsHeap(h) /\ Accounted(h, H)
  BY HeldIs DEF Sound
<1>1. Retain(h, b, size) = g
  BY <1>0 DEF IsHeap, Resized, Retain
<1>2. /\ IsHeap(g) /\ g.mem = h.mem /\ g.prefix = Resized(h, b, size) /\ g.slabs = h.slabs
      /\ g.free_lists = h.free_lists /\ g.lost = h.lost /\ g.errno = h.errno
  BY DEF IsHeap
<1> HIDE DEF g
<1>3. /\ Structure(g) /\ Intact(g) /\ Keeps(h, g, Less(H, b))
      /\ DOMAIN g.prefix = DOMAIN h.prefix
      /\ \A d \in DOMAIN h.prefix : g.prefix[d].owner = h.prefix[d].owner
      /\ g.prefix[b].requested_size = size
  <2>1. Resizes(h, g, b, size)
    BY <1>2 DEF Resizes
  <2> QED BY <1>0, <2>1, ResizedSound
<1>4. FreeBlocks(g) = FreeBlocks(h)
  BY <1>2 DEF FreeBlocks
<1>5. Accounted(g, H)
  <2>1. \A c \in Class : \A d \in h.free_lists[c] : d \in DOMAIN h.prefix
    BY <1>0, FreeIs DEF Accounted
  <2> QED BY <1>0, <1>2, <1>3, <1>4, <2>1 DEF Accounted
<1> QED BY <1>1, <1>2, <1>3, <1>5 DEF Sound

\* A changed prefix and changed free lists.
TwoFields(h, P, F) ==
    [h EXCEPT !.prefix = P, !.free_lists = F]
        = [mem |-> h.mem, prefix |-> P, slabs |-> h.slabs, free_lists |-> F, lost |-> h.lost,
           errno |-> h.errno]

\* An update of the two fields leaves the others alone.
LEMMA TwoFieldsAre ==
    ASSUME NEW h, IsHeap(h), NEW P, NEW F
    PROVE  TwoFields(h, P, F)
<1> DEFINE k == [h EXCEPT !.prefix = P]
<1>1. [h EXCEPT !.prefix = P, !.free_lists = F] = [k EXCEPT !.free_lists = F]
  OBVIOUS
<1>2. k = [mem |-> h.mem, prefix |-> P, slabs |-> h.slabs, free_lists |-> h.free_lists,
           lost |-> h.lost, errno |-> h.errno]
  BY DEF IsHeap
<1> HIDE DEF k
<1>3. [k EXCEPT !.free_lists = F]
         = [mem |-> h.mem, prefix |-> P, slabs |-> h.slabs, free_lists |-> F, lost |-> h.lost,
            errno |-> h.errno]
  BY <1>2
<1> QED BY <1>1, <1>3 DEF TwoFields

\* free, of a small block.
Release(h, b) ==
    [h EXCEPT !.prefix[b].requested_size = 0,
              !.free_lists[h.slabs[h.prefix[b].owner].class] = @ \cup {b}]

\* A small block that is freed goes from its caller to the list of its class.
LEMMA ReleaseIs ==
    ASSUME NEW h, NEW H, Sound(h, H), NEW b \in H, h.prefix[b].kind # "large"
    PROVE  /\ Sound(Release(h, b), Less(H, b)) /\ Keeps(h, Release(h, b), Less(H, b))
           /\ Release(h, b).errno = h.errno
<1> DEFINE class == h.slabs[h.prefix[b].owner].class
           g == [mem |-> h.mem, prefix |-> Resized(h, b, 0), slabs |-> h.slabs,
                 free_lists |-> [h.free_lists EXCEPT ![class] = h.free_lists[class] \cup {b}],
                 lost |-> h.lost, errno |-> h.errno]
<1>0. /\ b \in DOMAIN h.prefix /\ IsHeap(h) /\ Accounted(h, H) /\ b \in Nat
      /\ b \notin FreeBlocks(h) /\ b \notin h.lost /\ HeapType(h) /\ BlockOK(h, b)
  BY HeldIs DEF Sound
<1>1. Release(h, b) = g
  <2> DEFINE P == Resized(h, b, 0)
             F == [h.free_lists EXCEPT ![class] = h.free_lists[class] \cup {b}]
  <2>1. Release(h, b) = [h EXCEPT !.prefix = P, !.free_lists = F]
    BY DEF Release, Resized
  <2>2. TwoFields(h, P, F)
    BY <1>0, TwoFieldsAre
  <2> QED BY <2>1, <2>2 DEF TwoFields
<1>2. /\ IsHeap(g) /\ g.mem = h.mem /\ g.prefix = Resized(h, b, 0) /\ g.slabs = h.slabs
      /\ g.free_lists = [h.free_lists EXCEPT ![class] = h.free_lists[class] \cup {b}]
      /\ g.lost = h.lost /\ g.errno = h.errno
  BY DEF IsHeap
<1> HIDE DEF g
<1>3. h.prefix[b].owner \in DOMAIN h.slabs /\ class \in Class
  BY <1>0, FieldTypes DEF BlockOK
<1> HIDE DEF class
<1>4. /\ Structure(g) /\ Intact(g) /\ Keeps(h, g, Less(H, b))
      /\ DOMAIN g.prefix = DOMAIN h.prefix
      /\ \A d \in DOMAIN h.prefix : g.prefix[d].owner = h.prefix[d].owner
  <2>1. 0 <= h.prefix[b].capacity
    BY <1>0, FieldTypes
  <2>2. Resizes(h, g, b, 0)
    BY <1>2, <2>1 DEF Resizes
  <2> QED BY <1>0, <2>2, ResizedSound
<1>5. h.free_lists \in [Class -> SUBSET Nat]
  BY <1>0 DEF Accounted
<1>6. /\ g.free_lists \in [Class -> SUBSET Nat]
      /\ \A c \in Class : \A x : x \in g.free_lists[c] <=>
             x \in h.free_lists[c] \/ (c = class /\ x = b)
  BY <1>0, <1>2, <1>3, <1>5
<1>7. \A x : x \in FreeBlocks(g) <=> x \in FreeBlocks(h) \/ x = b
  BY <1>3, <1>6, FreeIs
<1>8. Accounted(g, Less(H, b))
  <2>1. /\ DOMAIN h.prefix = H \cup FreeBlocks(h) \cup h.lost
        /\ H \cap FreeBlocks(h) = {} /\ H \cap h.lost = {} /\ FreeBlocks(h) \cap h.lost = {}
        /\ \A c \in Class : \A d \in h.free_lists[c] :
               h.prefix[d].owner \in DOMAIN h.slabs /\ h.slabs[h.prefix[d].owner].class = c
    BY <1>0 DEF Accounted
  <2>2. DOMAIN g.prefix = Less(H, b) \cup FreeBlocks(g) \cup g.lost
    BY <1>0, <1>2, <1>4, <1>7, <2>1 DEF Less
  <2>3. /\ Less(H, b) \cap FreeBlocks(g) = {} /\ Less(H, b) \cap g.lost = {}
        /\ FreeBlocks(g) \cap g.lost = {}
    BY <1>0, <1>2, <1>7, <2>1 DEF Less
  <2>4. ASSUME NEW c \in Class, NEW d \in g.free_lists[c]
        PROVE  g.prefix[d].owner \in DOMAIN g.slabs /\ g.slabs[g.prefix[d].owner].class = c
    <3>1. CASE d \in h.free_lists[c]
      <4>1. d \in DOMAIN h.prefix
        BY <2>1, <3>1, FreeIs
      <4> QED BY <1>2, <1>4, <2>1, <3>1, <4>1
    <3>2. CASE c = class /\ d = b
      BY <1>0, <1>2, <1>3, <1>4, <3>2 DEF class
    <3> QED BY <1>6, <2>4, <3>1, <3>2
  <2> QED BY <1>6, <2>2, <2>3, <2>4 DEF Accounted
<1> QED BY <1>1, <1>2, <1>4, <1>8 DEF Sound

\* allocate_small, of a block on the list of its class.
LEMMA TakeBlockIs ==
    ASSUME NEW h, NEW H, Sound(h, H), NEW class \in Class, NEW b \in h.free_lists[class],
           NEW size \in Nat, size <= capacities[class]
    PROVE  LET g == TakeBlock(h, class, b, size)
           IN  /\ b \notin H /\ b \in Nat /\ Sound(g, More(H, b)) /\ Keeps(h, g, H)
               /\ g.prefix[b].requested_size = size /\ g.errno = h.errno
<1> DEFINE g == [mem |-> h.mem, prefix |-> Resized(h, b, size), slabs |-> h.slabs,
                 free_lists |-> [h.free_lists EXCEPT ![class] = h.free_lists[class] \ {b}],
                 lost |-> h.lost, errno |-> h.errno]
<1>0. /\ Accounted(h, H) /\ HeapType(h) /\ IsHeap(h) /\ BlocksOK(h)
      /\ h.free_lists \in [Class -> SUBSET Nat]
  BY DEF Sound, Structure, HeapType, Accounted
<1>1. /\ DOMAIN h.prefix = H \cup FreeBlocks(h) \cup h.lost
      /\ H \cap FreeBlocks(h) = {} /\ H \cap h.lost = {} /\ FreeBlocks(h) \cap h.lost = {}
      /\ \A c \in Class : \A d \in h.free_lists[c] :
             h.prefix[d].owner \in DOMAIN h.slabs /\ h.slabs[h.prefix[d].owner].class = c
  BY <1>0 DEF Accounted
<1>2. b \in FreeBlocks(h) /\ b \in DOMAIN h.prefix /\ b \notin H /\ b \notin h.lost /\ b \in Nat
  <2>1. b \in FreeBlocks(h)
    BY FreeIs
  <2> QED BY <1>0, <1>1, <2>1, FieldTypes
<1>3. TakeBlock(h, class, b, size) = g
  <2> DEFINE P == Resized(h, b, size)
             F == [h.free_lists EXCEPT ![class] = h.free_lists[class] \ {b}]
  <2>1. TakeBlock(h, class, b, size) = [h EXCEPT !.prefix = P, !.free_lists = F]
    BY DEF TakeBlock, Resized
  <2>2. TwoFields(h, P, F)
    BY <1>0, TwoFieldsAre
  <2> QED BY <2>1, <2>2 DEF TwoFields
<1>4. /\ IsHeap(g) /\ g.mem = h.mem /\ g.prefix = Resized(h, b, size) /\ g.slabs = h.slabs
      /\ g.free_lists = [h.free_lists EXCEPT ![class] = h.free_lists[class] \ {b}]
      /\ g.lost = h.lost /\ g.errno = h.errno
  BY DEF IsHeap
<1> HIDE DEF g
<1>5. size <= h.prefix[b].capacity
  <2>1. BlockOK(h, b)
    BY <1>0, <1>2 DEF BlocksOK
  <2>2. h.prefix[b].owner \in DOMAIN h.slabs /\ h.slabs[h.prefix[b].owner].class = class
    BY <1>1
  <2>3. h.prefix[b].capacity = capacities[class]
    BY <2>1, <2>2 DEF BlockOK
  <2> QED BY <2>3
<1>6. /\ Structure(g) /\ Intact(g) /\ Keeps(h, g, Less(H, b))
      /\ DOMAIN g.prefix = DOMAIN h.prefix
      /\ \A d \in DOMAIN h.prefix : g.prefix[d].owner = h.prefix[d].owner
      /\ g.prefix[b].requested_size = size
  <2>1. Resizes(h, g, b, size)
    BY <1>4, <1>5 DEF Resizes
  <2> QED BY <1>2, <2>1, ResizedSound
<1>7. /\ g.free_lists \in [Class -> SUBSET Nat]
      /\ \A c \in Class : \A x : x \in g.free_lists[c] <=>
             x \in h.free_lists[c] /\ ~ (c = class /\ x = b)
  BY <1>0, <1>4
<1>8. \A x : x \in FreeBlocks(g) <=> x \in FreeBlocks(h) /\ x # b
  <2>1. \A c \in Class : b \in h.free_lists[c] => c = class
    BY <1>1
  <2> QED BY <1>7, <2>1, FreeIs
<1>9. Accounted(g, More(H, b))
  <2>2. DOMAIN g.prefix = More(H, b) \cup FreeBlocks(g) \cup g.lost
    BY <1>1, <1>2, <1>4, <1>6, <1>8 DEF More
  <2>3. /\ More(H, b) \cap FreeBlocks(g) = {} /\ More(H, b) \cap g.lost = {}
        /\ FreeBlocks(g) \cap g.lost = {}
    BY <1>1, <1>2, <1>4, <1>8 DEF More
  <2>4. ASSUME NEW c \in Class, NEW d \in g.free_lists[c]
        PROVE  g.prefix[d].owner \in DOMAIN g.slabs /\ g.slabs[g.prefix[d].owner].class = c
    <3>1. d \in h.free_lists[c]
      BY <1>7
    <3>2. d \in DOMAIN h.prefix
      BY <1>1, <3>1, FreeIs
    <3> QED BY <1>1, <1>4, <1>6, <3>1, <3>2
  <2> QED BY <1>7, <2>2, <2>3, <2>4 DEF Accounted
<1>10. Keeps(h, g, H)
  <2>1. Less(H, b) = H
    BY <1>2 DEF Less
  <2> QED BY <1>6, <2>1
<1> QED BY <1>2, <1>3, <1>4, <1>6, <1>9, <1>10 DEF Sound

\* Without some mappings, headers and prefixes are still intact and other blocks kept.
LEMMA RemovedKeeps ==
    ASSUME NEW h, Structure(h), Intact(h), NEW g, NEW M, NEW gone,
           DropsMappings(h, g, M, gone)
    PROVE  Intact(g) /\ \A K : K \subseteq DOMAIN g.prefix => Keeps(h, g, K)
<1>1. /\ DOMAIN g.prefix = {b \in DOMAIN h.prefix : h.prefix[b].owner \notin M}
      /\ \A b \in DOMAIN g.prefix :
             /\ g.prefix[b] = h.prefix[b]
             /\ \A a \in Ext(h, b) : g.mem[a] = h.mem[a]
      /\ \A s \in DOMAIN g.slabs : \A a \in Bytes(s, sizeof_slab) : g.mem[a] = h.mem[a]
  BY RemovedMappings
<1>2. \A s \in DOMAIN g.slabs : s \in DOMAIN h.slabs
  BY DEF DropsMappings, Without
<1>3. \A b \in DOMAIN h.prefix : Bytes(b, sizeof_block) \subseteq Ext(h, b)
  BY InExtent DEF Structure, BlocksOK
<1>4. Intact(g)
  <2>1. \A s \in DOMAIN g.slabs : \A a \in Bytes(s, sizeof_slab) : g.mem[a] = META
    BY <1>1, <1>2 DEF Intact
  <2>2. \A b \in DOMAIN g.prefix : \A a \in Bytes(b, sizeof_block) : g.mem[a] = META
    BY <1>1, <1>3 DEF Intact
  <2> QED BY <2>1, <2>2 DEF Intact
<1> QED BY <1>1, <1>4 DEF Keeps

\* free, of a large block.
LEMMA UnmapIs ==
    ASSUME NEW h, NEW H, Sound(h, H), NEW b \in H, h.prefix[b].kind = "large"
    PROVE  LET g == os_unmap(h, h.prefix[b].owner, h.prefix[b].length)
           IN  Sound(g, Less(H, b)) /\ Keeps(h, g, Less(H, b)) /\ g.errno = h.errno
<1> DEFINE gone == Mapping(h, b)
           g == [mem |-> Without(h.mem, gone), prefix |-> Without(h.prefix, gone),
                 slabs |-> h.slabs, free_lists |-> h.free_lists, lost |-> h.lost,
                 errno |-> h.errno]
<1>0. /\ b \in DOMAIN h.prefix /\ IsHeap(h) /\ Accounted(h, H) /\ BlockOK(h, b)
      /\ b \notin FreeBlocks(h) /\ b \notin h.lost /\ HeapType(h)
      /\ Structure(h) /\ Intact(h) /\ BlocksOK(h)
  BY HeldIs DEF Sound, Structure
<1>1. os_unmap(h, h.prefix[b].owner, h.prefix[b].length) = g
  <2>1. os_unmap(h, h.prefix[b].owner, h.prefix[b].length)
           = [[h EXCEPT !.mem = Without(h.mem, gone)] EXCEPT !.prefix = Without(h.prefix, gone)]
    BY DEF os_unmap, Mapping
  <2>2. [h EXCEPT !.mem = Without(h.mem, gone)]
           = [mem |-> Without(h.mem, gone), prefix |-> h.prefix, slabs |-> h.slabs,
              free_lists |-> h.free_lists, lost |-> h.lost, errno |-> h.errno]
    BY <1>0 DEF IsHeap
  <2> QED BY <2>1, <2>2
<1>2. /\ IsHeap(g) /\ g.mem = Without(h.mem, gone) /\ g.prefix = Without(h.prefix, gone)
      /\ g.slabs = h.slabs /\ g.free_lists = h.free_lists /\ g.lost = h.lost
      /\ g.errno = h.errno
  BY DEF IsHeap
<1> HIDE DEF g
<1>3. h.prefix[b].owner = b /\ b \notin DOMAIN h.slabs
  BY <1>0 DEF BlockOK
<1>4. \A d \in DOMAIN h.prefix : h.prefix[d].owner = b => d = b
  BY <1>0, <1>3 DEF BlocksOK, BlockOK
<1>5. DropsMappings(h, g, {b}, gone)
  <2>1. h.slabs = Without(h.slabs, {b})
    <3>1. h.slabs = [s \in DOMAIN h.slabs |-> h.slabs[s]]
      BY <1>0 DEF HeapType
    <3> QED BY <1>3, <3>1 DEF Without
  <2>2. ASSUME NEW x \in DOMAIN h.mem PROVE x \in gone <=> Gone(h, {b}, x)
    BY <1>0, <1>3, <1>4 DEF Gone
  <2> QED BY <1>2, <2>1, <2>2 DEF DropsMappings
<1> HIDE DEF gone
<1>6. Structure(g) /\ \A d : d \in DOMAIN g.prefix <=> d \in DOMAIN h.prefix /\ d # b
  <2> DEFINE M == {b}
  <2>1. \A x : x \in M <=> x = b
    OBVIOUS
  <2>2. DropsMappings(h, g, M, gone)
    BY <1>5
  <2> HIDE DEF M
  <2>3. /\ Structure(g)
        /\ DOMAIN g.prefix = {d \in DOMAIN h.prefix : h.prefix[d].owner \notin M}
    BY <1>0, <2>2, RemovedMappings
  <2> QED BY <1>3, <1>4, <2>1, <2>3
<1>7. Intact(g) /\ Keeps(h, g, Less(H, b))
  <2> DEFINE M == {b}
  <2>1. DropsMappings(h, g, M, gone)
    BY <1>5
  <2> HIDE DEF M
  <2>2. Intact(g) /\ \A K : K \subseteq DOMAIN g.prefix => Keeps(h, g, K)
    BY <1>0, <2>1, RemovedKeeps
  <2>3. Less(H, b) \subseteq DOMAIN g.prefix
    BY <1>0, <1>6 DEF Less, Accounted
  <2> QED BY <2>2, <2>3
<1>8. Accounted(g, Less(H, b))
  <2>1. /\ DOMAIN h.prefix = H \cup FreeBlocks(h) \cup h.lost
        /\ H \cap FreeBlocks(h) = {} /\ H \cap h.lost = {} /\ FreeBlocks(h) \cap h.lost = {}
        /\ \A c \in Class : \A d \in h.free_lists[c] :
               h.prefix[d].owner \in DOMAIN h.slabs /\ h.slabs[h.prefix[d].owner].class = c
        /\ h.free_lists \in [Class -> SUBSET Nat]
    BY <1>0 DEF Accounted
  <2>2. FreeBlocks(g) = FreeBlocks(h)
    BY <1>2 DEF FreeBlocks
  <2>3. DOMAIN g.prefix = Less(H, b) \cup FreeBlocks(g) \cup g.lost
    BY <1>0, <1>2, <1>6, <2>1, <2>2 DEF Less
  <2>4. /\ Less(H, b) \cap FreeBlocks(g) = {} /\ Less(H, b) \cap g.lost = {}
        /\ FreeBlocks(g) \cap g.lost = {}
    BY <1>2, <2>1, <2>2 DEF Less
  <2>5. ASSUME NEW c \in Class, NEW d \in g.free_lists[c]
        PROVE  g.prefix[d].owner \in DOMAIN g.slabs /\ g.slabs[g.prefix[d].owner].class = c
    <3>1. d \in h.free_lists[c] /\ d \in FreeBlocks(h)
      BY <1>2, FreeIs
    <3>2. d \in DOMAIN g.prefix
      BY <2>2, <2>3, <3>1
    <3>3. g.prefix[d] = h.prefix[d]
      BY <1>2, <3>2 DEF Without
    <3> QED BY <1>2, <2>1, <3>1, <3>3
  <2> QED BY <1>2, <2>1, <2>3, <2>4, <2>5 DEF Accounted
<1> QED BY <1>1, <1>2, <1>6, <1>7, <1>8 DEF Sound

\* g is h but for bytes of the payload of b.
WritesPayload(h, g, b) ==
    /\ SameButMem(h, g) /\ DOMAIN g.mem = DOMAIN h.mem
    /\ \A a \in DOMAIN h.mem : a \notin Bytes(b + offset, h.prefix[b].capacity) =>
           g.mem[a] = h.mem[a]

\* Writes to a payload leave the others alone.
LEMMA PayloadWrite ==
    ASSUME NEW h, NEW H, Sound(h, H), NEW b \in H, NEW g, WritesPayload(h, g, b)
    PROVE  Sound(g, H) /\ Keeps(h, g, Less(H, b)) /\ g.prefix = h.prefix /\ g.errno = h.errno
<1> DEFINE payload == Bytes(b + offset, h.prefix[b].capacity)
<1>0. /\ b \in DOMAIN h.prefix /\ Accounted(h, H) /\ BlockOK(h, b) /\ HeapType(h)
      /\ Structure(h) /\ Intact(h) /\ BlocksOK(h) /\ MappingsApart(h)
  BY HeldIs DEF Sound, Structure
<1>1. /\ IsHeap(g) /\ g.prefix = h.prefix /\ g.slabs = h.slabs /\ g.free_lists = h.free_lists
      /\ g.lost = h.lost /\ g.errno = h.errno /\ DOMAIN g.mem = DOMAIN h.mem
      /\ \A a \in DOMAIN h.mem : a \notin payload => g.mem[a] = h.mem[a]
  BY DEF WritesPayload, SameButMem
<1>2. payload \subseteq Ext(h, b) /\ payload \cap Bytes(b, sizeof_block) = {}
  BY <1>0, InExtent
<1> HIDE DEF payload
<1>3. Structure(g)
  <2>1. h.prefix \in [DOMAIN h.prefix -> BlockFields]
    BY <1>0 DEF HeapType
  <2>2. \A d \in DOMAIN h.prefix : h.prefix[d].requested_size <= h.prefix[d].capacity
    BY <1>0 DEF BlocksOK, BlockOK
  <2> QED BY <1>0, <1>1, <2>1, <2>2, SameStructure
<1>4. ASSUME NEW d \in DOMAIN h.prefix, d # b, NEW a \in Ext(h, d) PROVE g.mem[a] = h.mem[a]
  <2>1. Ext(h, d) \cap Ext(h, b) = {} /\ a \in DOMAIN h.mem
    BY <1>0, <1>4, InMemory DEF MappingsApart
  <2> QED BY <1>1, <1>2, <2>1
<1>5. Intact(g)
  <2>1. ASSUME NEW s \in DOMAIN h.slabs, NEW a \in Bytes(s, sizeof_slab) PROVE g.mem[a] = META
    <3>1. Ext(h, b) \cap Bytes(s, sizeof_slab) = {} /\ a \in DOMAIN h.mem
      BY <1>0, InMemory
    <3> QED BY <1>0, <1>1, <1>2, <3>1 DEF Intact
  <2>2. ASSUME NEW d \in DOMAIN h.prefix, NEW a \in Bytes(d, sizeof_block) PROVE g.mem[a] = META
    <3>1. a \in Ext(h, d) /\ h.mem[a] = META
      BY <1>0, InExtent DEF BlocksOK, Intact
    <3>2. a \in DOMAIN h.mem
      BY <1>0, <3>1, InMemory
    <3>3. CASE d = b
      BY <1>1, <1>2, <3>1, <3>2, <3>3
    <3> QED BY <1>4, <3>1, <3>3
  <2> QED BY <1>1, <2>1, <2>2 DEF Intact
<1>6. FreeBlocks(g) = FreeBlocks(h)
  BY <1>1 DEF FreeBlocks
<1>7. Accounted(g, H)
  BY <1>0, <1>1, <1>6 DEF Accounted
<1>8. Keeps(h, g, Less(H, b))
  <2>1. H \subseteq DOMAIN h.prefix
    BY <1>0 DEF Accounted
  <2> QED BY <1>1, <1>4, <2>1 DEF Keeps, Less
<1> QED BY <1>1, <1>3, <1>5, <1>7, <1>8 DEF Sound

-----------------------------------------------------------------------------
(***************************************************************************)
(* New slabs and large blocks.                                             *)
(***************************************************************************)

\* New prefixes, and the header of a new slab, are written; old bytes stay.
WritesFresh(h, g, base, blocks) ==
    /\ \A a \in DOMAIN h.mem : g.mem[a] = h.mem[a]
    /\ \A b \in blocks : \A a \in Bytes(b, sizeof_block) : g.mem[a] = META
    /\ base \in DOMAIN g.slabs => \A a \in Bytes(base, sizeof_slab) : g.mem[a] = META

\* A new mapping touches no block, prefix or header that was there.
LEMMA NewMappingKeeps ==
    ASSUME NEW h, Structure(h), Intact(h), NEW g, NEW base, NEW blocks, NEW fields,
           AddsMapping(h, g, base, blocks, fields),
           AddsSlab(h, g, base, blocks, fields) \/ AddsLarge(h, g, base, blocks, fields),
           WritesFresh(h, g, base, blocks)
    PROVE  Intact(g) /\ \A K : K \subseteq DOMAIN h.prefix => Keeps(h, g, K)
<1>1. /\ DOMAIN g.prefix = blocks \cup DOMAIN h.prefix
      /\ \A b \in DOMAIN h.prefix : g.prefix[b] = h.prefix[b]
  BY NewMapping
<1>2. \A s \in DOMAIN g.slabs : s = base \/ s \in DOMAIN h.slabs
  <2>1. CASE AddsSlab(h, g, base, blocks, fields)
    BY <2>1 DEF AddsSlab, Overlay
  <2>2. CASE AddsLarge(h, g, base, blocks, fields)
    BY <2>2 DEF AddsLarge
  <2> QED BY <2>1, <2>2
<1>3. /\ \A b \in DOMAIN h.prefix : Ext(h, b) \subseteq DOMAIN h.mem
      /\ \A s \in DOMAIN h.slabs : Bytes(s, sizeof_slab) \subseteq DOMAIN h.mem
  BY InMemory
<1>4. \A b \in DOMAIN h.prefix : Bytes(b, sizeof_block) \subseteq Ext(h, b)
  BY InExtent DEF Structure, BlocksOK
<1>5. \A a \in DOMAIN h.mem : g.mem[a] = h.mem[a]
  BY DEF WritesFresh
<1>6. \A s \in DOMAIN g.slabs : \A a \in Bytes(s, sizeof_slab) : g.mem[a] = META
  BY <1>2, <1>3, <1>5 DEF WritesFresh, Intact
<1>7. \A b \in DOMAIN g.prefix : \A a \in Bytes(b, sizeof_block) : g.mem[a] = META
  BY <1>1, <1>3, <1>4, <1>5 DEF WritesFresh, Intact
<1> QED BY <1>1, <1>3, <1>5, <1>6, <1>7 DEF Intact, Keeps

\* What os_map yields is new.
LEMMA BasesAre ==
    ASSUME NEW h, NEW length \in Nat, NEW base \in Bases(h, length)
    PROVE  /\ base \in Nat /\ base % page_size = 0
           /\ Bytes(base, length) \subseteq 0..(memory_bytes - 1)
           /\ Bytes(base, length) \cap DOMAIN h.mem = {}
<1>1. /\ base \in 0..(memory_bytes - 1) /\ base % page_size = 0
      /\ base + length <= memory_bytes /\ Bytes(base, length) \cap DOMAIN h.mem = {}
  BY DEF Bases
<1>2. base \in Nat /\ memory_bytes \in Nat
  BY <1>1, HeapFacts
<1>3. Bytes(base, length) \subseteq 0..(memory_bytes - 1)
  BY <1>1, <1>2, BytesAre
<1> QED BY <1>1, <1>2, <1>3

\* A mapping changes the memory only.
LEMMA OsMapIs ==
    ASSUME NEW h, IsHeap(h), NEW base, NEW length
    PROVE  LET g == os_map(h, base, length)
           IN  SameButMem(h, g) /\ g.mem = Overlay(h.mem, Bytes(base, length), 0)
BY WriteIs DEF os_map

\* The prefixes of blocks in a mapping lie in the mapping.
LEMMA PrefixesIn ==
    ASSUME NEW blocks, blocks \subseteq Nat, NEW n \in Nat, sizeof_block <= n, NEW T,
           \A b \in blocks : Bytes(b, n) \subseteq T
    PROVE  /\ Prefixes(blocks) \subseteq T
           /\ \A b \in blocks : Bytes(b, sizeof_block) \subseteq Prefixes(blocks)
<1>1. ASSUME NEW b \in blocks PROVE Bytes(b, sizeof_block) \subseteq T
  <2>1. b \in Nat /\ sizeof_block \in Nat
    BY HeapFacts
  <2>2. Bytes(b, sizeof_block) \subseteq Bytes(b, n)
    BY <2>1, BytesAre
  <2> QED BY <2>2
<1>2. \A a : a \in Prefixes(blocks) <=> \E b \in blocks : a \in Bytes(b, sizeof_block)
  BY DEF Prefixes
<1> QED BY <1>1, <1>2

\* allocate_large.
LargeFields(base, length, size) ==
    [kind |-> "large", owner |-> base, length |-> length, requested_size |-> size,
     capacity |-> length - offset]

\* The heap with a large block at base.
LargeHeap(h, base, length, size) ==
    InitBlocks(os_map(h, base, length), {base}, LargeFields(base, length, size))

\* A large block is a new one, with its caller, and leaves the others alone.
LEMMA LargeHeapIs ==
    ASSUME NEW h, NEW H, Sound(h, H), NEW length \in Nat, NEW base \in Bases(h, length),
           NEW size \in Nat, offset \in Nat, sizeof_block <= offset, offset + size <= length,
           (base + offset) % HPLF_PAYLOAD_ALIGNMENT = 0
    PROVE  LET g == LargeHeap(h, base, length, size)
           IN  /\ base \notin H /\ base \in Nat /\ Sound(g, More(H, base)) /\ Keeps(h, g, H)
               /\ g.prefix[base].requested_size = size /\ g.errno = h.errno
<1> DEFINE fields == LargeFields(base, length, size)
           blocks == {base}
           bytes == Bytes(base, length)
           k == os_map(h, base, length)
           g == LargeHeap(h, base, length, size)
<1>0. Structure(h) /\ Accounted(h, H) /\ Intact(h) /\ IsHeap(h)
  BY DEF Sound, Structure, HeapType
<1>1. /\ base \in Nat /\ bytes \subseteq 0..(memory_bytes - 1) /\ bytes \cap DOMAIN h.mem = {}
  BY BasesAre
<1>2. /\ IsHeap(k) /\ k.prefix = h.prefix /\ k.slabs = h.slabs /\ k.free_lists = h.free_lists
      /\ k.lost = h.lost /\ k.errno = h.errno /\ k.mem = Overlay(h.mem, bytes, 0)
  BY <1>0, OsMapIs DEF SameButMem
<1>3. g = InitBlocks(k, blocks, fields)
  BY DEF LargeHeap
<1> HIDE DEF k, g, blocks, fields, bytes
<1>4. /\ IsHeap(g) /\ g.mem = Overlay(k.mem, Prefixes(blocks), META)
      /\ g.prefix = Overlay(h.prefix, blocks, fields)
      /\ g.slabs = h.slabs /\ g.free_lists = h.free_lists /\ g.lost = h.lost
      /\ g.errno = h.errno
  BY <1>2, <1>3, InitBlocksIs
<1>5. \A b : b \in blocks <=> b = base
  BY DEF blocks
<1>6. /\ fields \in BlockFields /\ fields.owner = base /\ fields.length = length
      /\ fields.requested_size = size /\ fields.kind = "large"
      /\ fields.capacity = length - offset
  BY <1>1 DEF fields, LargeFields, BlockFields
<1>7. /\ offset + fields.capacity = length /\ fields.requested_size <= fields.capacity
      /\ sizeof_block <= length
  BY <1>6, HeapFacts
<1>8. /\ Prefixes(blocks) \subseteq bytes
      /\ \A b \in blocks : Bytes(b, sizeof_block) \subseteq Prefixes(blocks)
  <2>1. blocks \subseteq Nat /\ \A b \in blocks : Bytes(b, length) \subseteq bytes
    BY <1>1, <1>5 DEF bytes
  <2> QED BY <1>7, <2>1, PrefixesIn
<1>9. /\ DOMAIN k.mem = bytes \cup DOMAIN h.mem
      /\ \A a \in DOMAIN h.mem : k.mem[a] = h.mem[a]
  BY <1>1, <1>2 DEF Overlay
<1>10. /\ DOMAIN g.mem = bytes \cup DOMAIN h.mem
       /\ \A a \in DOMAIN h.mem : g.mem[a] = h.mem[a]
       /\ \A a \in Prefixes(blocks) : g.mem[a] = META
  <2>1. bytes \subseteq DOMAIN k.mem
    BY <1>9
  <2>2. /\ DOMAIN g.mem = DOMAIN k.mem
        /\ \A a \in Prefixes(blocks) : g.mem[a] = META
        /\ \A a \in DOMAIN k.mem : a \notin bytes => g.mem[a] = k.mem[a]
    BY <1>4, <1>8, <2>1 DEF Overlay
  <2> QED BY <1>1, <1>9, <2>2
<1>11. AddsMapping(h, g, base, blocks, fields)
  <2>1. bytes = Bytes(base, fields.length)
    BY <1>6 DEF bytes
  <2>2. \A b \in blocks : /\ (b + offset) % HPLF_PAYLOAD_ALIGNMENT = 0
                          /\ Bytes(b, offset + fields.capacity) \subseteq bytes
    BY <1>5, <1>7 DEF bytes
  <2>3. blocks \subseteq Nat /\ \A b, d \in blocks : b = d
    BY <1>1, <1>5
  <2> HIDE DEF bytes
  <2> QED BY <1>1, <1>4, <1>6, <1>7, <1>10, <2>1, <2>2, <2>3 DEF AddsMapping
<1>12. AddsLarge(h, g, base, blocks, fields)
  BY <1>4, <1>6 DEF AddsLarge, blocks
<1>13. WritesFresh(h, g, base, blocks)
  <2>1. base \notin DOMAIN h.slabs
    BY <1>0, <1>11, <1>12, NewBase
  <2> QED BY <1>4, <1>8, <1>10, <2>1 DEF WritesFresh
<1>14. /\ Structure(g) /\ DOMAIN g.prefix = blocks \cup DOMAIN h.prefix
       /\ \A b \in blocks : g.prefix[b] = fields
       /\ \A b \in DOMAIN h.prefix : g.prefix[b] = h.prefix[b]
  BY <1>0, <1>11, <1>12, NewMapping
<1>15. Intact(g) /\ \A K : K \subseteq DOMAIN h.prefix => Keeps(h, g, K)
  BY <1>0, <1>11, <1>12, <1>13, NewMappingKeeps
<1>16. blocks \cap DOMAIN h.prefix = {}
  BY <1>0, <1>11, <1>12, NewBase
<1>17. /\ DOMAIN h.prefix = H \cup FreeBlocks(h) \cup h.lost
       /\ H \cap FreeBlocks(h) = {} /\ H \cap h.lost = {} /\ FreeBlocks(h) \cap h.lost = {}
       /\ \A c \in Class : \A d \in h.free_lists[c] :
              h.prefix[d].owner \in DOMAIN h.slabs /\ h.slabs[h.prefix[d].owner].class = c
       /\ h.free_lists \in [Class -> SUBSET Nat]
  BY <1>0 DEF Accounted
<1>18. Accounted(g, More(H, base))
  <2>1. FreeBlocks(g) = FreeBlocks(h)
    BY <1>4 DEF FreeBlocks
  <2>2. base \notin DOMAIN h.prefix
    BY <1>5, <1>16
  <2>3. DOMAIN g.prefix = More(H, base) \cup FreeBlocks(g) \cup g.lost
    BY <1>4, <1>5, <1>14, <1>17, <2>1 DEF More
  <2>4. /\ More(H, base) \cap FreeBlocks(g) = {} /\ More(H, base) \cap g.lost = {}
        /\ FreeBlocks(g) \cap g.lost = {}
    BY <1>4, <1>17, <2>1, <2>2 DEF More
  <2>5. ASSUME NEW c \in Class, NEW d \in g.free_lists[c]
        PROVE  g.prefix[d].owner \in DOMAIN g.slabs /\ g.slabs[g.prefix[d].owner].class = c
    <3>1. d \in h.free_lists[c] /\ d \in FreeBlocks(h)
      BY <1>4, FreeIs
    <3>2. g.prefix[d] = h.prefix[d]
      BY <1>14, <1>17, <3>1
    <3> QED BY <1>4, <1>17, <3>1, <3>2
  <2> QED BY <1>4, <1>17, <2>3, <2>4, <2>5 DEF Accounted
<1>19. base \notin H /\ Keeps(h, g, H)
  BY <1>5, <1>15, <1>16, <1>17
<1>20. g.prefix[base].requested_size = size
  BY <1>5, <1>6, <1>14
<1> QED BY <1>1, <1>4, <1>14, <1>15, <1>18, <1>19, <1>20 DEF Sound, g

\* slab_create, for a class with no block on its list.
LEMMA SlabCreateIs ==
    ASSUME NEW h, NEW H, Sound(h, H), NEW class \in Class, h.free_lists[class] = {},
           slab_layout_compute(capacities[class], page_size) # Invalid,
           NEW base \in Bases(h, slab_layout_compute(capacities[class], page_size).mapping_length)
    PROVE  LET g == slab_create(h, class, base)
           IN  Sound(g, H) /\ Keeps(h, g, H) /\ g.errno = h.errno
<1> DEFINE layout == slab_layout_compute(capacities[class], page_size)
           length == layout.mapping_length
           cap == capacities[class]
           bytes == Bytes(base, length)
           blocks == SlabBlocks(base, layout)
           fields == [kind |-> "small", owner |-> base, length |-> length,
                      requested_size |-> 0, capacity |-> cap]
           slab == [class |-> class, blocks |-> blocks, length |-> length]
           slabs == Overlay(h.slabs, {base}, slab)
           lists == [h.free_lists EXCEPT ![class] = blocks]
           header == Bytes(base, sizeof_slab)
           m == os_map(h, base, length)
           w == Write(m, header, META)
           k == InitBlocks(w, blocks, fields)
           g == slab_create(h, class, base)
<1>0. Structure(h) /\ Accounted(h, H) /\ Intact(h) /\ IsHeap(h)
  BY DEF Sound, Structure, HeapType
<1>1. length \in Nat
  BY HeapFacts, SlabFits
<1>2. /\ base \in Nat /\ bytes \subseteq 0..(memory_bytes - 1) /\ bytes \cap DOMAIN h.mem = {}
      /\ base % page_size = 0
  BY <1>1, BasesAre
<1>3. /\ offset \in Nat /\ sizeof_block <= offset /\ header \subseteq bytes /\ blocks \subseteq Nat
      /\ \A b \in blocks : /\ (b + offset) % HPLF_PAYLOAD_ALIGNMENT = 0
                           /\ Bytes(b, offset + cap) \subseteq bytes
                           /\ Bytes(b, offset + cap) \cap header = {}
      /\ \A b, d \in blocks : b # d => Bytes(b, offset + cap) \cap Bytes(d, offset + cap) = {}
  BY <1>2, SlabInMemory
<1>4. g = [k EXCEPT !.slabs = slabs, !.free_lists[class] = blocks]
  BY DEF slab_create
<1>5. cap \in Nat
  BY HeapFacts
<1> HIDE DEF layout
<1>6. /\ fields \in BlockFields /\ fields.owner = base /\ fields.length = length
      /\ fields.requested_size = 0 /\ fields.kind = "small" /\ fields.capacity = cap
  BY <1>1, <1>2, <1>5 DEF BlockFields
<1> HIDE DEF fields, blocks, header, bytes, slabs, lists, m, w, k, g
<1>7. /\ IsHeap(m) /\ m.prefix = h.prefix /\ m.slabs = h.slabs /\ m.free_lists = h.free_lists
      /\ m.lost = h.lost /\ m.errno = h.errno /\ m.mem = Overlay(h.mem, bytes, 0)
  BY <1>0, OsMapIs DEF SameButMem, m, bytes
<1>8. /\ IsHeap(w) /\ w.prefix = h.prefix /\ w.slabs = h.slabs /\ w.free_lists = h.free_lists
      /\ w.lost = h.lost /\ w.errno = h.errno /\ w.mem = Overlay(m.mem, header, META)
  BY <1>7, WriteIs DEF SameButMem, w
<1>9. /\ IsHeap(k) /\ k.mem = Overlay(w.mem, Prefixes(blocks), META)
      /\ k.prefix = Overlay(h.prefix, blocks, fields)
      /\ k.slabs = h.slabs /\ k.free_lists = h.free_lists /\ k.lost = h.lost
      /\ k.errno = h.errno
  BY <1>8, InitBlocksIs DEF k
<1>10. /\ IsHeap(g) /\ g.mem = Overlay(w.mem, Prefixes(blocks), META)
       /\ g.prefix = Overlay(h.prefix, blocks, fields)
       /\ g.slabs = slabs /\ g.free_lists = lists /\ g.lost = h.lost /\ g.errno = h.errno
  <2> DEFINE j == [k EXCEPT !.slabs = slabs]
             r == [mem |-> k.mem, prefix |-> k.prefix, slabs |-> slabs,
                   free_lists |-> k.free_lists, lost |-> k.lost, errno |-> k.errno]
             q == [mem |-> k.mem, prefix |-> k.prefix, slabs |-> slabs,
                   free_lists |-> lists, lost |-> k.lost, errno |-> k.errno]
  <2>1. g = [j EXCEPT !.free_lists[class] = blocks]
    BY <1>4
  <2>2. j = r
    BY <1>9 DEF IsHeap
  <2> HIDE DEF j
  <2>3. [j EXCEPT !.free_lists[class] = blocks] = q
    BY <1>9, <2>2 DEF lists
  <2> QED BY <1>9, <2>1, <2>3 DEF IsHeap
<1>11. /\ Prefixes(blocks) \subseteq bytes
       /\ \A b \in blocks : Bytes(b, sizeof_block) \subseteq Prefixes(blocks)
  <2>1. offset + cap \in Nat /\ sizeof_block <= offset + cap
    BY <1>3, <1>5, HeapFacts
  <2> HIDE DEF cap
  <2> QED BY <1>3, <2>1, PrefixesIn
<1>12. /\ DOMAIN g.mem = bytes \cup DOMAIN h.mem
       /\ \A a \in DOMAIN h.mem : g.mem[a] = h.mem[a]
       /\ \A a \in header \cup Prefixes(blocks) : g.mem[a] = META
  <2>1. /\ DOMAIN m.mem = bytes \cup DOMAIN h.mem
        /\ \A a \in DOMAIN h.mem : m.mem[a] = h.mem[a]
    BY <1>2, <1>7 DEF Overlay
  <2>2. /\ DOMAIN w.mem = DOMAIN m.mem
        /\ \A a \in header : w.mem[a] = META
        /\ \A a \in DOMAIN m.mem : a \notin bytes => w.mem[a] = m.mem[a]
    BY <1>3, <1>8, <2>1 DEF Overlay
  <2>3. /\ DOMAIN g.mem = DOMAIN w.mem
        /\ \A a \in Prefixes(blocks) : g.mem[a] = META
        /\ \A a \in DOMAIN w.mem : a \notin Prefixes(blocks) => g.mem[a] = w.mem[a]
    BY <1>10, <1>11, <2>1, <2>2 DEF Overlay
  <2>4. \A a \in DOMAIN h.mem : a \notin bytes /\ a \notin Prefixes(blocks)
    BY <1>2, <1>11
  <2> QED BY <1>3, <2>1, <2>2, <2>3, <2>4
<1>13. AddsMapping(h, g, base, blocks, fields)
  <2>1. bytes = Bytes(base, fields.length)
    BY <1>6 DEF bytes
  <2>2. \A b \in blocks : /\ (b + offset) % HPLF_PAYLOAD_ALIGNMENT = 0
                          /\ Bytes(b, offset + fields.capacity) \subseteq bytes
    BY <1>3, <1>6
  <2>3. \A b, d \in blocks : b # d =>
           Bytes(b, offset + fields.capacity) \cap Bytes(d, offset + fields.capacity) = {}
    BY <1>3, <1>6
  <2>4. fields.requested_size <= fields.capacity
    BY <1>5, <1>6
  <2> QED BY <1>2, <1>3, <1>6, <1>10, <1>12, <2>1, <2>2, <2>3, <2>4 DEF AddsMapping
<1>14. AddsSlab(h, g, base, blocks, fields)
  <2>1. g.slabs = Overlay(h.slabs, {base},
                          [class |-> class, blocks |-> blocks, length |-> fields.length])
    BY <1>6, <1>10 DEF slabs
  <2>2. Bytes(base, sizeof_slab) \subseteq Bytes(base, fields.length)
    BY <1>3, <1>6 DEF header, bytes
  <2>3. \A b \in blocks : Bytes(b, offset + fields.capacity) \cap Bytes(base, sizeof_slab) = {}
    BY <1>3, <1>6 DEF header
  <2> QED BY <1>6, <2>1, <2>2, <2>3 DEF AddsSlab
<1>15. WritesFresh(h, g, base, blocks)
  BY <1>11, <1>12 DEF WritesFresh, header
<1>16. /\ Structure(g) /\ DOMAIN g.prefix = blocks \cup DOMAIN h.prefix
       /\ \A b \in blocks : g.prefix[b] = fields
       /\ \A b \in DOMAIN h.prefix : g.prefix[b] = h.prefix[b]
       /\ \A s \in DOMAIN h.slabs : s \in DOMAIN g.slabs /\ g.slabs[s] = h.slabs[s]
  BY <1>0, <1>13, <1>14, NewMapping
<1>17. Intact(g) /\ \A K : K \subseteq DOMAIN h.prefix => Keeps(h, g, K)
  BY <1>0, <1>13, <1>14, <1>15, NewMappingKeeps
<1>18. blocks \cap DOMAIN h.prefix = {}
  BY <1>0, <1>13, <1>14, NewBase
<1>19. /\ DOMAIN h.prefix = H \cup FreeBlocks(h) \cup h.lost
       /\ H \cap FreeBlocks(h) = {} /\ H \cap h.lost = {} /\ FreeBlocks(h) \cap h.lost = {}
       /\ \A c \in Class : \A d \in h.free_lists[c] :
              h.prefix[d].owner \in DOMAIN h.slabs /\ h.slabs[h.prefix[d].owner].class = c
       /\ h.free_lists \in [Class -> SUBSET Nat]
  BY <1>0 DEF Accounted
<1>20. Accounted(g, H)
  <2>1. /\ g.free_lists \in [Class -> SUBSET Nat] /\ g.free_lists[class] = blocks
        /\ \A c \in Class : c # class => g.free_lists[c] = h.free_lists[c]
    BY <1>3, <1>10, <1>19 DEF lists
  <2>2. \A x : x \in FreeBlocks(g) <=> x \in FreeBlocks(h) \/ x \in blocks
    BY <2>1, FreeIs
  <2>3. DOMAIN g.prefix = H \cup FreeBlocks(g) \cup g.lost
    BY <1>10, <1>16, <1>19, <2>2
  <2>4. H \cap FreeBlocks(g) = {} /\ H \cap g.lost = {} /\ FreeBlocks(g) \cap g.lost = {}
    BY <1>10, <1>18, <1>19, <2>2
  <2>5. ASSUME NEW c \in Class, NEW d \in g.free_lists[c]
        PROVE  g.prefix[d].owner \in DOMAIN g.slabs /\ g.slabs[g.prefix[d].owner].class = c
    <3>1. CASE c = class
      <4>1. g.prefix[d] = fields
        BY <1>16, <2>1, <3>1
      <4>2. base \in DOMAIN g.slabs /\ g.slabs[base] = slab
        BY <1>10 DEF slabs, Overlay
      <4> QED BY <1>6, <3>1, <4>1, <4>2
    <3>2. CASE c # class
      <4>1. d \in h.free_lists[c] /\ d \in DOMAIN h.prefix
        BY <1>19, <2>1, <3>2, FreeIs
      <4> QED BY <1>16, <1>19, <4>1
    <3> QED BY <3>1, <3>2
  <2> QED BY <2>1, <2>3, <2>4, <2>5 DEF Accounted
<1>21. Keeps(h, g, H)
  BY <1>17, <1>19
<1> QED BY <1>10, <1>16, <1>17, <1>20, <1>21 DEF Sound, g

-----------------------------------------------------------------------------
(***************************************************************************)
(* A trim.                                                                 *)
(***************************************************************************)

\* The bytes of some slabs.
BytesOf(h, unmapped) == UNION {SlabBytes(h, s) : s \in unmapped}

\* The bytes of the slabs, byte by byte.
LEMMA BytesOfIs ==
    ASSUME NEW h, NEW unmapped
    PROVE  \A x : x \in BytesOf(h, unmapped) <=> \E s \in unmapped : x \in SlabBytes(h, s)
BY DEF BytesOf

\* The fields of the heap after the unmapping.
LEMMA UnmapSlabsFields ==
    ASSUME NEW h, IsHeap(h), NEW unmapped
    PROVE  LET g == UnmapSlabs(h, unmapped)
           IN  /\ IsHeap(g) /\ g.mem = Without(h.mem, BytesOf(h, unmapped))
               /\ g.prefix = Without(h.prefix, BytesOf(h, unmapped))
               /\ g.slabs = Without(h.slabs, unmapped)
               /\ DOMAIN g.free_lists = Class
               /\ \A c \in Class : \A x : x \in g.free_lists[c] <=>
                      /\ x \in h.free_lists[c]
                      /\ ~ \E s \in unmapped : h.slabs[s].class = c /\ x \in h.slabs[s].blocks
               /\ g.lost = h.lost /\ g.errno = h.errno
<1> DEFINE gone == BytesOf(h, unmapped)
           removed(c) == UNION {h.slabs[s].blocks : s \in {t \in unmapped : h.slabs[t].class = c}}
           lists == [c \in Class |-> h.free_lists[c] \ removed(c)]
           mem == Without(h.mem, gone)
           prefix == Without(h.prefix, gone)
           slabs == Without(h.slabs, unmapped)
           i == [h EXCEPT !.mem = mem]
           j == [i EXCEPT !.prefix = prefix]
           k == [j EXCEPT !.slabs = slabs]
           g == [mem |-> mem, prefix |-> prefix, slabs |-> slabs, free_lists |-> lists,
                 lost |-> h.lost, errno |-> h.errno]
<1>1. UnmapSlabs(h, unmapped) = [k EXCEPT !.free_lists = lists]
  BY DEF UnmapSlabs, BytesOf, SlabBytes
<1>2. /\ DOMAIN lists = Class
      /\ \A c \in Class : lists[c] = h.free_lists[c] \ removed(c)
  OBVIOUS
<1>3. \A c, x : x \in removed(c) <=>
         \E s \in unmapped : h.slabs[s].class = c /\ x \in h.slabs[s].blocks
  OBVIOUS
<1> HIDE DEF lists, mem, prefix, slabs, removed
<1>4. i = [mem |-> mem, prefix |-> h.prefix, slabs |-> h.slabs, free_lists |-> h.free_lists,
           lost |-> h.lost, errno |-> h.errno]
  BY DEF IsHeap
<1> HIDE DEF i
<1>5. j = [mem |-> mem, prefix |-> prefix, slabs |-> h.slabs, free_lists |-> h.free_lists,
           lost |-> h.lost, errno |-> h.errno]
  BY <1>4
<1> HIDE DEF j
<1>6. k = [mem |-> mem, prefix |-> prefix, slabs |-> slabs, free_lists |-> h.free_lists,
           lost |-> h.lost, errno |-> h.errno]
  BY <1>5
<1> HIDE DEF k
<1>7. [k EXCEPT !.free_lists = lists] = g
  BY <1>6
<1>8. /\ IsHeap(g) /\ g.mem = mem /\ g.prefix = prefix /\ g.slabs = slabs
      /\ g.free_lists = lists /\ g.lost = h.lost /\ g.errno = h.errno
  BY DEF IsHeap
<1> HIDE DEF g
<1>9. /\ DOMAIN g.free_lists = Class
      /\ \A c \in Class : \A x : x \in g.free_lists[c] <=>
             /\ x \in h.free_lists[c]
             /\ ~ \E s \in unmapped : h.slabs[s].class = c /\ x \in h.slabs[s].blocks
  BY <1>2, <1>3, <1>8
<1> QED BY <1>1, <1>7, <1>8, <1>9 DEF mem, prefix, slabs

\* Unmapping slabs that are wholly free takes no block from a caller.
LEMMA UnmapSlabsIs ==
    ASSUME NEW h, NEW H, Sound(h, H), NEW unmapped, unmapped \subseteq WhollyFree(h)
    PROVE  LET g == UnmapSlabs(h, unmapped)
           IN  /\ Sound(g, H) /\ Keeps(h, g, H)
               /\ DOMAIN g.mem = DOMAIN h.mem \ BytesOf(h, unmapped)
               /\ BytesOf(h, unmapped) \subseteq DOMAIN h.mem
<1> DEFINE g == UnmapSlabs(h, unmapped)
           gone == BytesOf(h, unmapped)
<1>0. /\ Structure(h) /\ Accounted(h, H) /\ Intact(h) /\ IsHeap(h) /\ HeapType(h)
      /\ SlabsOK(h) /\ BlocksOK(h)
  BY DEF Sound, Structure, HeapType
<1>1. /\ DOMAIN h.prefix = H \cup FreeBlocks(h) \cup h.lost
      /\ H \cap FreeBlocks(h) = {} /\ H \cap h.lost = {} /\ FreeBlocks(h) \cap h.lost = {}
      /\ \A c \in Class : \A d \in h.free_lists[c] :
             h.prefix[d].owner \in DOMAIN h.slabs /\ h.slabs[h.prefix[d].owner].class = c
      /\ h.free_lists \in [Class -> SUBSET Nat]
  BY <1>0 DEF Accounted
<1>2. \A s \in unmapped : /\ s \in DOMAIN h.slabs
                          /\ h.slabs[s].blocks \subseteq h.free_lists[h.slabs[s].class]
                          /\ h.slabs[s].class \in Class
  BY <1>0, FieldTypes DEF WhollyFree
<1>3. \A s \in DOMAIN h.slabs : \A b : b \in h.slabs[s].blocks <=>
         b \in DOMAIN h.prefix /\ h.prefix[b].owner = s
  BY <1>0 DEF SlabsOK
<1>4. /\ IsHeap(g) /\ g.mem = Without(h.mem, gone) /\ g.prefix = Without(h.prefix, gone)
      /\ g.slabs = Without(h.slabs, unmapped)
      /\ DOMAIN g.free_lists = Class
      /\ \A c \in Class : \A x : x \in g.free_lists[c] <=>
             /\ x \in h.free_lists[c]
             /\ ~ \E s \in unmapped : h.slabs[s].class = c /\ x \in h.slabs[s].blocks
      /\ g.lost = h.lost /\ g.errno = h.errno
  BY <1>0, UnmapSlabsFields
<1>5. \A x : x \in gone <=> \E s \in unmapped : x \in SlabBytes(h, s)
  BY BytesOfIs
<1> HIDE DEF g, gone
<1>6. DropsMappings(h, g, unmapped, gone)
  <2>1. ASSUME NEW b \in DOMAIN h.prefix, h.prefix[b].owner \in unmapped
        PROVE  Mapping(h, b) = SlabBytes(h, h.prefix[b].owner)
    <3>1. BlockOK(h, b) /\ h.prefix[b].owner \in DOMAIN h.slabs
      BY <1>0, <1>2, <2>1 DEF BlocksOK
    <3>2. h.prefix[b].length = h.slabs[h.prefix[b].owner].length
      BY <3>1 DEF BlockOK
    <3> QED BY <3>2 DEF Mapping, SlabBytes
  <2>2. ASSUME NEW x \in DOMAIN h.mem PROVE x \in gone <=> Gone(h, unmapped, x)
    BY <1>2, <1>5, <2>1 DEF Gone
  <2> QED BY <1>4, <2>2 DEF DropsMappings
<1>7. /\ Structure(g)
      /\ DOMAIN g.prefix = {b \in DOMAIN h.prefix : h.prefix[b].owner \notin unmapped}
      /\ \A b \in DOMAIN g.prefix : g.prefix[b] = h.prefix[b]
      /\ \A s \in DOMAIN g.slabs : g.slabs[s] = h.slabs[s]
  BY <1>0, <1>6, RemovedMappings
<1>8. \A b \in DOMAIN h.prefix : h.prefix[b].owner \in unmapped => b \in FreeBlocks(h)
  BY <1>2, <1>3, FreeIs
<1>9. \A c \in Class : \A x : x \in g.free_lists[c] <=>
         x \in h.free_lists[c] /\ h.prefix[x].owner \notin unmapped
  <2> SUFFICES ASSUME NEW c \in Class, NEW x \in h.free_lists[c]
               PROVE  h.prefix[x].owner \in unmapped <=>
                      \E s \in unmapped : h.slabs[s].class = c /\ x \in h.slabs[s].blocks
    BY <1>4
  <2>1. x \in DOMAIN h.prefix
    BY <1>1, FreeIs
  <2>2. h.prefix[x].owner \in DOMAIN h.slabs /\ h.slabs[h.prefix[x].owner].class = c
    BY <1>1
  <2> QED BY <1>2, <1>3, <2>1, <2>2
<1>10. \A x : x \in FreeBlocks(g) <=> x \in FreeBlocks(h) /\ h.prefix[x].owner \notin unmapped
  BY <1>9, FreeIs
<1>11. Accounted(g, H)
  <2>1. g.free_lists \in [Class -> SUBSET Nat]
    <3>1. \A c \in Class : g.free_lists[c] \subseteq Nat
      BY <1>1, <1>9
    <3>2. g.free_lists = [c \in Class |-> g.free_lists[c]]
      BY DEF g, UnmapSlabs
    <3> QED BY <3>1, <3>2
  <2>2. DOMAIN g.prefix = H \cup FreeBlocks(g) \cup g.lost
    <3>1. \A b \in H \cup h.lost : h.prefix[b].owner \notin unmapped
      BY <1>1, <1>8
    <3> QED BY <1>1, <1>4, <1>7, <1>10, <3>1
  <2>3. H \cap FreeBlocks(g) = {} /\ H \cap g.lost = {} /\ FreeBlocks(g) \cap g.lost = {}
    BY <1>1, <1>4, <1>10
  <2>4. ASSUME NEW c \in Class, NEW d \in g.free_lists[c]
        PROVE  g.prefix[d].owner \in DOMAIN g.slabs /\ g.slabs[g.prefix[d].owner].class = c
    <3>1. d \in h.free_lists[c] /\ h.prefix[d].owner \notin unmapped
      BY <1>9
    <3>2. d \in DOMAIN g.prefix
      BY <2>2, FreeIs
    <3>3. h.prefix[d].owner \in DOMAIN g.slabs
      BY <1>1, <1>4, <3>1 DEF Without
    <3> QED BY <1>1, <1>7, <3>1, <3>2, <3>3
  <2> QED BY <2>1, <2>2, <2>3, <2>4 DEF Accounted
<1>12. Intact(g) /\ Keeps(h, g, H)
  <2>1. Intact(g) /\ \A K : K \subseteq DOMAIN g.prefix => Keeps(h, g, K)
    BY <1>0, <1>6, RemovedKeeps
  <2>2. H \subseteq DOMAIN g.prefix
    BY <1>11 DEF Accounted
  <2> QED BY <2>1, <2>2
<1>13. DOMAIN g.mem = DOMAIN h.mem \ gone
  BY <1>4 DEF Without
<1>14. gone \subseteq DOMAIN h.mem
  BY <1>0, <1>2, <1>5, InMemory
<1> QED BY <1>7, <1>11, <1>12, <1>13, <1>14 DEF Sound, g, gone

\* Disjoint sets add up.
LEMMA DisjointSets ==
    ASSUME NEW S, NEW T, NEW U, IsFiniteSet(U), \A x : x \in U <=> x \in S \/ x \in T,
           \A x \in S : x \notin T
    PROVE  /\ Cardinality(S) \in Nat /\ Cardinality(T) \in Nat
           /\ Cardinality(U) = Cardinality(S) + Cardinality(T)
<1>1. U = S \cup T /\ S \in SUBSET U /\ T \in SUBSET U /\ S \cap T = {}
  OBVIOUS
<1>2. IsFiniteSet(S) /\ IsFiniteSet(T)
  BY <1>1, FS_Subset, Zenon
<1>3. Cardinality(S) \in Nat /\ Cardinality(T) \in Nat
  BY <1>2, FS_CardinalityType, Zenon
<1>4. Cardinality(S \cup T) = Cardinality(S) + Cardinality(T) - Cardinality(S \cap T)
  BY <1>2, FS_Union, Zenon
<1>5. Cardinality(U) = Cardinality(S) + Cardinality(T) - Cardinality({})
  BY <1>1, <1>4
<1> QED BY <1>3, <1>5, FS_EmptySet

\* The mapped bytes, and the slabs, are finite in number.
LEMMA FiniteMemory ==
    ASSUME NEW h, Structure(h)
    PROVE  /\ \A S : S \subseteq DOMAIN h.mem =>
                  IsFiniteSet(S) /\ Cardinality(S) \in Nat /\ Cardinality(S) <= memory_bytes
           /\ \A S : S \subseteq DOMAIN h.slabs => IsFiniteSet(S) /\ Cardinality(S) \in Nat
<1> DEFINE all == 0..(memory_bytes - 1)
<1>1. memory_bytes \in Nat /\ memory_bytes - 1 \in Int
  BY HeapFacts
<1>2. IsFiniteSet(all) /\ Cardinality(all) = memory_bytes
  BY <1>1, FS_Interval
<1>3. DOMAIN h.mem \subseteq all /\ DOMAIN h.slabs \subseteq DOMAIN h.mem
  BY InMemory DEF Structure, HeapType
<1> HIDE DEF all
<1>4. ASSUME NEW S, S \in SUBSET all
      PROVE  IsFiniteSet(S) /\ Cardinality(S) \in Nat /\ Cardinality(S) <= Cardinality(all)
  <2>1. IsFiniteSet(S) /\ Cardinality(S) <= Cardinality(all)
    BY <1>2, <1>4, FS_Subset
  <2> QED BY <2>1, FS_CardinalityType
<1> QED BY <1>2, <1>3, <1>4

\* A slab has as many bytes as its length says.
LEMMA SlabByteCount ==
    ASSUME NEW h, Structure(h), NEW s \in DOMAIN h.slabs
    PROVE  h.slabs[s].length \in Nat /\ Cardinality(SlabBytes(h, s)) = h.slabs[s].length
<1> DEFINE n == h.slabs[s].length
<1>1. s \in Nat /\ n \in Nat
  BY FieldTypes DEF Structure
<1> HIDE DEF n
<1>2. Cardinality(s..(s + n - 1)) = IF s > s + n - 1 THEN 0 ELSE (s + n - 1) - s + 1
  <2>1. s \in Int /\ s + n - 1 \in Int
    BY <1>1
  <2> DEFINE e == s + n - 1
  <2> HIDE DEF e
  <2>2. s \in Int /\ e \in Int
    BY <2>1 DEF e
  <2>3. Cardinality(s..e) = IF s > e THEN 0 ELSE e - s + 1
    BY <2>2, FS_Interval
  <2> QED BY <2>3 DEF e
<1>3. Cardinality(s..(s + n - 1)) = n
  BY <1>1, <1>2
<1> QED BY <1>1, <1>3 DEF SlabBytes, Bytes, n

\* One slab more.
LEMMA OneSlabMore ==
    ASSUME NEW h, Structure(h), NEW S, S \subseteq DOMAIN h.slabs, NEW s \in S, NEW T,
           T = S \ {s}
    PROVE  /\ Cardinality(BytesOf(h, T)) \in Size /\ h.slabs[s].length \in Size
           /\ Cardinality(BytesOf(h, S)) = Cardinality(BytesOf(h, T)) + h.slabs[s].length
           /\ Cardinality(BytesOf(h, S)) \in Size
<1> DEFINE A == BytesOf(h, T)
           B == SlabBytes(h, s)
           C == BytesOf(h, S)
<1>1. \A x : x \in A <=> \E t \in T : x \in SlabBytes(h, t)
  BY BytesOfIs
<1>2. \A x : x \in C <=> \E t \in S : x \in SlabBytes(h, t)
  BY BytesOfIs
<1>3. Cardinality(B) = h.slabs[s].length /\ h.slabs[s].length \in Nat
  BY SlabByteCount
<1> HIDE DEF A, B, C
<1>4. \A x : x \in C <=> x \in A \/ x \in B
  BY <1>1, <1>2 DEF B
<1>5. \A x \in A : x \notin B
  <2>1. \A t \in T : t # s /\ t \in DOMAIN h.slabs /\ s \in DOMAIN h.slabs
    OBVIOUS
  <2>2. \A t \in T : SlabBytes(h, t) \cap SlabBytes(h, s) = {}
    BY <2>1 DEF Structure, MappingsApart
  <2> QED BY <1>1, <2>2 DEF B
<1>6. C \subseteq DOMAIN h.mem
  BY <1>2, InMemory
<1>7. IsFiniteSet(C) /\ Cardinality(C) \in Nat /\ Cardinality(C) <= memory_bytes
  BY <1>6, FiniteMemory
<1>8. /\ Cardinality(A) \in Nat /\ Cardinality(B) \in Nat
      /\ Cardinality(C) = Cardinality(A) + Cardinality(B)
  BY <1>4, <1>5, <1>7, DisjointSets
<1>9. memory_bytes \in Nat /\ memory_bytes <= SIZE_MAX /\ SIZE_MAX \in Nat
  BY HeapFacts, SizeIsNat
<1>10. Cardinality(A) \in Size /\ Cardinality(C) \in Size /\ h.slabs[s].length \in Size
  BY <1>3, <1>7, <1>8, <1>9 DEF Size
<1> QED BY <1>3, <1>8, <1>10 DEF A, C

\* The loop of a trim, as a function of the slabs that are done.
IsReleased(t, h, unmapped) ==
    t = [S \in SUBSET unmapped |->
            IF S = {} THEN 0
            ELSE LET s == CHOOSE s \in S : TRUE
                     new_total == size_add(t[S \ {s}], h.slabs[s].length)
                 IN  IF new_total = Invalid THEN SIZE_MAX ELSE new_total]

\* The sum of some lengths is a size, so the total does not saturate.
LEMMA ReleasedStep ==
    ASSUME NEW h, Structure(h), NEW S, S \subseteq DOMAIN h.slabs, NEW s \in S, NEW T,
           T = S \ {s}, NEW n, n = size_add(Cardinality(BytesOf(h, T)), h.slabs[s].length)
    PROVE  n # Invalid /\ n = Cardinality(BytesOf(h, S))
<1> DEFINE a == Cardinality(BytesOf(h, T))
           b == h.slabs[s].length
           c == Cardinality(BytesOf(h, S))
<1>1. a \in Size /\ b \in Size /\ c = a + b /\ c \in Size
  BY OneSlabMore
<1> HIDE DEF a, b, c
<1>2. size_add(a, b) = Exact(a + b)
  BY <1>1, AddExact
<1>3. Exact(a + b) = c
  BY <1>1, SizeIsNat DEF Exact, Size
<1>4. n = c /\ c # Invalid
  BY <1>1, <1>2, <1>3, SizeIsNat DEF a, b
<1> QED BY <1>4 DEF c

\* The number of bytes of the slabs satisfies the recursion of ReleasedTotal.
LEMMA ReleasedExists ==
    ASSUME NEW h, Structure(h), NEW unmapped, unmapped \subseteq DOMAIN h.slabs
    PROVE  \E t : IsReleased(t, h, unmapped)
<1> DEFINE t == [S \in SUBSET unmapped |-> Cardinality(BytesOf(h, S))]
           next(S) == LET s == CHOOSE s \in S : TRUE
                          new_total == size_add(t[S \ {s}], h.slabs[s].length)
                      IN  IF new_total = Invalid THEN SIZE_MAX ELSE new_total
<1>1. ASSUME NEW S \in SUBSET unmapped
      PROVE  t[S] = IF S = {} THEN 0 ELSE next(S)
  <2>1. CASE S = {}
    <3>1. BytesOf(h, {}) = {}
      BY DEF BytesOf
    <3> QED BY <2>1, <3>1, FS_EmptySet
  <2>2. CASE S # {}
    <3> DEFINE s == CHOOSE s \in S : TRUE
               T == S \ {s}
               n == size_add(t[T], h.slabs[s].length)
    <3>1. s \in S
      BY <2>2
    <3>2. T \in SUBSET unmapped /\ T = S \ {s} /\ S \subseteq DOMAIN h.slabs
      OBVIOUS
    <3>3. t[T] = Cardinality(BytesOf(h, T)) /\ t[S] = Cardinality(BytesOf(h, S))
      BY <3>2
    <3>4. next(S) = IF n = Invalid THEN SIZE_MAX ELSE n
      OBVIOUS
    <3> HIDE DEF t, s, T, next
    <3>5. n = size_add(Cardinality(BytesOf(h, T)), h.slabs[s].length)
      BY <3>3
    <3> HIDE DEF n
    <3>6. n # Invalid /\ n = Cardinality(BytesOf(h, S))
      BY <3>1, <3>2, <3>5, ReleasedStep
    <3> QED BY <2>2, <3>3, <3>4, <3>6
  <2> QED BY <2>1, <2>2
<1>2. t = [S \in SUBSET unmapped |-> IF S = {} THEN 0 ELSE next(S)]
  <2>1. t = [S \in SUBSET unmapped |-> t[S]]
    OBVIOUS
  <2> HIDE DEF t, next
  <2> QED BY <1>1, <2>1
<1>3. IsReleased(t, h, unmapped)
  BY <1>2 DEF IsReleased
<1> HIDE DEF t
<1> QED BY <1>3

\* However many slabs are done, the total is the number of their bytes.
LEMMA ReleasedUnique ==
    ASSUME NEW h, Structure(h), NEW unmapped, unmapped \subseteq DOMAIN h.slabs,
           NEW t, IsReleased(t, h, unmapped)
    PROVE  \A S \in SUBSET unmapped : t[S] = Cardinality(BytesOf(h, S))
<1> DEFINE P == {n \in Nat : \A S \in SUBSET unmapped :
                    Cardinality(S) = n => t[S] = Cardinality(BytesOf(h, S))}
<1>0. \A S \in SUBSET unmapped : IsFiniteSet(S) /\ Cardinality(S) \in Nat
  BY FiniteMemory
<1>1. 0 \in P
  <2> SUFFICES ASSUME NEW S \in SUBSET unmapped, Cardinality(S) = 0
               PROVE  t[S] = Cardinality(BytesOf(h, S))
    OBVIOUS
  <2>1. S = {}
    BY <1>0, FS_EmptySet
  <2>2. BytesOf(h, {}) = {}
    BY DEF BytesOf
  <2>3. t[S] = 0
    BY <2>1 DEF IsReleased
  <2> QED BY <2>1, <2>2, <2>3, FS_EmptySet
<1>2. ASSUME NEW n \in P PROVE n + 1 \in P
  <2> SUFFICES ASSUME NEW S \in SUBSET unmapped, Cardinality(S) = n + 1
               PROVE  t[S] = Cardinality(BytesOf(h, S))
    OBVIOUS
  <2> DEFINE s == CHOOSE s \in S : TRUE
             T == S \ {s}
             m == size_add(t[T], h.slabs[s].length)
  <2>0. n \in Nat
    OBVIOUS
  <2>1. S # {} /\ s \in S
    <3>1. S # {}
      BY <2>0, FS_EmptySet
    <3> QED BY <3>1
  <2>2. T \in SUBSET unmapped /\ T = S \ {s} /\ S \subseteq DOMAIN h.slabs
    OBVIOUS
  <2>3. t[S] = IF m = Invalid THEN SIZE_MAX ELSE m
    BY <2>1 DEF IsReleased
  <2> HIDE DEF s, T
  <2>4. Cardinality(T) = n
    <3>1. Cardinality(S \ {s}) = IF s \in S THEN Cardinality(S) - 1 ELSE Cardinality(S)
      BY <1>0, FS_RemoveElement, Zenon
    <3> QED BY <2>0, <2>1, <2>2, <3>1
  <2>5. t[T] = Cardinality(BytesOf(h, T))
    BY <2>2, <2>4
  <2>6. m = size_add(Cardinality(BytesOf(h, T)), h.slabs[s].length)
    BY <2>5
  <2> HIDE DEF m
  <2>7. m # Invalid /\ m = Cardinality(BytesOf(h, S))
    BY <2>1, <2>2, <2>6, ReleasedStep
  <2> QED BY <2>3, <2>7
<1>3. P = Nat
  <2> HIDE DEF P
  <2>1. P \in SUBSET Nat
    BY DEF P
  <2> QED BY <1>1, <1>2, <2>1, SetInduction
<1> QED BY <1>0, <1>3

\* A trim returns the number of bytes of the slabs it unmapped.
LEMMA ReleasedTotalIs ==
    ASSUME NEW h, Structure(h), NEW unmapped, unmapped \subseteq DOMAIN h.slabs
    PROVE  ReleasedTotal(h, unmapped) = Cardinality(BytesOf(h, unmapped))
<1> DEFINE t == CHOOSE t : IsReleased(t, h, unmapped)
<1>1. IsReleased(t, h, unmapped)
  BY ReleasedExists
<1>2. ReleasedTotal(h, unmapped) = t[unmapped]
  BY DEF ReleasedTotal, IsReleased
<1> HIDE DEF t
<1>3. t[unmapped] = Cardinality(BytesOf(h, unmapped))
  BY <1>1, ReleasedUnique
<1> QED BY <1>2, <1>3

-----------------------------------------------------------------------------
(***************************************************************************)
(* The outcomes of an allocation.                                          *)
(***************************************************************************)

\* What errno may be after a request for so many bytes fails in h.
ErrorsOf(h, size) == Errors(h, ClassAsked(size))

\* Without a class, want of memory is the only cause.
LEMMA NoClassError ==
    ASSUME NEW h, NEW size, ClassAsked(size) = Invalid
    PROVE  "ENOMEM" \in ErrorsOf(h, size)
BY DEF ErrorsOf, Errors

\* A caller of h gets the block b in g.
GetsBlock(h, H, g, b, size) ==
    /\ b \notin H /\ b \in Nat /\ Sound(g, More(H, b)) /\ Keeps(h, g, H)
    /\ g.prefix[b].requested_size = size

\* An allocation fails, and errno says why, or gets a new block.
AllocationOutcome(h, H, size, o) ==
    \/ /\ o.payload = NULL /\ Sound(o.heap, H) /\ Keeps(h, o.heap, H)
       /\ size # 0 => o.heap.errno \in ErrorsOf(h, size)
    \/ \E b : o.payload = b + offset /\ GetsBlock(h, H, o.heap, b, size)

\* A failure sets errno and nothing else.
LEMMA FailureIs ==
    ASSUME NEW h, NEW H, Sound(h, H), NEW g, NEW size, Sound(g, H), Keeps(h, g, H),
           NEW error \in ErrorsOf(h, size)
    PROVE  AllocationOutcome(h, H, size, Failure(g, error))
<1>1. Failure(g, error) = [heap |-> SetErrno(g, error), payload |-> NULL]
  BY DEF Failure, SetErrno
<1> DEFINE k == SetErrno(g, error)
<1>2. Sound(k, H) /\ Keeps(g, k, H) /\ k.errno = error
  BY ErrnoIs
<1> HIDE DEF k
<1>3. Keeps(h, k, H)
  BY <1>2, KeepsTwice
<1>4. Failure(g, error).heap = k /\ Failure(g, error).payload = NULL
  BY <1>1 DEF k
<1> QED BY <1>2, <1>3, <1>4 DEF AllocationOutcome

\* A heap keeps its own blocks.
LEMMA KeepsSame ==
    ASSUME NEW h, NEW H, Sound(h, H)
    PROVE  Keeps(h, h, H)
BY DEF Keeps, Sound, Accounted

\* A block that was got and is held no more.
LEMMA LessMore ==
    ASSUME NEW H, NEW b, b \notin H
    PROVE  Less(More(H, b), b) = H /\ b \in More(H, b)
BY DEF Less, More

\* A refill adds free blocks only.
LEMMA RefilledIs ==
    ASSUME NEW h, NEW H, Sound(h, H), NEW class \in Class, NEW g \in Refilled(h, class)
    PROVE  Sound(g, H) /\ Keeps(h, g, H)
<1>1. CASE h.free_lists[class] # {}
  BY <1>1, KeepsSame DEF Refilled
<1>2. CASE h.free_lists[class] = {}
  <2> DEFINE layout == slab_layout_compute(capacities[class], page_size)
  <2>1. layout # Invalid
    BY <1>2 DEF Refilled
  <2>2. PICK base \in Bases(h, layout.mapping_length) : g = slab_create(h, class, base)
    BY <1>2, <2>1 DEF Refilled
  <2> QED BY <1>2, <2>1, <2>2, SlabCreateIs
<1> QED BY <1>1, <1>2

\* Every outcome of allocate_small, the failing locks too.
LEMMA SmallOutcome ==
    ASSUME NEW h, NEW H, Sound(h, H), NEW class \in Class, NEW size \in Nat,
           size <= capacities[class], class = ClassAsked(size), class # Invalid,
           NEW o \in allocate_small(h, size, class)
    PROVE  AllocationOutcome(h, H, size, o)
<1> DEFINE Takes == UNION {{<<TakeBlock(g, class, b, size), b>> : b \in g.free_lists[class]} :
                              g \in Refilled(h, class)}
<1>1. \/ \E t \in Takes : o = Success(t[1], t[2] + offset)
      \/ /\ MayFail({"unlock"})
         /\ \E t \in Takes : o = Failure([t[1] EXCEPT !.lost = @ \cup {t[2]}], "lock error")
      \/ h.free_lists[class] = {} /\ o = Failure(h, "ENOMEM")
      \/ MayFail({"lock"}) /\ o = Failure(h, "lock error")
  BY DEF allocate_small, RefillMayFail
<1>2. ASSUME NEW t \in Takes
      PROVE  GetsBlock(h, H, t[1], t[2], size)
  <2>1. PICK g \in Refilled(h, class) :
           t \in {<<TakeBlock(g, class, b, size), b>> : b \in g.free_lists[class]}
    BY <1>2
  <2>2. PICK b \in g.free_lists[class] : t = <<TakeBlock(g, class, b, size), b>>
    BY <2>1
  <2> DEFINE k == TakeBlock(g, class, b, size)
  <2>3. Sound(g, H) /\ Keeps(h, g, H)
    BY RefilledIs
  <2>4. /\ b \notin H /\ b \in Nat /\ Sound(k, More(H, b)) /\ Keeps(g, k, H)
        /\ k.prefix[b].requested_size = size
    BY <2>3, TakeBlockIs
  <2>5. t[1] = k /\ t[2] = b
    BY <2>2
  <2> HIDE DEF k
  <2>6. Keeps(h, k, H)
    BY <2>3, <2>4, KeepsTwice
  <2> QED BY <2>4, <2>5, <2>6 DEF GetsBlock
<1> HIDE DEF Takes
<1>3. /\ h.free_lists[class] = {} => "ENOMEM" \in ErrorsOf(h, size)
      /\ MayFail({"unlock"}) => "lock error" \in ErrorsOf(h, size)
      /\ MayFail({"lock"}) => "lock error" \in ErrorsOf(h, size)
  BY DEF ErrorsOf, Errors, MayFail
<1>4. CASE \E t \in Takes : o = Success(t[1], t[2] + offset)
  <2>1. PICK t \in Takes : o = Success(t[1], t[2] + offset)
    BY <1>4
  <2>2. o.heap = t[1] /\ o.payload = t[2] + offset
    BY <2>1 DEF Success
  <2> QED BY <1>2, <2>2 DEF AllocationOutcome
<1>5. CASE /\ MayFail({"unlock"})
           /\ \E t \in Takes : o = Failure([t[1] EXCEPT !.lost = @ \cup {t[2]}], "lock error")
  <2>1. PICK t \in Takes : o = Failure([t[1] EXCEPT !.lost = @ \cup {t[2]}], "lock error")
    BY <1>5
  <2> DEFINE k == t[1]
             b == t[2]
             g == Lose(k, b)
  <2>2. o = Failure(g, "lock error")
    BY <2>1 DEF Lose
  <2>3. b \notin H /\ Sound(k, More(H, b)) /\ Keeps(h, k, H)
    BY <1>2 DEF GetsBlock
  <2> HIDE DEF k, b
  <2>4. Less(More(H, b), b) = H /\ b \in More(H, b)
    BY <2>3, LessMore
  <2>5. Sound(g, H) /\ Keeps(k, g, H)
    BY <2>3, <2>4, LoseIs
  <2> HIDE DEF g
  <2>6. Keeps(h, g, H)
    BY <2>3, <2>5, KeepsTwice
  <2> QED BY <1>3, <1>5, <2>2, <2>5, <2>6, FailureIs
<1>6. Keeps(h, h, H)
  BY KeepsSame
<1>7. CASE h.free_lists[class] = {} /\ o = Failure(h, "ENOMEM")
  BY <1>3, <1>6, <1>7, FailureIs
<1>8. CASE MayFail({"lock"}) /\ o = Failure(h, "lock error")
  BY <1>3, <1>6, <1>8, FailureIs
<1> QED BY <1>1, <1>4, <1>5, <1>7, <1>8

\* Every outcome of allocate_large.
LEMMA LargeOutcome ==
    ASSUME NEW h, NEW H, Sound(h, H), NEW size \in Size, ClassAsked(size) = Invalid,
           NEW o \in allocate_large(h, size)
    PROVE  AllocationOutcome(h, H, size, o)
<1> DEFINE layout == large_layout_compute(size, page_size)
           length == layout.mapping_length
<1>1. CASE o = Failure(h, "ENOMEM")
  <2>1. Keeps(h, h, H) /\ "ENOMEM" \in ErrorsOf(h, size)
    BY KeepsSame, NoClassError
  <2> QED BY <1>1, <2>1, FailureIs
<1>2. CASE o # Failure(h, "ENOMEM")
  <2>1. layout # Invalid
    BY <1>2 DEF allocate_large
  <2>2. PICK base \in Bases(h, length) :
           o = Success(InitBlocks(os_map(h, base, length), {base},
                                  [kind |-> "large", owner |-> base, length |-> length,
                                   requested_size |-> size,
                                   capacity |-> length - layout.payload_offset]),
                       base + offset)
    BY <1>2, <2>1 DEF allocate_large
  <2>3. length \in Nat
    BY <2>1, HeapFacts, LargeFits
  <2>4. base \in Nat /\ base % page_size = 0
    BY <2>3, BasesAre
  <2>5. /\ layout.payload_offset = offset /\ offset \in Nat /\ sizeof_block <= offset
        /\ offset + size <= length /\ (base + offset) % HPLF_PAYLOAD_ALIGNMENT = 0
    BY <2>1, <2>4, LargeInMemory
  <2>6. size \in Nat
    BY SizeIsNat
  <2> HIDE DEF layout
  <2> DEFINE g == LargeHeap(h, base, length, size)
  <2>7. o = Success(g, base + offset)
    BY <2>2, <2>5 DEF LargeHeap, LargeFields
  <2>8. /\ base \notin H /\ base \in Nat /\ Sound(g, More(H, base)) /\ Keeps(h, g, H)
        /\ g.prefix[base].requested_size = size
    <3> HIDE DEF length
    <3> QED BY <2>3, <2>5, <2>6, LargeHeapIs
  <2> HIDE DEF g
  <2>9. o.heap = g /\ o.payload = base + offset
    BY <2>7 DEF Success
  <2> QED BY <2>8, <2>9 DEF AllocationOutcome, GetsBlock
<1> QED BY <1>1, <1>2

\* Every outcome of malloc: a new block of the size, or the old heap and an error.
LEMMA MallocOutcome ==
    ASSUME NEW h, NEW H, Sound(h, H), NEW size \in Size, NEW o \in malloc(h, size)
    PROVE  AllocationOutcome(h, H, size, o)
<1>0. Keeps(h, h, H)
  BY KeepsSame
<1>1. CASE size = 0
  <2>1. o = Success(h, NULL)
    BY <1>1 DEF malloc
  <2>2. o.heap = h /\ o.payload = NULL
    BY <2>1 DEF Success
  <2> QED BY <1>0, <1>1, <2>2 DEF AllocationOutcome
<1>2. CASE size # 0 /\ size > PTRDIFF_MAX
  <2>1. o = Failure(h, "ENOMEM")
    BY <1>2 DEF malloc
  <2>2. "ENOMEM" \in ErrorsOf(h, size)
    BY <1>2, NoClassError DEF ClassAsked
  <2> QED BY <1>0, <2>1, <2>2, FailureIs
<1>3. CASE size # 0 /\ ~ size > PTRDIFF_MAX
  <2>1. SmallestClass(size, size_class_for(size)) /\ ClassAsked(size) = size_class_for(size)
    BY <1>3, ClassIsTight DEF ClassAsked
  <2>2. CASE size_class_for(size) # Invalid
    <3> DEFINE class == size_class_for(size)
    <3>1. o \in allocate_small(h, size, class)
      BY <1>3, <2>2 DEF malloc
    <3>2. /\ class \in Class /\ size <= capacities[class] /\ size \in Nat
          /\ class = ClassAsked(size) /\ class # Invalid
      BY <2>1, <2>2, SizeIsNat DEF SmallestClass
    <3> HIDE DEF class
    <3> QED BY <3>1, <3>2, SmallOutcome
  <2>3. CASE size_class_for(size) = Invalid
    <3>1. o \in allocate_large(h, size)
      BY <1>3, <2>3 DEF malloc
    <3> QED BY <2>1, <2>3, <3>1, LargeOutcome
  <2> QED BY <2>2, <2>3
<1> QED BY <1>1, <1>2, <1>3

-----------------------------------------------------------------------------
(***************************************************************************)
(* Payloads: calloc's memset, what callers write, realloc's memcpy.        *)
(***************************************************************************)

\* The first n bytes of a payload.
LEMMA PayloadIs ==
    ASSUME NEW h, NEW H, Sound(h, H), NEW b \in H, NEW n \in Nat, n <= h.prefix[b].capacity
    PROVE  /\ offset \in Nat /\ b + offset \in Nat /\ (b + offset) - offset = b
           /\ \A a : a \in Bytes(b + offset, n) <=>
                  a \in Int /\ b + offset <= a /\ a < (b + offset) + n
           /\ Bytes(b + offset, n) \subseteq Bytes(b + offset, h.prefix[b].capacity)
           /\ Bytes(b + offset, n) \subseteq Ext(h, b)
           /\ Bytes(b + offset, n) \subseteq DOMAIN h.mem
<1>0. b \in DOMAIN h.prefix /\ b \in Nat /\ BlockOK(h, b) /\ HeapType(h) /\ Structure(h)
  BY HeldIs DEF Sound
<1>1. offset \in Nat /\ h.prefix[b].capacity \in Nat
  BY <1>0, FieldTypes DEF BlockOK
<1>2. b + offset \in Nat /\ (b + offset) - offset = b
  BY <1>0, <1>1
<1> DEFINE p == b + offset
           cap == h.prefix[b].capacity
<1>3. Bytes(p, cap) \subseteq Ext(h, b)
  BY <1>0, InExtent
<1>4. Ext(h, b) \subseteq DOMAIN h.mem
  BY <1>0, InMemory
<1> HIDE DEF p, cap
<1>5. p \in Int /\ cap \in Int /\ n <= cap /\ n \in Int
  BY <1>1, <1>2 DEF p, cap
<1>6. /\ \A a : a \in Bytes(p, n) <=> a \in Int /\ p <= a /\ a < p + n
      /\ \A a : a \in Bytes(p, cap) <=> a \in Int /\ p <= a /\ a < p + cap
  BY <1>5, BytesAre
<1>7. Bytes(p, n) \subseteq Bytes(p, cap)
  BY <1>5, <1>6
<1>8. Bytes(p, n) \subseteq Ext(h, b) /\ Bytes(p, n) \subseteq DOMAIN h.mem
  BY <1>3, <1>4, <1>7
<1> QED BY <1>1, <1>2, <1>6, <1>7, <1>8 DEF p, cap

\* What a block may be asked to hold.
LEMMA RequestIs ==
    ASSUME NEW h, NEW H, Sound(h, H), NEW b \in H
    PROVE  /\ h.prefix[b].requested_size \in Nat /\ h.prefix[b].capacity \in Nat
           /\ h.prefix[b].requested_size <= h.prefix[b].capacity
<1>0. b \in DOMAIN h.prefix /\ BlockOK(h, b) /\ HeapType(h)
  BY HeldIs
<1> QED BY <1>0, FieldTypes DEF BlockOK

\* A write to the first n bytes of a payload.
LEMMA WriteInPayload ==
    ASSUME NEW h, NEW H, Sound(h, H), NEW b \in H, NEW n \in Nat, n <= h.prefix[b].capacity,
           NEW v
    PROVE  LET g == Write(h, Bytes(b + offset, n), v)
           IN  /\ Sound(g, H) /\ Keeps(h, g, Less(H, b)) /\ g.prefix = h.prefix
               /\ g.errno = h.errno
               /\ \A a \in Bytes(b + offset, n) : g.mem[a] = v
<1> DEFINE S == Bytes(b + offset, n)
           g == Write(h, S, v)
<1>0. IsHeap(h)
  BY HeldIs
<1>1. S \subseteq Bytes(b + offset, h.prefix[b].capacity) /\ S \subseteq DOMAIN h.mem
  BY PayloadIs
<1> HIDE DEF S
<1>2. SameButMem(h, g) /\ g.mem = Overlay(h.mem, S, v)
  BY <1>0, WriteIs
<1> HIDE DEF g
<1>3. /\ DOMAIN g.mem = DOMAIN h.mem
      /\ \A a \in S : g.mem[a] = v
      /\ \A a \in DOMAIN h.mem : a \notin S => g.mem[a] = h.mem[a]
  BY <1>1, <1>2 DEF Overlay
<1>4. WritesPayload(h, g, b)
  BY <1>1, <1>2, <1>3 DEF WritesPayload
<1>5. Sound(g, H) /\ Keeps(h, g, Less(H, b)) /\ g.prefix = h.prefix /\ g.errno = h.errno
  BY <1>4, PayloadWrite
<1> QED BY <1>3, <1>5 DEF g, S

\* An allocation that succeeds gets a block that calloc can clear.
LEMMA CallocOutcome ==
    ASSUME NEW h, NEW H, Sound(h, H), NEW n \in Size, NEW size \in Size,
           NEW o \in calloc(h, n, size)
    PROVE  /\ AllocationOutcome(h, H, n * size, o)
           /\ o.payload # NULL => \A a \in Bytes(o.payload, n * size) : o.heap.mem[a] = 0
<1> DEFINE total == size_multiply(n, size)
<1>0. n \in Nat /\ size \in Nat /\ Keeps(h, h, H)
  BY KeepsSame, SizeIsNat
<1>1. CASE n = 0 \/ size = 0
  <2>1. o = Success(h, NULL)
    BY <1>1 DEF calloc
  <2>2. o.heap = h /\ o.payload = NULL
    BY <2>1 DEF Success
  <2>3. n * size = 0
    BY <1>0, <1>1
  <2> QED BY <1>0, <2>2, <2>3 DEF AllocationOutcome
<1>2. CASE ~ (n = 0 \/ size = 0) /\ total = Invalid
  <2>1. o = Failure(h, "ENOMEM")
    BY <1>2 DEF calloc
  <2>2. o.payload = NULL
    BY <2>1 DEF Failure
  <2>3. AllocationOutcome(h, H, n * size, o)
    <3> DEFINE t == n * size
    <3>1. ClassAsked(t) = Invalid
      <4>1. t \in Nat /\ ~ t <= SIZE_MAX
        <5>1. t \in Nat
          BY <1>0
        <5>2. total = Exact(t)
          BY MultiplyExact
        <5> HIDE DEF t, total
        <5>3. Exact(t) = Invalid
          BY <1>2, <5>2
        <5>4. t \in 0..SIZE_MAX => t # Invalid
          BY SizeIsNat DEF Size
        <5> QED BY <5>1, <5>3, <5>4, SizeIsNat DEF Exact
      <4> HIDE DEF t
      <4>2. SIZE_MAX \in Nat /\ PTRDIFF_MAX \in Nat /\ PTRDIFF_MAX <= SIZE_MAX
        BY SizeIsNat, HeapAssumption DEF Size
      <4> QED BY <4>1, <4>2 DEF ClassAsked
    <3> HIDE DEF t
    <3>2. AllocationOutcome(h, H, t, o)
      BY <1>0, <2>1, <3>1, FailureIs, NoClassError
    <3> QED BY <3>2 DEF t
  <2> QED BY <2>2, <2>3
<1>3. CASE ~ (n = 0 \/ size = 0) /\ total # Invalid
  <2>1. total = n * size /\ total \in Size /\ total \in Nat
    <3>1. total = Exact(n * size)
      BY MultiplyExact
    <3>2. total = n * size /\ n * size <= SIZE_MAX
      BY <1>3, <3>1 DEF Exact
    <3>3. n * size \in Nat
      BY <1>0
    <3> QED BY <3>2, <3>3, SizeIsNat DEF Size
  <2>2. PICK q \in malloc(h, total) :
           o = IF q.payload = NULL THEN q
               ELSE [q EXCEPT !.heap = Write(@, Bytes(q.payload, total), 0)]
    BY <1>3 DEF calloc
  <2>3. q = [heap |-> q.heap, payload |-> q.payload]
    <3>1. \A g, p, e : /\ Success(g, p) = [heap |-> Success(g, p).heap,
                                           payload |-> Success(g, p).payload]
                       /\ Failure(g, e) = [heap |-> Failure(g, e).heap,
                                           payload |-> Failure(g, e).payload]
      BY DEF Success, Failure
    <3>2. \/ \E g, p : q = Success(g, p)
          \/ \E g, e : q = Failure(g, e)
      BY DEF malloc, allocate_small, allocate_large
    <3> QED BY <3>1, <3>2
  <2> HIDE DEF total
  <2>4. AllocationOutcome(h, H, total, q)
    BY <2>1, MallocOutcome
  <2>5. CASE q.payload = NULL
    BY <2>1, <2>2, <2>4, <2>5
  <2>6. CASE q.payload # NULL
    <3>1. PICK b : q.payload = b + offset /\ GetsBlock(h, H, q.heap, b, total)
      BY <2>4, <2>6 DEF AllocationOutcome
    <3> DEFINE k == q.heap
               K == More(H, b)
               g == Write(k, Bytes(b + offset, total), 0)
    <3>2. /\ b \notin H /\ b \in Nat /\ Sound(k, K) /\ Keeps(h, k, H)
          /\ k.prefix[b].requested_size = total
      BY <3>1 DEF GetsBlock
    <3>3. o = [q EXCEPT !.heap = Write(@, Bytes(q.payload, total), 0)]
      BY <2>2, <2>6
    <3>4. o.heap = g /\ o.payload = b + offset
      BY <2>3, <3>1, <3>3
    <3>5. Less(K, b) = H /\ b \in K
      BY <3>2, LessMore
    <3> HIDE DEF K, k
    <3>6. total <= k.prefix[b].capacity
      BY <3>2, <3>5, RequestIs
    <3>7. /\ Sound(g, K) /\ Keeps(k, g, H) /\ g.prefix = k.prefix
          /\ \A a \in Bytes(b + offset, total) : g.mem[a] = 0
      BY <2>1, <3>2, <3>5, <3>6, WriteInPayload
    <3> HIDE DEF g
    <3>8. Keeps(h, g, H)
      BY <3>2, <3>7, KeepsTwice
    <3>9. GetsBlock(h, H, g, b, total)
      BY <3>2, <3>7, <3>8 DEF GetsBlock, K
    <3>10. AllocationOutcome(h, H, total, o)
      BY <3>4, <3>9 DEF AllocationOutcome
    <3> QED BY <2>1, <3>4, <3>7, <3>10
  <2> QED BY <2>5, <2>6
<1> QED BY <1>1, <1>2, <1>3

\* The block goes back, or is lost; errno stays.
LEMMA FreeOutcome ==
    ASSUME NEW h, NEW H, Sound(h, H), NEW b \in H, NEW p, p = b + offset, NEW g \in free(h, p)
    PROVE  Sound(g, Less(H, b)) /\ Keeps(h, g, Less(H, b)) /\ g.errno = h.errno
<1>0. h.prefix[b].capacity \in Nat
  BY RequestIs
<1>1. p \in Nat /\ p - offset = b
  <2>1. 0 \in Nat /\ 0 <= h.prefix[b].capacity
    BY <1>0
  <2> QED BY <2>1, PayloadIs
<1>2. p # NULL
  BY <1>1, HeapFacts
<1>3. \/ g = Lose(h, b)
      \/ /\ h.prefix[b].kind = "large"
         /\ g = os_unmap(h, h.prefix[b].owner, h.prefix[b].length)
      \/ h.prefix[b].kind # "large" /\ g = Release(h, b)
  BY <1>1, <1>2 DEF free, Release
<1>4. CASE g = Lose(h, b)
  BY <1>4, LoseIs
<1>5. CASE /\ h.prefix[b].kind = "large"
           /\ g = os_unmap(h, h.prefix[b].owner, h.prefix[b].length)
  BY <1>5, UnmapIs
<1>6. CASE h.prefix[b].kind # "large" /\ g = Release(h, b)
  BY <1>6, ReleaseIs
<1> QED BY <1>3, <1>4, <1>5, <1>6

\* A copy into a payload changes that payload only.
LEMMA CopyIs ==
    ASSUME NEW h, NEW H, Sound(h, H), NEW b \in H, NEW n \in Nat, n <= h.prefix[b].capacity,
           NEW from
    PROVE  LET g == CopyPayload(h, from, b + offset, n)
           IN  /\ Sound(g, H) /\ Keeps(h, g, Less(H, b)) /\ g.prefix = h.prefix
               /\ \A a \in Bytes(b + offset, n) : g.mem[a] = h.mem[from + a - (b + offset)]
<1> DEFINE to == b + offset
           S == Bytes(to, n)
           mem == [a \in DOMAIN h.mem |-> IF a \in S THEN h.mem[from + a - to] ELSE h.mem[a]]
           r == [mem |-> mem, prefix |-> h.prefix, slabs |-> h.slabs,
                 free_lists |-> h.free_lists, lost |-> h.lost, errno |-> h.errno]
           g == CopyPayload(h, from, to, n)
<1>0. IsHeap(h)
  BY HeldIs
<1>1. S \subseteq Bytes(b + offset, h.prefix[b].capacity) /\ S \subseteq DOMAIN h.mem
  BY PayloadIs
<1>2. g = [h EXCEPT !.mem = mem]
  BY DEF CopyPayload
<1>3. /\ DOMAIN mem = DOMAIN h.mem
      /\ \A a \in DOMAIN h.mem : a \in S => mem[a] = h.mem[from + a - to]
      /\ \A a \in DOMAIN h.mem : a \notin S => mem[a] = h.mem[a]
  OBVIOUS
<1> HIDE DEF mem, S, g
<1>4. g = r
  BY <1>0, <1>2 DEF IsHeap
<1>5. SameButMem(h, g) /\ g.mem = mem
  BY <1>4 DEF SameButMem, IsHeap
<1>6. WritesPayload(h, g, b)
  BY <1>1, <1>3, <1>5 DEF WritesPayload
<1>7. Sound(g, H) /\ Keeps(h, g, Less(H, b)) /\ g.prefix = h.prefix
  BY <1>6, PayloadWrite
<1>8. \A a \in S : g.mem[a] = h.mem[from + a - to]
  BY <1>1, <1>3, <1>5
<1> QED BY <1>7, <1>8 DEF g, S

-----------------------------------------------------------------------------
(***************************************************************************)
(* realloc, of a block that a caller holds: it fails, frees the block, or  *)
(* yields a block, the same or another, with the bytes that both have.     *)
(***************************************************************************)

\* A realloc that fails: every block is kept, the old one too.
ReallocFails(h, H, size, o) ==
    /\ size # 0 /\ o.payload = NULL /\ Sound(o.heap, H) /\ Keeps(h, o.heap, H)
    /\ o.heap.errno \in ErrorsOf(h, size)

\* A realloc to size 0: the block is gone.
ReallocFrees(h, H, b, size, o) ==
    /\ size = 0 /\ o.payload = NULL /\ Sound(o.heap, Less(H, b))
    /\ Keeps(h, o.heap, Less(H, b))

\* A realloc that yields block d, b itself or another, with the first bytes of b.
ReallocYields(h, H, b, size, o, d) ==
    /\ size # 0 /\ o.payload = d + offset /\ d \in Nat /\ d \notin Less(H, b)
    /\ Sound(o.heap, More(Less(H, b), d)) /\ Keeps(h, o.heap, Less(H, b))
    /\ o.heap.prefix[d].requested_size = size
    /\ \A i \in Nat : i < Lesser(h.prefix[b].requested_size, size) =>
           o.heap.mem[(d + offset) + i] = h.mem[(b + offset) + i]

\* What realloc promises of an outcome.
ReallocOutcome(h, H, b, size, o) ==
    \/ ReallocFails(h, H, size, o)
    \/ ReallocFrees(h, H, b, size, o)
    \/ \E d : ReallocYields(h, H, b, size, o, d)

\* The number of bytes copied is within both sizes.
LEMMA LesserIs ==
    ASSUME NEW m \in Nat, NEW n \in Nat
    PROVE  Lesser(m, n) \in Nat /\ Lesser(m, n) <= m /\ Lesser(m, n) <= n
BY DEF Lesser

\* The block is retained.
LEMMA RetainOutcome ==
    ASSUME NEW h, NEW H, Sound(h, H), NEW b \in H, NEW size \in Size, size # 0,
           realloc_can_retain(h, b, size), NEW o, o = Success(Retain(h, b, size), b + offset)
    PROVE  ReallocYields(h, H, b, size, o, b)
<1> DEFINE g == Retain(h, b, size)
<1>0. b \in DOMAIN h.prefix /\ b \in Nat /\ BlockOK(h, b) /\ HeapType(h) /\ size \in Nat
  BY HeldIs, SizeIsNat
<1>1. size <= h.prefix[b].capacity
  <2>1. CASE h.prefix[b].kind = "small"
    <3>1. size_class_for(size) # Invalid
      BY <2>1 DEF realloc_can_retain
    <3>2. size_class_for(size) = h.slabs[h.prefix[b].owner].class
      BY <2>1 DEF realloc_can_retain
    <3>3. SmallestClass(size, size_class_for(size))
      BY ClassIsTight
    <3>4. size <= capacities[h.slabs[h.prefix[b].owner].class]
      BY <3>1, <3>2, <3>3 DEF SmallestClass
    <3>5. h.prefix[b].capacity = capacities[h.slabs[h.prefix[b].owner].class]
      BY <1>0, <2>1 DEF BlockOK
    <3> QED BY <3>4, <3>5
  <2>2. CASE h.prefix[b].kind # "small"
    BY <2>2 DEF realloc_can_retain
  <2> QED BY <2>1, <2>2
<1>2. /\ Sound(g, H) /\ Keeps(h, g, Less(H, b)) /\ g.mem = h.mem
      /\ g.prefix[b].requested_size = size
  BY <1>0, <1>1, RetainIs
<1> HIDE DEF g
<1>3. o.heap = g /\ o.payload = b + offset
  BY DEF Success, g
<1>4. More(Less(H, b), b) = H /\ b \notin Less(H, b)
  BY DEF More, Less
<1> QED BY <1>0, <1>2, <1>3, <1>4 DEF ReallocYields

\* The block moves: its bytes are copied before it is freed.
LEMMA MoveOutcome ==
    ASSUME NEW h, NEW H, Sound(h, H), NEW b \in H, NEW size \in Size, size # 0,
           NEW k, NEW d, GetsBlock(h, H, k, d, size),
           NEW n, n = Lesser(h.prefix[b].requested_size, size),
           NEW g \in free(CopyPayload(k, b + offset, d + offset, n), b + offset),
           NEW o, o = Success(g, d + offset)
    PROVE  ReallocYields(h, H, b, size, o, d)
<1> DEFINE K == More(H, d)
           c == CopyPayload(k, b + offset, d + offset, n)
<1>0. /\ d \notin H /\ d \in Nat /\ Sound(k, K) /\ Keeps(h, k, H)
      /\ k.prefix[d].requested_size = size
  BY DEF GetsBlock
<1>1. d # b /\ b \in K /\ d \in K /\ Less(K, d) = H /\ Less(K, b) = More(Less(H, b), d)
  BY <1>0 DEF More, Less
<1> HIDE DEF K
<1>2. size \in Nat /\ h.prefix[b].requested_size \in Nat
  BY RequestIs, SizeIsNat
<1>3. n \in Nat /\ n <= h.prefix[b].requested_size /\ n <= size
  BY <1>2, LesserIs
<1>4. n <= h.prefix[b].capacity /\ n <= k.prefix[d].capacity
  <2>1. /\ h.prefix[b].requested_size <= h.prefix[b].capacity
        /\ h.prefix[b].capacity \in Nat
    BY RequestIs
  <2>2. size <= k.prefix[d].capacity /\ k.prefix[d].capacity \in Nat
    BY <1>0, <1>1, RequestIs
  <2> QED BY <1>2, <1>3, <2>1, <2>2
<1>5. /\ Sound(c, K) /\ Keeps(k, c, H) /\ c.prefix = k.prefix
      /\ \A a \in Bytes(d + offset, n) : c.mem[a] = k.mem[b + offset + a - (d + offset)]
  BY <1>0, <1>1, <1>3, <1>4, CopyIs
<1>6. g \in free(c, b + offset)
  OBVIOUS
<1> HIDE DEF c
<1>7. Sound(g, Less(K, b)) /\ Keeps(c, g, Less(K, b))
  BY <1>1, <1>5, <1>6, FreeOutcome
<1>8. Keeps(h, g, Less(H, b))
  <2> DEFINE L == Less(H, b)
  <2>1. L \subseteq H /\ L \subseteq Less(K, b)
    BY <1>1 DEF Less, More
  <2> HIDE DEF L
  <2>2. Keeps(h, k, L) /\ Keeps(k, c, L) /\ Keeps(c, g, L)
    BY <1>0, <1>5, <1>7, <2>1, KeepsFewer
  <2>3. Keeps(h, g, L)
    BY <2>2, KeepsTwice
  <2> QED BY <2>3 DEF L
<1>9. d \in Less(K, b)
  BY <1>1 DEF Less
<1>10. /\ g.prefix[d].requested_size = size
       /\ \A a \in Ext(c, d) : g.mem[a] = c.mem[a]
  BY <1>0, <1>5, <1>7, <1>9 DEF Keeps
<1>11. ASSUME NEW i \in Nat, i < n
       PROVE  g.mem[(d + offset) + i] = h.mem[(b + offset) + i]
  <2>1. /\ offset \in Nat /\ b + offset \in Nat
        /\ \A a : a \in Bytes(b + offset, n) <=>
               a \in Int /\ b + offset <= a /\ a < (b + offset) + n
        /\ Bytes(b + offset, n) \subseteq Ext(h, b)
    BY <1>3, <1>4, PayloadIs
  <2>2. n <= c.prefix[d].capacity
    BY <1>4, <1>5
  <2>3. /\ d + offset \in Nat
        /\ \A a : a \in Bytes(d + offset, n) <=>
               a \in Int /\ d + offset <= a /\ a < (d + offset) + n
        /\ Bytes(d + offset, n) \subseteq Ext(c, d)
    BY <1>1, <1>3, <1>5, <2>2, PayloadIs
  <2> DEFINE p == b + offset
             q == d + offset
             a == q + i
  <2> HIDE DEF p, q
  <2>4. p \in Nat /\ q \in Nat
    BY <2>1, <2>3 DEF p, q
  <2>5. a \in Int /\ q <= a /\ a < q + n /\ p + i \in Int /\ p <= p + i /\ p + i < p + n
    BY <1>3, <1>11, <2>4
  <2>6. a \in Bytes(d + offset, n) /\ p + i \in Bytes(b + offset, n)
    BY <2>1, <2>3, <2>5 DEF p, q
  <2>7. g.mem[a] = c.mem[a]
    BY <1>10, <2>3, <2>6
  <2>8. c.mem[a] = k.mem[p + a - q]
    BY <1>5, <2>6 DEF p, q
  <2>9. p + a - q = p + i
    BY <2>4
  <2>10. k.mem[p + i] = h.mem[p + i]
    BY <1>0, <2>1, <2>6 DEF Keeps
  <2>11. g.mem[q + i] = h.mem[p + i]
    BY <2>7, <2>8, <2>9, <2>10
  <2> QED BY <2>11 DEF p, q
<1>12. o.heap = g /\ o.payload = d + offset
  BY DEF Success
<1>13. d \notin Less(H, b)
  BY <1>0 DEF Less
<1> QED BY <1>0, <1>1, <1>7, <1>8, <1>10, <1>11, <1>12, <1>13 DEF ReallocYields

\* Every outcome of realloc of a block.
LEMMA ReallocIs ==
    ASSUME NEW h, NEW H, Sound(h, H), NEW b \in H, NEW p, p = b + offset, NEW size \in Size,
           NEW o \in realloc(h, p, size)
    PROVE  ReallocOutcome(h, H, b, size, o)
<1>0. Keeps(h, h, H)
  BY KeepsSame
<1>1. p \in Nat /\ p - offset = b
  <2>1. 0 \in Nat /\ 0 <= h.prefix[b].capacity
    BY RequestIs
  <2> QED BY <2>1, PayloadIs
<1>2. p # NULL
  BY <1>1, HeapFacts
<1>3. CASE size = 0
  <2>1. PICK g \in free(h, p) : o = Success(g, NULL)
    BY <1>2, <1>3 DEF realloc
  <2>2. Sound(g, Less(H, b)) /\ Keeps(h, g, Less(H, b))
    BY FreeOutcome
  <2>3. o.heap = g /\ o.payload = NULL
    BY <2>1 DEF Success
  <2> QED BY <1>3, <2>2, <2>3 DEF ReallocOutcome, ReallocFrees
<1>4. ASSUME size # 0, AllocationOutcome(h, H, size, o), o.payload = NULL
      PROVE  ReallocFails(h, H, size, o)
  <2>1. offset \in Nat
    <3>1. 0 \in Nat /\ 0 <= h.prefix[b].capacity
      BY RequestIs
    <3> QED BY <3>1, PayloadIs
  <2>2. \A d \in Nat : d + offset # NULL
    BY <2>1, HeapFacts
  <2> QED BY <1>4, <2>2 DEF AllocationOutcome, GetsBlock, ReallocFails
<1>5. CASE size # 0 /\ size > PTRDIFF_MAX
  <2>1. o = Failure(h, "ENOMEM")
    BY <1>2, <1>5 DEF realloc
  <2>2. AllocationOutcome(h, H, size, o)
    <3>1. "ENOMEM" \in ErrorsOf(h, size)
      BY <1>5, NoClassError DEF ClassAsked
    <3> QED BY <1>0, <2>1, <3>1, FailureIs
  <2>3. o.payload = NULL
    BY <2>1 DEF Failure
  <2> QED BY <1>4, <1>5, <2>2, <2>3 DEF ReallocOutcome
<1>6. CASE size # 0 /\ ~ size > PTRDIFF_MAX /\ realloc_can_retain(h, b, size)
  <2>1. o = Success(Retain(h, b, size), b + offset)
    BY <1>1, <1>2, <1>6 DEF realloc, Retain
  <2>2. ReallocYields(h, H, b, size, o, b)
    BY <1>6, <2>1, RetainOutcome
  <2> QED BY <2>2 DEF ReallocOutcome
<1>7. CASE size # 0 /\ ~ size > PTRDIFF_MAX /\ ~ realloc_can_retain(h, b, size)
  <2> DEFINE n == Lesser(h.prefix[b].requested_size, size)
             moved(q) == {Success(g, q.payload) :
                             g \in free(CopyPayload(q.heap, p, q.payload, n), p)}
  <2>1. o \in UNION {IF q.payload = NULL THEN {q} ELSE moved(q) : q \in malloc(h, size)}
    BY <1>1, <1>2, <1>7 DEF realloc
  <2>2. PICK q \in malloc(h, size) : o \in IF q.payload = NULL THEN {q} ELSE moved(q)
    BY <2>1
  <2>3. AllocationOutcome(h, H, size, q)
    BY MallocOutcome
  <2>4. CASE q.payload = NULL
    BY <1>4, <1>7, <2>2, <2>3, <2>4 DEF ReallocOutcome
  <2>5. CASE q.payload # NULL
    <3>1. PICK d : q.payload = d + offset /\ GetsBlock(h, H, q.heap, d, size)
      BY <2>3, <2>5 DEF AllocationOutcome
    <3> DEFINE k == q.heap
    <3>2. PICK g \in free(CopyPayload(k, p, q.payload, n), p) : o = Success(g, q.payload)
      BY <2>2, <2>5
    <3>3. /\ g \in free(CopyPayload(k, b + offset, d + offset, n), b + offset)
          /\ o = Success(g, d + offset) /\ GetsBlock(h, H, k, d, size)
      BY <3>1, <3>2
    <3> HIDE DEF k
    <3>4. ReallocYields(h, H, b, size, o, d)
      BY <1>7, <3>3, MoveOutcome
    <3> QED BY <3>4 DEF ReallocOutcome
  <2> QED BY <2>4, <2>5
<1> QED BY <1>3, <1>5, <1>6, <1>7

-----------------------------------------------------------------------------
(***************************************************************************)
(* What callers know.                                                      *)
(***************************************************************************)

\* A payload a caller knows is that of a block the caller holds.
LEMMA KnownHeld ==
    ASSUME NEW h, NEW known, Sound(h, Held(known)), KnownOK(h, known), NEW p \in DOMAIN known
    PROVE  /\ p \in Nat /\ p # NULL /\ p - offset \in Held(known) /\ p - offset \in Nat
           /\ offset \in Nat /\ p = (p - offset) + offset /\ KnownAt(h, p, known[p])
<1>1. p \in Nat /\ KnownAt(h, p, known[p]) /\ p - offset \in Held(known)
  BY DEF KnownOK, Held
<1> DEFINE H == Held(known)
           b == p - offset
<1> HIDE DEF H
<1>2. Sound(h, H) /\ b \in H
  BY <1>1 DEF H
<1>3. b \in Nat /\ BlockOK(h, b)
  BY <1>2, HeldIs
<1>4. offset \in Nat
  BY <1>3 DEF BlockOK
<1> QED BY <1>1, <1>3, <1>4, HeapFacts

\* What is known of a block that a step keeps stays true.
LEMMA KnownAtKept ==
    ASSUME NEW h, NEW H, Sound(h, H), NEW b \in H, NEW p, p = b + offset, NEW k,
           KnownAt(h, p, k), NEW g, NEW K, Keeps(h, g, K), b \in K
    PROVE  KnownAt(g, p, k)
<1>1. /\ h.prefix[b].requested_size \in Nat /\ h.prefix[b].capacity \in Nat
      /\ h.prefix[b].requested_size <= h.prefix[b].capacity
  BY RequestIs
<1>2. p - offset = b
  <2>1. 0 \in Nat /\ 0 <= h.prefix[b].capacity
    BY <1>1
  <2> QED BY <2>1, PayloadIs
<1>3. /\ k.bytes \in Nat /\ k = Known(k.bytes, k.fill)
      /\ k.bytes <= h.prefix[b].requested_size
      /\ \A a \in Bytes(p, k.bytes) : h.mem[a] = k.fill
  BY <1>2 DEF KnownAt
<1>4. k.bytes <= h.prefix[b].capacity
  BY <1>1, <1>3
<1>5. Bytes(p, k.bytes) \subseteq Ext(h, b)
  BY <1>3, <1>4, PayloadIs
<1>6. g.prefix[b] = h.prefix[b] /\ \A a \in Ext(h, b) : g.mem[a] = h.mem[a]
  BY DEF Keeps
<1> QED BY <1>2, <1>3, <1>5, <1>6 DEF KnownAt

\* Part of what callers know is still true if the blocks that it is about are kept.
LEMMA KnownRest ==
    ASSUME NEW h, NEW known, Sound(h, Held(known)), KnownOK(h, known), NEW g, NEW K,
           Keeps(h, g, K), NEW rest, DOMAIN rest \subseteq DOMAIN known,
           rest = [p \in DOMAIN rest |-> known[p]],
           \A p \in DOMAIN rest : p - offset \in K
    PROVE  KnownOK(g, rest)
<1>1. ASSUME NEW p \in DOMAIN rest PROVE KnownAt(g, p, rest[p])
  <2>1. p \in DOMAIN known /\ rest[p] = known[p]
    OBVIOUS
  <2> DEFINE b == p - offset
             H == Held(known)
  <2>2. b \in H /\ p = b + offset /\ KnownAt(h, p, known[p])
    BY <2>1, KnownHeld
  <2>3. b \in K /\ Sound(h, H)
    OBVIOUS
  <2> HIDE DEF H, b
  <2>4. KnownAt(g, p, known[p])
    BY <2>2, <2>3, KnownAtKept
  <2> QED BY <2>1, <2>4
<1>2. DOMAIN rest \subseteq Nat
  BY DEF KnownOK
<1>3. rest = [p \in DOMAIN rest |-> rest[p]]
  OBVIOUS
<1> QED BY <1>1, <1>2, <1>3 DEF KnownOK

\* What callers know stays true when a step keeps all their blocks.
LEMMA KnownSame ==
    ASSUME NEW h, NEW known, Sound(h, Held(known)), KnownOK(h, known), NEW g,
           Keeps(h, g, Held(known))
    PROVE  KnownOK(g, known)
<1> DEFINE K == Held(known)
<1>1. known = [p \in DOMAIN known |-> known[p]]
  BY DEF KnownOK
<1>2. \A p \in DOMAIN known : p - offset \in K
  BY DEF Held
<1>3. Keeps(h, g, K) /\ DOMAIN known \subseteq DOMAIN known
  OBVIOUS
<1> HIDE DEF K
<1> QED BY <1>1, <1>2, <1>3, KnownRest

\* A payload less.
LEMMA KnownLess ==
    ASSUME NEW h, NEW known, Sound(h, Held(known)), KnownOK(h, known), NEW p \in DOMAIN known,
           NEW g, Keeps(h, g, Less(Held(known), p - offset))
    PROVE  /\ KnownOK(g, Without(known, {p}))
           /\ Held(Without(known, {p})) = Less(Held(known), p - offset)
<1> DEFINE rest == Without(known, {p})
           K == Less(Held(known), p - offset)
<1>1. \A q \in DOMAIN known : q \in Nat /\ offset \in Nat /\ q - offset \in Held(known)
  BY KnownHeld
<1>2. DOMAIN rest = DOMAIN known \ {p} /\ rest = [q \in DOMAIN rest |-> known[q]]
  BY DEF Without
<1> HIDE DEF rest
<1>3. \A q \in DOMAIN rest : q - offset # p - offset /\ q \in DOMAIN known
  BY <1>1, <1>2
<1>4. \A q \in DOMAIN rest : q - offset \in K
  BY <1>1, <1>3 DEF Less
<1>5. Held(rest) = K
  <2>1. \A b \in K : \E q \in DOMAIN rest : b = q - offset
    <3> SUFFICES ASSUME NEW b \in K PROVE \E q \in DOMAIN rest : b = q - offset
      OBVIOUS
    <3>1. PICK q \in DOMAIN known : b = q - offset
      BY DEF Less, Held
    <3>2. q # p
      BY <3>1 DEF Less
    <3> QED BY <1>2, <3>1, <3>2
  <2> QED BY <1>4, <2>1 DEF Held
<1>6. Keeps(h, g, K)
  OBVIOUS
<1> HIDE DEF K
<1>7. KnownOK(g, rest)
  <2>1. DOMAIN rest \subseteq DOMAIN known
    BY <1>2
  <2> QED BY <1>2, <1>4, <1>6, <2>1, KnownRest
<1> QED BY <1>5, <1>7 DEF rest, K

\* A payload more.
LEMMA KnownMore ==
    ASSUME NEW g, NEW known, KnownOK(g, known), NEW b \in Nat, offset \in Nat, NEW p,
           p = b + offset, NEW k, KnownAt(g, p, k)
    PROVE  /\ KnownOK(g, Overlay(known, {p}, k))
           /\ Held(Overlay(known, {p}, k)) = More(Held(known), b)
<1> DEFINE all == Overlay(known, {p}, k)
<1>1. /\ DOMAIN all = {p} \cup DOMAIN known /\ all = [q \in DOMAIN all |-> all[q]]
      /\ all[p] = k /\ \A q \in DOMAIN known : q # p => all[q] = known[q]
  BY DEF Overlay
<1> HIDE DEF all
<1>2. p \in Nat /\ p - offset = b
  OBVIOUS
<1>3. /\ DOMAIN all \subseteq Nat
      /\ \A q \in DOMAIN all : KnownAt(g, q, all[q])
  BY <1>1, <1>2 DEF KnownOK
<1>4. KnownOK(g, all)
  BY <1>1, <1>3 DEF KnownOK
<1>5. Held(all) = More(Held(known), b)
  <2>1. \A x : x \in Held(all) <=> \E q \in DOMAIN all : x = q - offset
    BY DEF Held
  <2>2. \A x : x \in Held(known) <=> \E q \in DOMAIN known : x = q - offset
    BY DEF Held
  <2>3. \A x : x \in Held(all) <=> x \in Held(known) \/ x = b
    BY <1>1, <1>2, <2>1, <2>2
  <2> QED BY <2>3 DEF More
<1> QED BY <1>4, <1>5 DEF all

\* A caller knows what it was told of a block that it gets.
LEMMA AllocationKnown ==
    ASSUME NEW h, NEW known, Sound(h, Held(known)), KnownOK(h, known), NEW size \in Nat, NEW o,
           AllocationOutcome(h, Held(known), size, o), NEW n \in Nat, n <= size, NEW fill,
           n # 0 /\ o.payload # NULL => \A a \in Bytes(o.payload, n) : o.heap.mem[a] = fill,
           NEW k, k = Known(n, fill), NEW all,
           all = IF o.payload = NULL THEN known ELSE Overlay(known, {o.payload}, k)
    PROVE  /\ Sound(o.heap, Held(all)) /\ KnownOK(o.heap, all)
           /\ size # 0 /\ o.payload = NULL => o.heap.errno \in ErrorsOf(h, size)
<1> DEFINE H == Held(known)
           g == o.heap
           p == o.payload
<1>1. CASE /\ p = NULL /\ Sound(g, H) /\ Keeps(h, g, H)
           /\ size # 0 => g.errno \in ErrorsOf(h, size)
  BY <1>1, KnownSame
<1>2. CASE \E b : p = b + offset /\ GetsBlock(h, H, g, b, size)
  <2>1. PICK b : p = b + offset /\ GetsBlock(h, H, g, b, size)
    BY <1>2
  <2>2. /\ b \notin H /\ b \in Nat /\ Sound(g, More(H, b)) /\ Keeps(h, g, H)
        /\ g.prefix[b].requested_size = size
    BY <2>1 DEF GetsBlock
  <2>3. b \in More(H, b)
    BY DEF More
  <2>4. offset \in Nat /\ p \in Nat /\ p - offset = b
    <3>1. 0 \in Nat /\ 0 <= g.prefix[b].capacity
      BY <2>2, <2>3, RequestIs
    <3> QED BY <2>1, <2>2, <2>3, <3>1, PayloadIs
  <2>5. p # NULL
    BY <2>4, HeapFacts
  <2>6. KnownAt(g, p, k)
    <3>1. k.bytes = n /\ k.fill = fill /\ k = Known(k.bytes, k.fill)
      BY DEF Known
    <3>2. n = 0 => \A a : a \notin Bytes(p, n)
      BY <2>4, BytesAre
    <3>3. \A a \in Bytes(p, n) : g.mem[a] = fill
      BY <2>5, <3>2
    <3> QED BY <2>2, <2>4, <3>1, <3>3 DEF KnownAt
  <2>7. KnownOK(g, known)
    BY <2>2, KnownSame
  <2>8. KnownOK(g, all) /\ Held(all) = More(H, b)
    BY <2>1, <2>2, <2>4, <2>5, <2>6, <2>7, KnownMore
  <2> QED BY <2>2, <2>5, <2>8
<1> QED BY <1>1, <1>2 DEF AllocationOutcome

-----------------------------------------------------------------------------
(***************************************************************************)
(* The calls.                                                              *)
(***************************************************************************)

\* What a call does: it keeps the invariant, and errno and the result of a trim are what
\* the header promises.
CallOK ==
    /\ Sound(heap', Held(live')) /\ KnownOK(heap', live')
    /\ answer'.function = "free" => heap'.errno = heap.errno
    /\ answer'.failed => heap'.errno \in Errors(heap, answer'.class)
    /\ answer'.function = "trim" =>
           answer'.released = Cardinality(DOMAIN heap.mem) - Cardinality(DOMAIN heap'.mem)

\* A call other than a free or a trim, which fails with an error.
LEMMA AnswerIs ==
    ASSUME NEW function \in {"malloc", "calloc", "write"}, NEW size, NEW payload,
           Answer(function, size, payload),
           size # 0 /\ payload = NULL => heap'.errno \in ErrorsOf(heap, size),
           Sound(heap', Held(live')), KnownOK(heap', live')
    PROVE  CallOK
<1>1. /\ answer'.function = function
      /\ answer'.failed = (size # 0 /\ payload = NULL)
      /\ answer'.failed => answer'.class = ClassAsked(size)
  BY DEF Answer
<1>2. answer'.function # "free" /\ answer'.function # "trim"
  BY <1>1
<1>3. answer'.failed => heap'.errno \in Errors(heap, answer'.class)
  BY <1>1 DEF ErrorsOf
<1> QED BY <1>2, <1>3 DEF CallOK

\* What callers pass fits in a size_t.
LEMMA RequestsAreSizes ==
    /\ \A size \in Requests : size \in Size /\ size \in Nat
    /\ \A n \in Counts : n \in Size /\ n \in Nat
BY HeapAssumption, SizeIsNat

\* A malloc.
LEMMA MallocStep ==
    ASSUME NEW size \in Requests, IInv, MallocCall(size)
    PROVE  CallOK
<1>1. PICK o \in malloc(heap, size) :
         /\ heap' = o.heap /\ live' = Holds(o.payload, Known(0, 0))
         /\ Answer("malloc", size, o.payload)
  BY DEF MallocCall
<1>2. Sound(heap, Held(live)) /\ KnownOK(heap, live) /\ size \in Size /\ size \in Nat
  BY RequestsAreSizes DEF IInv
<1>3. AllocationOutcome(heap, Held(live), size, o)
  BY <1>2, MallocOutcome
<1> DEFINE k == Known(0, 0)
           all == IF o.payload = NULL THEN live ELSE Overlay(live, {o.payload}, k)
<1>4. k = Known(0, 0) /\ 0 \in Nat /\ 0 <= size
  BY <1>2
<1> HIDE DEF k, all
<1>5. all = IF o.payload = NULL THEN live ELSE Overlay(live, {o.payload}, k)
  BY DEF all
<1>6. /\ Sound(o.heap, Held(all)) /\ KnownOK(o.heap, all)
      /\ size # 0 /\ o.payload = NULL => o.heap.errno \in ErrorsOf(heap, size)
  BY <1>2, <1>3, <1>4, <1>5, AllocationKnown
<1>7. live' = all
  BY <1>1, <1>4, <1>5 DEF Holds
<1> QED BY <1>1, <1>6, <1>7, AnswerIs

\* A calloc, whose bytes the caller knows to be 0.
LEMMA CallocStep ==
    ASSUME NEW n \in Counts, NEW size \in Requests, IInv, CallocCall(n, size)
    PROVE  CallOK
<1> DEFINE total == n * size
           k == Known(total, 0)
<1>1. PICK o \in calloc(heap, n, size) :
         /\ heap' = o.heap /\ live' = Holds(o.payload, k)
         /\ Answer("calloc", total, o.payload)
  BY DEF CallocCall
<1>2. Sound(heap, Held(live)) /\ KnownOK(heap, live) /\ size \in Size /\ n \in Size
  BY RequestsAreSizes DEF IInv
<1>3. total \in Nat /\ total <= total
  BY RequestsAreSizes
<1>4. /\ AllocationOutcome(heap, Held(live), total, o)
      /\ o.payload # NULL => \A a \in Bytes(o.payload, total) : o.heap.mem[a] = 0
  BY <1>2, CallocOutcome
<1> HIDE DEF total
<1> DEFINE all == IF o.payload = NULL THEN live ELSE Overlay(live, {o.payload}, k)
<1>5. k = Known(total, 0)
  OBVIOUS
<1> HIDE DEF k, all
<1>6. all = IF o.payload = NULL THEN live ELSE Overlay(live, {o.payload}, k)
  BY DEF all
<1>7. /\ Sound(o.heap, Held(all)) /\ KnownOK(o.heap, all)
      /\ total # 0 /\ o.payload = NULL => o.heap.errno \in ErrorsOf(heap, total)
  BY <1>2, <1>3, <1>4, <1>5, <1>6, AllocationKnown
<1>8. live' = all
  BY <1>1, <1>6 DEF Holds
<1> QED BY <1>1, <1>7, <1>8, AnswerIs

\* A write of a caller to its payload.
LEMMA WriteStep ==
    ASSUME NEW p \in DOMAIN live, NEW fill \in Fills, IInv, CallerWrites(p, fill)
    PROVE  CallOK
<1> DEFINE b == p - offset
           H == Held(live)
           n == heap.prefix[b].requested_size
           g == Write(heap, Bytes(p, n), fill)
           k == Known(n, fill)
<1>1. /\ heap' = g /\ live' = [live EXCEPT ![p] = k] /\ Answer("write", n, p)
  BY DEF CallerWrites
<1>2. Sound(heap, H) /\ KnownOK(heap, live)
  BY DEF IInv
<1>3. p \in Nat /\ p # NULL /\ b \in H /\ b \in Nat /\ offset \in Nat /\ p = b + offset
  BY <1>2, KnownHeld
<1>4. n \in Nat /\ n <= heap.prefix[b].capacity
  BY <1>2, <1>3, RequestIs
<1>5. /\ Sound(g, H) /\ Keeps(heap, g, Less(H, b)) /\ g.prefix = heap.prefix
      /\ \A a \in Bytes(p, n) : g.mem[a] = fill
  BY <1>2, <1>3, <1>4, WriteInPayload
<1>6. k.bytes = n /\ k.fill = fill /\ k = Known(k.bytes, k.fill)
  BY DEF Known
<1> HIDE DEF g, k
<1>7. KnownAt(g, p, k)
  BY <1>4, <1>5, <1>6 DEF KnownAt
<1>8. /\ DOMAIN live' = DOMAIN live /\ live'[p] = k
      /\ \A q \in DOMAIN live : q # p => live'[q] = live[q]
      /\ live' = [q \in DOMAIN live' |-> live'[q]]
  BY <1>1
<1>9. Held(live') = H
  BY <1>8 DEF Held
<1>10. KnownOK(g, live')
  <2> DEFINE rest == Without(live, {p})
  <2>1. KnownOK(g, rest)
    BY <1>2, <1>5, KnownLess
  <2>2. \A q \in DOMAIN live : q # p => q \in DOMAIN rest /\ rest[q] = live[q]
    BY DEF Without
  <2> HIDE DEF rest
  <2>3. \A q \in DOMAIN live' : KnownAt(g, q, live'[q])
    BY <1>7, <1>8, <2>1, <2>2 DEF KnownOK
  <2> QED BY <1>2, <1>8, <2>3 DEF KnownOK
<1> HIDE DEF H, n, b
<1>11. Sound(heap', Held(live')) /\ KnownOK(heap', live')
  BY <1>1, <1>5, <1>9, <1>10
<1> QED BY <1>1, <1>3, <1>11, AnswerIs

\* A free, which loses the block if the lock or the unmapping fails.
LEMMA FreeStep ==
    ASSUME NEW p \in DOMAIN live \cup {NULL}, IInv, FreeCall(p)
    PROVE  CallOK
<1>1. PICK g \in free(heap, p) :
         heap' = g /\ live' = Without(live, {p}) /\ Answer("free", 0, NULL)
  BY DEF FreeCall
<1>2. Sound(heap, Held(live)) /\ KnownOK(heap, live)
  BY DEF IInv
<1>3. answer'.function = "free" /\ ~ answer'.failed
  BY <1>1 DEF Answer
<1>4. CASE p = NULL
  <2>1. g = heap
    BY <1>4 DEF free
  <2>2. NULL \notin DOMAIN live /\ live = [q \in DOMAIN live |-> live[q]]
    BY <1>2, HeapFacts DEF KnownOK
  <2>3. Without(live, {p}) = live
    BY <1>4, <2>2 DEF Without
  <2>4. heap' = heap /\ live' = live
    BY <1>1, <2>1, <2>3
  <2> QED BY <1>2, <1>3, <2>4 DEF CallOK
<1>5. CASE p \in DOMAIN live
  <2> DEFINE b == p - offset
             H == Held(live)
             rest == Without(live, {p})
  <2>1. b \in H /\ p = b + offset
    BY <1>2, <1>5, KnownHeld
  <2>2. Sound(g, Less(H, b)) /\ Keeps(heap, g, Less(H, b)) /\ g.errno = heap.errno
    BY <1>2, <2>1, FreeOutcome
  <2>3. KnownOK(g, rest) /\ Held(rest) = Less(H, b)
    BY <1>2, <1>5, <2>2, KnownLess
  <2> HIDE DEF b, H, rest
  <2>4. live' = rest
    BY <1>1 DEF rest
  <2> QED BY <1>1, <1>3, <2>2, <2>3, <2>4 DEF CallOK
<1> QED BY <1>4, <1>5

\* A realloc of NULL is a malloc.
LEMMA ReallocNullStep ==
    ASSUME NEW size \in Requests, IInv, ReallocCall(NULL, size)
    PROVE  CallOK
<1> DEFINE rest == Without(live, {NULL})
           k == Known(0, 0)
<1>1. PICK o \in realloc(heap, NULL, size) :
         /\ heap' = o.heap
         /\ live' = IF size # 0 /\ o.payload = NULL THEN live
                    ELSE IF o.payload = NULL THEN rest ELSE Overlay(rest, {o.payload}, k)
         /\ Answer("malloc", size, o.payload)
  BY DEF ReallocCall, Kept
<1>2. Sound(heap, Held(live)) /\ KnownOK(heap, live) /\ size \in Size /\ size \in Nat
  BY RequestsAreSizes DEF IInv
<1>3. o \in malloc(heap, size)
  BY DEF realloc
<1>4. rest = live
  <2>1. NULL \notin DOMAIN live /\ live = [q \in DOMAIN live |-> live[q]]
    BY <1>2, HeapFacts DEF KnownOK
  <2> QED BY <2>1 DEF Without
<1> HIDE DEF rest
<1>5. AllocationOutcome(heap, Held(live), size, o)
  BY <1>2, <1>3, MallocOutcome
<1> DEFINE all == IF o.payload = NULL THEN live ELSE Overlay(live, {o.payload}, k)
<1>6. k = Known(0, 0) /\ 0 \in Nat /\ 0 <= size
  BY <1>2
<1> HIDE DEF k, all
<1>7. all = IF o.payload = NULL THEN live ELSE Overlay(live, {o.payload}, k)
  BY DEF all
<1>8. /\ Sound(o.heap, Held(all)) /\ KnownOK(o.heap, all)
      /\ size # 0 /\ o.payload = NULL => o.heap.errno \in ErrorsOf(heap, size)
  BY <1>2, <1>5, <1>6, <1>7, AllocationKnown
<1>9. live' = all
  BY <1>1, <1>4, <1>7
<1> QED BY <1>1, <1>8, <1>9, AnswerIs

\* A realloc of a block: failed, to size 0, in place or by moving.
LEMMA ReallocStep ==
    ASSUME NEW p \in DOMAIN live, NEW size \in Requests, IInv, ReallocCall(p, size)
    PROVE  CallOK
<1> DEFINE rest == Without(live, {p})
           b == p - offset
           H == Held(live)
           kept == Kept(p, size)
<1>1. PICK o \in realloc(heap, p, size) :
         /\ heap' = o.heap
         /\ live' = IF size # 0 /\ o.payload = NULL THEN live
                    ELSE IF o.payload = NULL THEN rest ELSE Overlay(rest, {o.payload}, kept)
         /\ Answer("malloc", size, o.payload)
  BY DEF ReallocCall
<1>2. Sound(heap, H) /\ KnownOK(heap, live) /\ size \in Size /\ size \in Nat
  BY RequestsAreSizes DEF IInv
<1>3. /\ p \in Nat /\ p # NULL /\ b \in H /\ b \in Nat /\ offset \in Nat /\ p = b + offset
      /\ KnownAt(heap, p, live[p])
  BY <1>2, KnownHeld
<1>4. ReallocOutcome(heap, H, b, size, o)
  BY <1>2, <1>3, ReallocIs
<1> DEFINE g == o.heap
<1>5. ASSUME Keeps(heap, g, Less(H, b)) PROVE KnownOK(g, rest) /\ Held(rest) = Less(H, b)
  BY <1>2, <1>5, KnownLess
<1>6. CASE ReallocFails(heap, H, size, o)
  <2>1. KnownOK(g, live)
    BY <1>2, <1>6, KnownSame DEF ReallocFails
  <2>2. live' = live
    BY <1>1, <1>6 DEF ReallocFails
  <2>3. /\ Sound(heap', Held(live')) /\ KnownOK(heap', live')
        /\ heap'.errno \in ErrorsOf(heap, size)
    BY <1>1, <1>6, <2>1, <2>2 DEF ReallocFails
  <2> QED BY <1>1, <2>3, AnswerIs
<1>7. CASE ReallocFrees(heap, H, b, size, o)
  <2>1. KnownOK(g, rest) /\ Held(rest) = Less(H, b)
    BY <1>5, <1>7 DEF ReallocFrees
  <2>2. live' = rest /\ Sound(g, Less(H, b)) /\ size = 0
    BY <1>1, <1>7 DEF ReallocFrees
  <2> HIDE DEF rest
  <2>3. Sound(heap', Held(live')) /\ KnownOK(heap', live')
    BY <1>1, <2>1, <2>2
  <2> QED BY <1>1, <2>2, <2>3, AnswerIs
<1>8. CASE \E d : ReallocYields(heap, H, b, size, o, d)
  <2>1. PICK d : ReallocYields(heap, H, b, size, o, d)
    BY <1>8
  <2> DEFINE q == d + offset
             L == Less(H, b)
             m == Lesser(live[p].bytes, size)
  <2>2. /\ size # 0 /\ o.payload = q /\ d \in Nat
        /\ Sound(g, More(L, d)) /\ Keeps(heap, g, L)
        /\ g.prefix[d].requested_size = size
        /\ \A i \in Nat : i < Lesser(heap.prefix[b].requested_size, size) =>
               g.mem[q + i] = heap.mem[(b + offset) + i]
    BY <2>1 DEF ReallocYields
  <2>3. KnownOK(g, rest) /\ Held(rest) = L
    BY <1>5, <2>2
  <2>4. /\ live[p].bytes \in Nat /\ live[p] = Known(live[p].bytes, live[p].fill)
        /\ live[p].bytes <= heap.prefix[b].requested_size
        /\ \A a \in Bytes(p, live[p].bytes) : heap.mem[a] = live[p].fill
    BY <1>3 DEF KnownAt
  <2>5. kept.bytes = m /\ kept.fill = live[p].fill /\ kept = Known(kept.bytes, kept.fill)
    BY <1>3, <2>4 DEF Kept, Known
  <2>6. q \in Nat /\ q # NULL /\ q - offset = d
    BY <1>3, <2>2, HeapFacts
  <2>7. /\ m \in Nat /\ m <= size /\ m <= live[p].bytes
        /\ m <= Lesser(heap.prefix[b].requested_size, size)
        /\ Lesser(heap.prefix[b].requested_size, size) \in Nat
    <3>1. heap.prefix[b].requested_size \in Nat
      BY <1>2, <1>3, RequestIs
    <3> QED BY <1>2, <2>4, <3>1 DEF Lesser
  <2> HIDE DEF m, q, kept, rest, L
  <2>8. ASSUME NEW a \in Bytes(q, m) PROVE g.mem[a] = kept.fill
    <3> DEFINE i == a - q
    <3>1. a \in Int /\ q <= a /\ a < q + m
      BY <2>6, <2>7, BytesAre
    <3>2. i \in Nat /\ i < m /\ q + i = a
      BY <2>6, <2>7, <3>1
    <3>3. g.mem[q + i] = heap.mem[p + i]
      BY <1>3, <2>2, <2>7, <3>2
    <3>4. p + i \in Bytes(p, live[p].bytes)
      <4>1. p + i \in Int /\ p <= p + i /\ p + i < p + live[p].bytes
        BY <1>3, <2>4, <2>7, <3>2
      <4> QED BY <1>3, <2>4, <4>1, BytesAre
    <3>5. heap.mem[p + i] = live[p].fill
      BY <2>4, <3>4
    <3> QED BY <2>5, <3>2, <3>3, <3>5
  <2>9. KnownAt(g, q, kept)
    BY <2>2, <2>5, <2>6, <2>7, <2>8 DEF KnownAt
  <2> DEFINE all == Overlay(rest, {q}, kept)
  <2>10. KnownOK(g, all) /\ Held(all) = More(Held(rest), d)
    BY <1>3, <2>2, <2>3, <2>9, KnownMore DEF q
  <2> HIDE DEF all
  <2>11. live' = all
    BY <1>1, <2>2, <2>6 DEF all
  <2>12. Sound(heap', Held(live')) /\ KnownOK(heap', live')
    BY <1>1, <2>2, <2>3, <2>10, <2>11
  <2> QED BY <1>1, <2>2, <2>6, <2>12, AnswerIs
<1> QED BY <1>4, <1>6, <1>7, <1>8 DEF ReallocOutcome

\* What is left of a finite set when a part goes.
LEMMA RestCounts ==
    ASSUME NEW A, IsFiniteSet(A), NEW gone, NEW B,
           \A x : x \in A <=> x \in gone \/ x \in B, \A x \in gone : x \notin B
    PROVE  Cardinality(gone) = Cardinality(A) - Cardinality(B)
<1>1. /\ Cardinality(gone) \in Nat /\ Cardinality(B) \in Nat
      /\ Cardinality(A) = Cardinality(gone) + Cardinality(B)
  BY DisjointSets
<1> QED BY <1>1

\* A trim, whichever slabs it manages to unmap.
LEMMA TrimStep ==
    ASSUME IInv, TrimCall
    PROVE  CallOK
<1>1. PICK o \in trim_quiescent(heap) :
         /\ heap' = o.heap /\ UNCHANGED live
         /\ answer' = [function |-> "trim", failed |-> FALSE, class |-> Invalid,
                       released |-> o.released]
  BY DEF TrimCall
<1>2. Sound(heap, Held(live)) /\ KnownOK(heap, live) /\ Structure(heap)
  BY DEF IInv, Sound
<1>3. PICK unmapped \in SUBSET WhollyFree(heap), error \in {heap.errno, "unmap error"} :
         o = [heap |-> [UnmapSlabs(heap, unmapped) EXCEPT !.errno = error],
              released |-> ReleasedTotal(heap, unmapped)]
  BY DEF trim_quiescent
<1> DEFINE k == UnmapSlabs(heap, unmapped)
           g == SetErrno(k, error)
           gone == BytesOf(heap, unmapped)
           H == Held(live)
<1>4. o.heap = g /\ o.released = ReleasedTotal(heap, unmapped)
  BY <1>3 DEF SetErrno
<1>5. /\ Sound(k, H) /\ Keeps(heap, k, H)
      /\ DOMAIN k.mem = DOMAIN heap.mem \ gone /\ gone \subseteq DOMAIN heap.mem
  BY <1>2, UnmapSlabsIs
<1> HIDE DEF k
<1>6. Sound(g, H) /\ Keeps(k, g, H) /\ g.mem = k.mem
  BY <1>5, ErrnoIs
<1> HIDE DEF g, H, gone
<1>7. Keeps(heap, g, H)
  BY <1>5, <1>6, KeepsTwice
<1>8. KnownOK(g, live)
  BY <1>2, <1>7, KnownSame DEF H
<1>9. o.released = Cardinality(gone)
  <2>1. unmapped \subseteq DOMAIN heap.slabs
    BY DEF WhollyFree
  <2> QED BY <1>2, <1>4, <2>1, ReleasedTotalIs DEF gone
<1>10. Cardinality(gone) = Cardinality(DOMAIN heap.mem) - Cardinality(DOMAIN g.mem)
  <2>1. \A x : x \in DOMAIN heap.mem <=> x \in gone \/ x \in DOMAIN g.mem
    BY <1>5, <1>6
  <2>2. \A x \in gone : x \notin DOMAIN g.mem
    BY <1>5, <1>6
  <2>3. IsFiniteSet(DOMAIN heap.mem)
    BY <1>2, FiniteMemory
  <2> QED BY <2>1, <2>2, <2>3, RestCounts
<1>11. live' = live /\ heap' = g
  BY <1>1, <1>4
<1>12. answer'.function = "trim" /\ ~ answer'.failed /\ answer'.released = o.released
  BY <1>1
<1> QED BY <1>6, <1>8, <1>9, <1>10, <1>11, <1>12 DEF CallOK, H

\* Every call.
LEMMA NextStep ==
    ASSUME IInv, Next
    PROVE  CallOK
<1>1. CASE \E size \in Requests : MallocCall(size)
  BY <1>1, MallocStep
<1>2. CASE \E n \in Counts, size \in Requests : CallocCall(n, size)
  BY <1>2, CallocStep
<1>3. CASE \E p \in DOMAIN live \cup {NULL} : FreeCall(p)
  BY <1>3, FreeStep
<1>4. CASE \E p \in DOMAIN live, fill \in Fills : CallerWrites(p, fill)
  BY <1>4, WriteStep
<1>5. CASE \E p \in DOMAIN live \cup {NULL}, size \in Requests : ReallocCall(p, size)
  BY <1>5, ReallocStep, ReallocNullStep
<1>6. CASE TrimCall
  BY <1>6, TrimStep
<1> QED BY <1>1, <1>2, <1>3, <1>4, <1>5, <1>6 DEF Next

-----------------------------------------------------------------------------
(***************************************************************************)
(* The theorems.                                                           *)
(***************************************************************************)

\* Nothing is mapped, and nobody holds anything, before the first call.
LEMMA InitInvariant ==
    ASSUME Init
    PROVE  IInv
<1>1. /\ heap.mem = <<>> /\ heap.prefix = <<>> /\ heap.slabs = <<>> /\ live = <<>>
      /\ heap.free_lists = [c \in Class |-> {}] /\ heap.lost = {}
  BY DEF Init
<1>2. IsHeap(heap)
  BY DEF Init, IsHeap
<1>3. /\ DOMAIN heap.mem = {} /\ DOMAIN heap.prefix = {} /\ DOMAIN heap.slabs = {}
      /\ DOMAIN live = {}
  BY <1>1
<1>4. /\ heap.prefix \in [DOMAIN heap.prefix -> BlockFields]
      /\ heap.slabs \in [DOMAIN heap.slabs -> SlabFields]
      /\ live = [p \in DOMAIN live |-> live[p]]
  BY <1>1
<1>5. HeapType(heap)
  BY <1>2, <1>3, <1>4 DEF HeapType
<1>6. SlabsOK(heap) /\ BlocksOK(heap) /\ MappingsApart(heap) /\ Intact(heap)
  BY <1>3 DEF SlabsOK, BlocksOK, MappingsApart, Intact
<1>7. Covered(heap)
  BY <1>3 DEF Covered
<1>8. Accounted(heap, Held(live))
  <2>1. Held(live) = {}
    BY <1>3 DEF Held
  <2>2. FreeBlocks(heap) = {}
    BY <1>1 DEF FreeBlocks
  <2> QED BY <1>1, <1>3, <2>1, <2>2 DEF Accounted
<1>9. KnownOK(heap, live)
  BY <1>3, <1>4 DEF KnownOK
<1> QED BY <1>5, <1>6, <1>7, <1>8, <1>9 DEF IInv, Sound, Structure

\* The structure of the heap, the places of its blocks and what callers know of their
\* bytes survive every call of malloc, calloc, realloc, free and trim, whatever the
\* system answers (src/allocator.c:182-495).
THEOREM BlockInvariant == Spec => []IInv
<1>1. Init => IInv
  BY InitInvariant
<1>2. IInv /\ [Next]_vars => IInv'
  <2> SUFFICES ASSUME IInv, [Next]_vars PROVE IInv'
    OBVIOUS
  <2>1. CASE Next
    BY <2>1, NextStep DEF IInv, CallOK
  <2>2. CASE UNCHANGED vars
    BY <2>2 DEF IInv, vars
  <2> QED BY <2>1, <2>2
<1> QED BY <1>1, <1>2, PTL DEF Spec

\* What the invariant says of two blocks, a block and a header, and a payload.
LEMMA InvariantApart ==
    ASSUME IInv
    PROVE  BlocksApart
<1>1. Structure(heap)
  BY DEF IInv, Sound
<1>2. \A b \in Blocks : Extent(b) = Ext(heap, b) /\ BlockOK(heap, b)
  BY <1>1 DEF Structure, BlocksOK, Blocks, Extent, Ext
<1>3. ASSUME NEW b \in Blocks
      PROVE  Extent(b) \subseteq DOMAIN heap.mem \ Headers
  BY <1>1, <1>2, InMemory DEF Headers, Blocks
<1>4. ASSUME NEW b \in Blocks, NEW d \in Blocks, b # d
      PROVE  Extent(b) \cap Extent(d) = {}
  BY <1>1, <1>2, <1>4 DEF Structure, MappingsApart, Blocks
<1>5. ASSUME NEW b \in Blocks
      PROVE  /\ (b + offset) % HPLF_PAYLOAD_ALIGNMENT = 0
             /\ heap.prefix[b].requested_size <= heap.prefix[b].capacity
  BY <1>2 DEF BlockOK
<1> QED BY <1>3, <1>4, <1>5 DEF BlocksApart

\* Blocks never overlap and never leave mapped memory, and payloads are aligned, in an
\* address space, with pages and with size classes of any sizes (src/allocator.c:190,
\* src/slab.c:52-64).
THEOREM BlocksStayApart == Spec => []BlocksApart
<1>1. IInv => BlocksApart
  BY InvariantApart
<1> QED BY <1>1, BlockInvariant, PTL

\* No block and no mapped byte escapes the accounts, whichever call of the system fails
\* (src/allocator.c:182, :236, :350).
THEOREM HeapAlwaysAccounted == Spec => []HeapAccounted
<1>1. IInv => HeapAccounted
  <2> SUFFICES ASSUME IInv PROVE HeapAccounted
    OBVIOUS
  <2>1. Accounted(heap, Held(live)) /\ Covered(heap)
    BY DEF IInv, Sound, Structure
  <2> QED BY <2>1 DEF Accounted, Covered, HeapAccounted, Held, FreeBlocks, Blocks, SlabBytes,
                      Mapping
<1> QED BY <1>1, BlockInvariant, PTL

\* Callers' bytes, prefixes and headers keep their values, for any sizes and counts
\* that callers ask for (src/allocator.c:298, :345, :358).
THEOREM CallersBytesKept == Spec => []ContentsKept
<1>1. IInv => ContentsKept
  <2> SUFFICES ASSUME IInv PROVE ContentsKept
    OBVIOUS
  <2>1. Intact(heap) /\ KnownOK(heap, live)
    BY DEF IInv, Sound
  <2>2. \A p \in DOMAIN live : \A a \in Bytes(p, live[p].bytes) : heap.mem[a] = live[p].fill
    BY <2>1 DEF KnownOK, KnownAt
  <2>3. \A a \in Headers : heap.mem[a] = META
    BY <2>1 DEF Intact, Headers
  <2>4. \A a \in Prefixes(Blocks) : heap.mem[a] = META
    BY <2>1 DEF Intact, Prefixes, Blocks
  <2> QED BY <2>2, <2>3, <2>4 DEF ContentsKept
<1> QED BY <1>1, BlockInvariant, PTL

\* A free keeps errno, a request that fails for its size or for want of memory leaves
\* ENOMEM, and only one of a class, which takes the mutex, can leave the mutex's error,
\* and must when a block of the class was free (include/hplf/allocator.h:14, :19;
\* src/allocator.c:137, :151, :168, :185).
THEOREM ErrnoAsPromised == Spec => ErrnoContract
<1> DEFINE A == /\ answer'.function = "free" => heap'.errno = heap.errno
                /\ answer'.failed => heap'.errno \in Errors(heap, answer'.class)
<1>1. IInv /\ [Next]_vars => [A]_vars
  BY NextStep DEF CallOK
<1> QED BY <1>1, BlockInvariant, PTL DEF Spec, ErrnoContract

\* A trim returns what it unmapped: the sum it adds up slab by slab is the number of
\* bytes by which the mapped memory shrinks, and it never saturates
\* (src/allocator.c:481-495).
THEOREM TrimCountsBytes == Spec => TrimReportsBytes
<1> DEFINE A == answer'.function = "trim" =>
                   answer'.released = Cardinality(DOMAIN heap.mem) - Cardinality(DOMAIN heap'.mem)
<1>1. IInv /\ [Next]_vars => [A]_vars
  BY NextStep DEF CallOK
<1> QED BY <1>1, BlockInvariant, PTL DEF Spec, TrimReportsBytes
=============================================================================
