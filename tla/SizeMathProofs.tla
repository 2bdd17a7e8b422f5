--------------------------- MODULE SizeMathProofs ---------------------------
(***************************************************************************)
(* The size arithmetic is exact and the layouts fit, for every width of    *)
(* size_t, every page size, alignment and table of classes.                *)
(***************************************************************************)
EXTENDS SizeCalls, WellFoundedInduction, TLAPS

(***************************************************************************)
(* Facts of integer division.                                              *)
(***************************************************************************)

LEMMA DivBound ==
    ASSUME NEW a \in Nat, NEW b \in Nat \ {0}
    PROVE  /\ a \div b \in Nat
           /\ b * (a \div b) <= a
           /\ a < b * (a \div b + 1)
OBVIOUS

LEMMA ModRange ==
    ASSUME NEW a \in Nat, NEW b \in Nat \ {0}
    PROVE  a % b \in 0..(b - 1)
OBVIOUS

LEMMA DivMod ==
    ASSUME NEW a \in Nat, NEW b \in Nat \ {0}
    PROVE  a = b * (a \div b) + (a % b)
OBVIOUS

LEMMA ProductMonotone ==
    ASSUME NEW a \in Nat, NEW b \in Nat, NEW c \in Nat, b <= c
    PROVE  a * b <= a * c
OBVIOUS

LEMMA ProductStrict ==
    ASSUME NEW a \in Nat \ {0}, NEW b \in Nat, NEW c \in Nat, a * b < a * c
    PROVE  b < c
OBVIOUS

LEMMA MultipleMod ==
    ASSUME NEW a \in Nat, NEW b \in Nat \ {0}
    PROVE  (b * a) % b = 0
<1>. DEFINE q == (b * a) \div b
            r == (b * a) % b
<1>. b * a \in Nat
  OBVIOUS
<1>1. q \in Nat /\ r \in 0..(b - 1) /\ b * a = b * q + r
  BY DivBound, ModRange, DivMod
<1>. HIDE DEF q, r
<1>2. CASE q < a
  <2>1. b * (q + 1) <= b * a
    BY <1>1, <1>2, ProductMonotone
  <2>2. b * (q + 1) = b * q + b
    BY <1>1
  <2>. QED  BY <2>1, <2>2, <1>1
<1>3. CASE q > a
  <2>1. b * (a + 1) <= b * q
    BY <1>1, <1>3, ProductMonotone
  <2>2. b * (a + 1) = b * a + b
    OBVIOUS
  <2>. QED  BY <2>1, <2>2, <1>1
<1>4. CASE q = a
  <2>1. r = 0
    BY <1>1, <1>4
  <2>. QED  BY <2>1 DEF r
<1>. QED  BY <1>1, <1>2, <1>3, <1>4

-----------------------------------------------------------------------------
(***************************************************************************)
(* checked_math.h                                                          *)
(***************************************************************************)

LEMMA SizeIsNat == SIZE_MAX \in Nat /\ Size \subseteq Nat /\ Invalid \notin Size
BY SizeAssumption DEF Size

LEMMA WrapSmall == \A n \in Size : wrap(n) = n
BY SizeAssumption DEF wrap, Size

LEMMA AddExact ==
    ASSUME NEW left \in Size, NEW right \in Size
    PROVE  size_add(left, right) = Exact(left + right)
BY SizeAssumption, WrapSmall DEF size_add, Size, Exact

LEMMA MultiplyExact ==
    ASSUME NEW left \in Size, NEW right \in Size
    PROVE  size_multiply(left, right) = Exact(left * right)
<1>. SIZE_MAX \in Nat /\ left \in Nat /\ right \in Nat /\ left * right \in Nat
  BY SizeAssumption DEF Size
<1>1. CASE left = 0
  BY <1>1, WrapSmall DEF size_multiply, Size, Exact
<1>2. CASE left # 0
  <2>. DEFINE q == SIZE_MAX \div left
  <2>1. q \in Nat /\ left * q <= SIZE_MAX /\ SIZE_MAX < left * (q + 1)
    BY <1>2, DivBound
  <2>. HIDE DEF q
  <2>2. CASE right > q
    <3>1. left * (q + 1) <= left * right
      BY <2>1, <2>2, ProductMonotone
    <3>. QED  BY <3>1, <2>1, <2>2, <1>2 DEF size_multiply, q, Exact
  <2>3. CASE right <= q
    <3>1. left * right <= left * q
      BY <2>1, <2>3, ProductMonotone
    <3>2. left * right \in Size
      BY <3>1, <2>1 DEF Size
    <3>. QED  BY <3>2, <2>1, <2>3, WrapSmall DEF size_multiply, q, Size, Exact
  <2>. QED  BY <2>1, <2>2, <2>3
<1>. QED  BY <1>1, <1>2

LEMMA RoundUpExact ==
    ASSUME NEW value \in Size, NEW multiple \in Size \ {0}
    PROVE  RoundsUp(value, multiple, size_round_up_multiple(value, multiple))
<1>. DEFINE q == value \div multiple
            r == value % multiple
<1>. SIZE_MAX \in Nat /\ value \in Nat /\ multiple \in Nat \ {0}
  BY SizeIsNat
<1>1. q \in Nat /\ r \in 0..(multiple - 1) /\ value = multiple * q + r
  BY DivBound, ModRange, DivMod
<1>. HIDE DEF q, r
<1>2. \A k \in Nat : k * multiple >= k
  OBVIOUS
<1>3. multiple * q = q * multiple /\ (q + 1) * multiple = q * multiple + multiple
  BY <1>1
<1>4. CASE r = 0
  <2>1. size_round_up_multiple(value, multiple) = value
    BY <1>4 DEF size_round_up_multiple, r
  <2>2. q \in 0..value /\ value = q * multiple
    BY <1>1, <1>2, <1>3, <1>4
  <2>. QED  BY <2>1, <2>2, SizeIsNat DEF RoundsUp, Size
<1>5. CASE r # 0
  <2>. DEFINE next == value + (multiple - r)
  <2>1. multiple - r \in Size
    BY <1>1, <1>5, SizeIsNat DEF Size
  <2>2. next = (q + 1) * multiple /\ next \in Nat
    BY <1>1, <1>3
  <2>3. size_round_up_multiple(value, multiple) = Exact(next)
    BY <1>5, <2>1, AddExact DEF size_round_up_multiple, r
  <2>4. CASE next <= SIZE_MAX
    <3>1. q + 1 \in 0..next
      BY <1>1, <1>2, <2>2
    <3>. QED  BY <3>1, <2>2, <2>3, <2>4, <1>1, <1>5, SizeIsNat DEF RoundsUp, Size, Exact
  <2>5. CASE next > SIZE_MAX
    <3>1. ASSUME NEW k \in Size, k * multiple >= value
          PROVE  k * multiple > SIZE_MAX
      <4>1. k \in Nat
        BY SizeIsNat
      <4>2. multiple * q < multiple * k
        BY <3>1, <4>1, <1>1, <1>5
      <4>3. q < k
        BY <4>1, <4>2, <1>1, ProductStrict
      <4>4. multiple * (q + 1) <= multiple * k
        BY <4>1, <4>3, <1>1, ProductMonotone
      <4>. QED  BY <4>1, <4>4, <2>2, <2>5, <1>1
    <3>. QED  BY <3>1, <2>3, <2>5, <2>2 DEF RoundsUp, Exact
  <2>. QED  BY <2>2, <2>4, <2>5
<1>. QED  BY <1>4, <1>5

LEMMA AlignUpExact ==
    ASSUME NEW value \in Size, NEW alignment \in Size \ {0}, IsPowerOfTwo(alignment)
    PROVE  RoundsUp(value, alignment, size_align_up_pow2(value, alignment))
<1>. SIZE_MAX \in Nat /\ value \in Nat /\ alignment \in Nat \ {0}
  BY SizeIsNat
<1>. DEFINE sum == value + (alignment - 1)
            q == sum \div alignment
            r == sum % alignment
<1>1. sum \in Nat
  OBVIOUS
<1>2. q \in Nat /\ r \in 0..(alignment - 1) /\ sum = alignment * q + r
  BY <1>1, DivBound, ModRange, DivMod
<1>3. CASE value <= SIZE_MAX - (alignment - 1)
  <2>1. size_align_up_pow2(value, alignment) = sum - r
    BY <1>3 DEF size_align_up_pow2
  <2>. HIDE DEF q, r
  <2>2. sum - r = q * alignment
    BY <1>2
  <2>3. q * alignment >= q
    BY <1>2
  <2>. QED  BY <2>1, <2>2, <2>3, <1>2, <1>3, SizeIsNat DEF RoundsUp, Size
<1>4. CASE value > SIZE_MAX - (alignment - 1)
  <2>. DEFINE w == (SIZE_MAX + 1) \div alignment
  <2>1. w \in Nat /\ SIZE_MAX + 1 = alignment * w + ((SIZE_MAX + 1) % alignment)
    BY DivBound, DivMod
  <2>2. SIZE_MAX + 1 = alignment * w
    BY <2>1, WordAssumption
  <2>. HIDE DEF w
  <2>3. ASSUME NEW k \in Size, k * alignment >= value
        PROVE  k * alignment > SIZE_MAX
    <3>1. k \in Nat
      BY SizeIsNat
    <3>2. alignment * w < alignment * (k + 1)
      <4>1. alignment * (k + 1) = k * alignment + alignment
        BY <3>1
      <4>. QED  BY <4>1, <2>2, <2>3, <1>4, <3>1
    <3>3. w < k + 1
      BY <2>1, <3>1, <3>2, ProductStrict
    <3>4. alignment * w <= alignment * k
      BY <2>1, <3>1, <3>3, ProductMonotone
    <3>. QED  BY <3>4, <3>1, <2>2
  <2>4. size_align_up_pow2(value, alignment) = Invalid
    BY <1>4 DEF size_align_up_pow2
  <2>. QED  BY <2>3, <2>4 DEF RoundsUp
<1>. QED  BY <1>3, <1>4

-----------------------------------------------------------------------------
(***************************************************************************)
(* size_class.c, block.h and slab.h                                        *)
(***************************************************************************)

LEMMA LeastElement ==
    ASSUME NEW T, T \subseteq Nat, T # {}
    PROVE  \E x \in T : \A y \in T : x <= y
<1>1. PICK x \in T : \A y \in T : ~(<<y, x>> \in OpToRel(<, Nat))
  BY NatLessThanWellFounded, WFMin
<1>2. \A y \in T : <<y, x>> \in OpToRel(<, Nat) <=> y < x
  BY DEF OpToRel
<1>3. \A y \in T : ~(y < x)
  BY <1>1, <1>2, Zenon
<1>. QED  BY <1>3

LEMMA ClassIsTight ==
    ASSUME NEW size \in Size
    PROVE  SmallestClass(size, size_class_for(size))
<1>. DEFINE c == size_class_for(size)
            top == class_count - 1
<1>1. Class \subseteq Nat /\ size \in Nat /\ top \in Class
  BY ClassAssumption, SizeIsNat DEF Class
<1>2. ASSUME NEW d \in Class PROVE capacities[d] \in Nat
  <2>1. capacities \in [Class -> Size \ {0}]
    BY ClassAssumption
  <2>2. capacities[d] \in Size
    BY <2>1
  <2>. QED  BY <2>2, SizeIsNat
<1>3. HPLF_MAX_SMALL_SIZE = capacities[top] /\ capacities[top] \in Nat
  BY <1>1, <1>2, ClassAssumption
<1>. HIDE DEF top
<1>4. CASE size = 0
  BY <1>4 DEF SmallestClass, size_class_for
<1>5. CASE size # 0 /\ size > HPLF_MAX_SMALL_SIZE
  <2>1. ASSUME NEW d \in Class PROVE capacities[d] < size
    <3>1. d = top \/ d < top
      BY ClassAssumption DEF Class, top
    <3>2. capacities[d] <= capacities[top]
      BY <3>1, <1>1, <1>2, ClassAssumption
    <3>. QED  BY <3>2, <1>1, <1>2, <1>3, <1>5
  <2>. QED  BY <2>1, <1>5 DEF SmallestClass, size_class_for
<1>6. CASE size # 0 /\ ~(size > HPLF_MAX_SMALL_SIZE)
  <2>1. top \in LargeEnough(size) /\ LargeEnough(size) \subseteq Nat
    <3>1. size <= capacities[top]
      BY <1>1, <1>3, <1>6
    <3>. QED  BY <3>1, <1>1 DEF LargeEnough
  <2>2. \E e \in LargeEnough(size) : \A d \in LargeEnough(size) : e <= d
    BY <2>1, LeastElement
  <2>3. c = CHOOSE e \in LargeEnough(size) : \A d \in LargeEnough(size) : e <= d
    BY <1>6 DEF size_class_for
  <2>4. c \in LargeEnough(size) /\ \A d \in LargeEnough(size) : c <= d
    BY <2>2, <2>3
  <2>. HIDE DEF c
  <2>5. c \in Class /\ size <= capacities[c] /\ c # Invalid
    BY <2>4, <2>1, SizeAssumption DEF LargeEnough
  <2>6. ASSUME NEW d \in Class, d < c PROVE capacities[d] < size
    <3>1. ~(c <= d)
      BY <2>5, <2>6, <1>1
    <3>2. d \notin LargeEnough(size)
      BY <3>1, <2>4
    <3>. QED  BY <3>2, <1>1, <1>2 DEF LargeEnough
  <2>. QED  BY <2>5, <2>6 DEF SmallestClass, c
<1>. QED  BY <1>4, <1>5, <1>6

LEMMA RoundedResult ==
    ASSUME NEW value \in Size, NEW unit \in Size \ {0}, NEW result,
           result # Invalid, RoundsUp(value, unit, result)
    PROVE  /\ result \in Size /\ value <= result
           /\ \E k \in Nat : result = k * unit
<1>1. result \in value..SIZE_MAX /\ \E k \in 0..result : result = k * unit
  BY DEF RoundsUp
<1>2. value \in Nat /\ SIZE_MAX \in Nat
  BY SizeIsNat
<1>3. \A k \in 0..result : k \in Nat
  BY <1>1, <1>2
<1>. QED  BY <1>1, <1>2, <1>3 DEF Size

LEMMA OffsetIsSize ==
    ASSUME block_payload_offset # Invalid
    PROVE  /\ block_payload_offset \in Size
           /\ sizeof_block <= block_payload_offset
           /\ \E k \in Nat : block_payload_offset = k * HPLF_PAYLOAD_ALIGNMENT
<1>1. IsPowerOfTwo(HPLF_PAYLOAD_ALIGNMENT)
  BY SizeAssumption DEF block_payload_offset, size_align_up_pow2
<1>2. RoundsUp(sizeof_block, HPLF_PAYLOAD_ALIGNMENT, block_payload_offset)
  BY <1>1, SizeAssumption, AlignUpExact DEF block_payload_offset
<1>. QED  BY <1>2, SizeAssumption, RoundedResult

LEMMA LargeFits ==
    ASSUME NEW requested_size \in Size, NEW page_size \in Size,
           large_layout_compute(requested_size, page_size) # Invalid
    PROVE  /\ LargeLayoutFits(large_layout_compute(requested_size, page_size),
                              requested_size, page_size)
           /\ large_layout_compute(requested_size, page_size) \in
                  [payload_offset : {block_payload_offset} \cap Nat, mapping_length : Nat]
<1>. DEFINE offset == block_payload_offset
            bytes == size_add(offset, requested_size)
            len == size_round_up_multiple(bytes, page_size)
            layout == large_layout_compute(requested_size, page_size)
<1>1. /\ requested_size # 0 /\ page_size # 0
      /\ offset # Invalid /\ bytes # Invalid /\ len # Invalid
      /\ layout = [payload_offset |-> offset, mapping_length |-> len]
  BY DEF large_layout_compute
<1>2. offset \in Size /\ sizeof_block <= offset
  BY <1>1, OffsetIsSize
<1>3. bytes = offset + requested_size /\ bytes \in Size
  BY <1>1, <1>2, AddExact, SizeIsNat DEF Exact, Size
<1>4. RoundsUp(bytes, page_size, len)
  BY <1>1, <1>3, RoundUpExact
<1>5. PICK k \in 0..len : len = k * page_size
  BY <1>1, <1>4 DEF RoundsUp
<1>6. len \in bytes..SIZE_MAX /\ len < bytes + page_size
  BY <1>1, <1>4 DEF RoundsUp
<1>7. len % page_size = 0
  BY <1>1, <1>5, <1>6, <1>3, MultipleMod, SizeIsNat
<1>. HIDE DEF offset, bytes, len, layout
<1>8. LargeLayoutFits(layout, requested_size, page_size)
  BY <1>1, <1>2, <1>3, <1>6, <1>7, SizeIsNat DEF LargeLayoutFits, Size
<1>9. offset \in Nat /\ len \in Nat
  BY <1>2, <1>3, <1>6, SizeIsNat DEF Size
<1>. QED  BY <1>1, <1>8, <1>9 DEF layout, offset

LEMMA SlabFits ==
    ASSUME NEW class_capacity \in Size, NEW page_size \in Size,
           slab_layout_compute(class_capacity, page_size) # Invalid
    PROVE  /\ SlabLayoutFits(slab_layout_compute(class_capacity, page_size))
           /\ slab_layout_compute(class_capacity, page_size) \in
                  [mapping_length : Nat, first_slot_offset : Nat,
                   payload_offset : {block_payload_offset} \cap Nat, slot_stride : Nat,
                   slot_count : Nat \ {0}, class_capacity : {class_capacity}]
<1>. DEFINE len == size_round_up_multiple(HPLF_SLAB_TARGET_BYTES, page_size)
            first == size_align_up_pow2(sizeof_slab, HPLF_PAYLOAD_ALIGNMENT)
            offset == block_payload_offset
            bytes == size_add(offset, class_capacity)
            stride == size_align_up_pow2(bytes, HPLF_PAYLOAD_ALIGNMENT)
            n == (len - first) \div stride
            layout == slab_layout_compute(class_capacity, page_size)
            A == HPLF_PAYLOAD_ALIGNMENT
<1>1. /\ class_capacity # 0 /\ page_size # 0
      /\ len # Invalid /\ first # Invalid /\ offset # Invalid
      /\ bytes # Invalid /\ stride # Invalid
      /\ ~(first >= len) /\ n # 0
      /\ layout = [mapping_length |-> len, first_slot_offset |-> first,
                   payload_offset |-> offset, slot_stride |-> stride,
                   slot_count |-> n, class_capacity |-> class_capacity]
  BY DEF slab_layout_compute, slot_bytes_for
<1>2. A \in Nat \ {0} /\ A \in Size \ {0} /\ IsPowerOfTwo(A)
  BY <1>1, SizeAssumption, SizeIsNat DEF size_align_up_pow2
<1>3. len \in Size
  BY <1>1, RoundUpExact, SizeAssumption, RoundedResult
<1>4. /\ first \in Size /\ sizeof_slab <= first
      /\ \E k \in Nat : first = k * A
  <2>1. RoundsUp(sizeof_slab, A, first) /\ sizeof_slab \in Size
    BY <1>2, AlignUpExact, SizeAssumption
  <2>. HIDE DEF first, A
  <2>. QED  BY <1>1, <1>2, <2>1, RoundedResult
<1>5. /\ offset \in Size /\ sizeof_block <= offset
      /\ \E k \in Nat : offset = k * A
  BY <1>1, OffsetIsSize
<1>6. bytes = offset + class_capacity /\ bytes \in Size
  BY <1>1, <1>5, AddExact, SizeIsNat DEF Exact, Size
<1>7. /\ stride \in Size /\ bytes <= stride
      /\ \E k \in Nat : stride = k * A
  BY <1>1, <1>2, <1>6, AlignUpExact, RoundedResult
<1>8. stride \in Nat \ {0}
  BY <1>1, <1>5, <1>6, <1>7, SizeIsNat DEF Size
<1>9. n \in Nat /\ stride * n <= len - first /\ len - first < stride * (n + 1)
  <2>. HIDE DEF len, first, stride
  <2>1. len - first \in Nat
    BY <1>1, <1>3, <1>4, SizeIsNat
  <2>. QED  BY <2>1, <1>8, DivBound
<1>. HIDE DEF len, first, offset, bytes, stride, n, layout, A
<1>. len \in Nat /\ first \in Nat /\ offset \in Nat /\ class_capacity \in Nat
  BY <1>3, <1>4, <1>5, SizeIsNat
<1>10. ASSUME NEW i \in 0..(n - 1)
       PROVE  /\ PayloadEnd(layout, i) <= SlotOffset(layout, i + 1)
              /\ SlotOffset(layout, i + 1) <= len
              /\ (SlotOffset(layout, i) + offset) % A = 0
  <2>. i \in Nat /\ i + 1 <= n
    BY <1>9
  <2>1. SlotOffset(layout, i) = first + i * stride
    BY <1>1 DEF SlotOffset
  <2>2. SlotOffset(layout, i + 1) = first + (i + 1) * stride
    BY <1>1 DEF SlotOffset
  <2>3. (i + 1) * stride = i * stride + stride /\ i * stride \in Nat
    BY <1>8
  <2>4. PayloadEnd(layout, i) = first + i * stride + offset + class_capacity
    BY <1>1, <2>1 DEF PayloadEnd
  <2>5. PayloadEnd(layout, i) <= SlotOffset(layout, i + 1)
    BY <2>2, <2>3, <2>4, <1>6, <1>7, <1>8
  <2>6. stride * (i + 1) <= stride * n
    BY <1>8, <1>9, ProductMonotone
  <2>7. SlotOffset(layout, i + 1) <= len
    BY <2>2, <2>6, <1>8, <1>9
  <2>8. (SlotOffset(layout, i) + offset) % A = 0
    <3>1. PICK kf \in Nat : first = kf * A
      BY <1>4
    <3>2. PICK ko \in Nat : offset = ko * A
      BY <1>5
    <3>3. PICK ks \in Nat : stride = ks * A
      BY <1>7
    <3>4. i * stride = (i * ks) * A /\ i * ks \in Nat
      BY <3>3, <1>2
    <3>5. first + i * stride + offset = A * (kf + i * ks + ko)
      BY <3>1, <3>2, <3>4, <1>2
    <3>6. (A * (kf + i * ks + ko)) % A = 0
      <4>1. kf + i * ks + ko \in Nat
        BY <3>4
      <4>. QED  BY <4>1, <1>2, MultipleMod
    <3>. QED  BY <3>5, <3>6, <2>1
  <2>. QED  BY <2>5, <2>7, <2>8
<1>11. SlotOffset(layout, n + 1) > len
  <2>1. SlotOffset(layout, n + 1) = first + (n + 1) * stride
    BY <1>1 DEF SlotOffset
  <2>. QED  BY <2>1, <1>8, <1>9
<1>12. SlabLayoutFits(layout)
  BY <1>1, <1>4, <1>5, <1>10, <1>11 DEF SlabLayoutFits, A
<1>. QED  BY <1>1, <1>8, <1>9, <1>12 DEF layout, offset

-----------------------------------------------------------------------------
(***************************************************************************)
(* The properties of the calls.                                            *)
(***************************************************************************)

CallInv ==
    /\ call \in Call
    /\ returned \in BOOLEAN \cup {Unwritten}
    /\ returned # Unwritten => Got = Result(call)
    /\ returned # Unwritten /\ returned => Result(call) # Invalid

LEMMA CallInvInvariant == CallSpec => []CallInv
<1>1. CallInit => CallInv
  BY DEF CallInit, CallInv
<1>2. CallInv /\ [Return]_callVars => CallInv'
  <2>. SUFFICES ASSUME CallInv, [Return]_callVars PROVE CallInv'
    OBVIOUS
  <2>1. CASE Return
    <3>1. returned' = (Result(call) # Invalid) /\ call' = call
          /\ output' = IF returned' THEN Result(call) ELSE output
      BY <2>1 DEF Return
    <3>2. CASE Result(call) # Invalid
      BY <3>1, <3>2 DEF CallInv, Got, Result
    <3>3. CASE Result(call) = Invalid
      BY <3>1, <3>3 DEF CallInv, Got, Result
    <3>. QED  BY <3>2, <3>3
  <2>2. CASE UNCHANGED callVars
    BY <2>2 DEF CallInv, callVars, Got, Result
  <2>. QED  BY <2>1, <2>2
<1>. QED  BY <1>1, <1>2, PTL DEF CallSpec

\* size_add and size_multiply are exact or fail, for every width of size_t.
THEOREM ArithmeticIsExact == CallSpec => []ArithmeticExact
<1>1. CallInv => ArithmeticExact
  <2>. SUFFICES ASSUME CallInv PROVE ArithmeticExact
    OBVIOUS
  <2>1. call.left \in Size /\ call.right \in Size
    BY DEF CallInv, Call
  <2>2. Returned("add") => Got = size_add(call.left, call.right)
    BY DEF CallInv, Returned, Result
  <2>3. Returned("multiply") => Got = size_multiply(call.left, call.right)
    BY DEF CallInv, Returned, Result
  <2>. QED  BY <2>1, <2>2, <2>3, AddExact, MultiplyExact DEF ArithmeticExact
<1>. QED  BY <1>1, CallInvInvariant, PTL

\* Rounding and aligning yield the least multiple or fail, for every width of size_t.
THEOREM RoundingIsExact == CallSpec => []RoundingExact
<1>1. CallInv => RoundingExact
  <2>. SUFFICES ASSUME CallInv PROVE RoundingExact
    OBVIOUS
  <2>1. call.left \in Size /\ call.right \in Size
    BY DEF CallInv, Call
  <2>2. Returned("round") => Got = size_round_up_multiple(call.left, call.right)
    BY DEF CallInv, Returned, Result
  <2>3. Returned("align") => Got = size_align_up_pow2(call.left, call.right)
    BY DEF CallInv, Returned, Result
  <2>4. IsPowerOfTwo(call.right) => call.right # 0
    BY <2>1, SizeIsNat DEF IsPowerOfTwo
  <2>5. Returned("align") /\ ~IsPowerOfTwo(call.right) => Result(call) = Invalid
    BY <2>3 DEF size_align_up_pow2, Returned, CallInv
  <2>6. Returned("align") /\ ~IsPowerOfTwo(call.right) => ~returned
    BY <2>5 DEF Returned, CallInv
  <2>. QED  BY <2>1, <2>2, <2>3, <2>4, <2>6, RoundUpExact, AlignUpExact DEF RoundingExact
<1>. QED  BY <1>1, CallInvInvariant, PTL

\* The class search finds the smallest class that fits, for every ascending table.
THEOREM ClassesAreTight == CallSpec => []ClassTight
<1>1. CallInv => ClassTight
  <2>. SUFFICES ASSUME CallInv PROVE ClassTight
    OBVIOUS
  <2>1. call.left \in Size
    BY DEF CallInv, Call
  <2>2. Returned("class") => Got = size_class_for(call.left)
    BY DEF CallInv, Returned, Result
  <2>. QED  BY <2>1, <2>2, ClassIsTight DEF ClassTight
<1>. QED  BY <1>1, CallInvInvariant, PTL

\* The layouts of slabs and large blocks fit, for every page size and alignment.
THEOREM LayoutsAlwaysFit == CallSpec => []LayoutsFit
<1>1. CallInv => LayoutsFit
  <2>. SUFFICES ASSUME CallInv PROVE LayoutsFit
    OBVIOUS
  <2>1. call.left \in Size /\ call.right \in Size
    BY DEF CallInv, Call
  <2>2. Returned("slab") => Got = slab_layout_compute(call.left, call.right)
    BY DEF CallInv, Returned, Result
  <2>3. Returned("large") => Got = large_layout_compute(call.left, call.right)
    BY DEF CallInv, Returned, Result
  <2>4. Returned("slab") /\ returned => output = Got /\ Got # Invalid
    BY DEF CallInv, Got, Returned
  <2>5. Returned("large") /\ returned => output = Got /\ Got # Invalid
    BY DEF CallInv, Got, Returned
  <2>. QED  BY <2>1, <2>2, <2>3, <2>4, <2>5, SlabFits, LargeFits DEF LayoutsFit
<1>. QED  BY <1>1, CallInvInvariant, PTL
=============================================================================
