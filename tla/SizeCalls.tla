----------------------------- MODULE SizeCalls ------------------------------
(***************************************************************************)
(* Calls of the functions of SizeMath with any arguments.  A caller passes *)
(* an output object, which holds Unwritten before the call.                *)
(***************************************************************************)
EXTENDS SizeMath

CONSTANTS Unwritten

ASSUME UnwrittenAssumption == Unwritten # Invalid /\ Unwritten \notin Int

VARIABLES
    call,      \* the function and its arguments
    returned,  \* the function's result, a Boolean, or Unwritten
    output     \* the object written through the output parameter

callVars == <<call, returned, output>>

Function == {"add", "multiply", "align", "round", "class", "large", "slab"}

Call == [function : Function, left : Size, right : Size]

CallInit ==
    /\ call \in Call
    /\ returned = Unwritten
    /\ output = Unwritten

Result(c) ==
    CASE c.function = "add" -> size_add(c.left, c.right)
      [] c.function = "multiply" -> size_multiply(c.left, c.right)
      [] c.function = "align" -> size_align_up_pow2(c.left, c.right)
      [] c.function = "round" -> size_round_up_multiple(c.left, c.right)
      [] c.function = "class" -> size_class_for(c.left)
      [] c.function = "large" -> large_layout_compute(c.left, c.right)
      [] c.function = "slab" -> slab_layout_compute(c.left, c.right)

Return ==
    /\ returned = Unwritten
    /\ returned' = (Result(call) # Invalid)
    /\ output' = IF returned' THEN Result(call) ELSE output
    /\ UNCHANGED call

CallSpec == CallInit /\ [][Return]_callVars

Returned(function) == returned # Unwritten /\ call.function = function

Got == IF returned THEN output ELSE Invalid

\* Addition and multiplication return the exact result, or fail if and only if it does
\* not fit in size_t (src/checked_math.h:13-31).
ArithmeticExact ==
    /\ Returned("add") => Got = Exact(call.left + call.right)
    /\ Returned("multiply") => Got = Exact(call.left * call.right)

\* Rounding yields the least multiple, and fails only when that passes SIZE_MAX or the
\* alignment is not a power of two (src/checked_math.h:37-80).
RoundingExact ==
    /\ Returned("round") /\ call.right # 0 => RoundsUp(call.left, call.right, Got)
    /\ Returned("align") /\ IsPowerOfTwo(call.right) => RoundsUp(call.left, call.right, Got)
    /\ Returned("align") /\ ~IsPowerOfTwo(call.right) => ~returned

\* The class search finds the smallest class that fits (src/size_class.c:8-28).
ClassTight == Returned("class") => SmallestClass(call.left, Got)

\* Slabs and large blocks fit in their mappings (src/slab.h:49, src/block.h:78).
LayoutsFit ==
    /\ Returned("slab") /\ returned => SlabLayoutFits(output)
    /\ Returned("large") /\ returned => LargeLayoutFits(output, call.left, call.right)
=============================================================================
