------------------------- MODULE MCCachedAllocator -------------------------
(***************************************************************************)
(* Instances of CachedAllocator for TLC.                                   *)
(***************************************************************************)
EXTENDS CachedAllocator, TLC

\* One class of one byte, or a class of one byte and a class of two.
OneClass == 0 :> 1
TwoClasses == (0 :> 1) @@ (1 :> 2)

Symmetry == Permutations(Thread) \cup Permutations(Slab) \cup Permutations(Slot)
=============================================================================
