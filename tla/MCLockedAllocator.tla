------------------------- MODULE MCLockedAllocator -------------------------
(***************************************************************************)
(* Instances of LockedAllocator for TLC.                                   *)
(***************************************************************************)
EXTENDS LockedAllocator, TLC

Symmetry == Permutations(Thread) \cup Permutations(Class) \cup Permutations(Slab)
                \cup Permutations(Slot)
=============================================================================
