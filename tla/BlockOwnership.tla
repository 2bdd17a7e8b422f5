-------------------------- MODULE BlockOwnership ---------------------------
(***************************************************************************)
(* What the allocator promises its callers about small blocks, whatever    *)
(* caches, transfer lists and threads it uses to keep the promise.  A slab *)
(* is a mapping cut into slots, each slot is a block, and a block is live  *)
(* from the moment an allocation returns it until it is given back.        *)
(*                                                                         *)
(*   - An allocation returns a block of a mapped slab that nobody holds.   *)
(*   - Giving a block back ends one holder's ownership and no other.       *)
(*   - A mapping serves one size class and is returned to the system only  *)
(*     when none of its blocks is live.                                    *)
(***************************************************************************)
EXTENDS Integers

CONSTANTS Slab, Slot, Class, Unmapped

VARIABLES
    live,       \* the blocks callers hold
    slab_class  \* the class a slab serves, or Unmapped

ownershipVars == <<live, slab_class>>

Block == Slab \X Slot

SlabOf(b) == b[1]

Init ==
    /\ live = {}
    /\ slab_class = [s \in Slab |-> Unmapped]

Allocate(b) ==
    /\ b \notin live
    /\ slab_class[SlabOf(b)] # Unmapped
    /\ live' = live \cup {b}
    /\ UNCHANGED slab_class

Release(b) ==
    /\ b \in live
    /\ live' = live \ {b}
    /\ UNCHANGED slab_class

MapSlab(s, c) ==
    /\ slab_class[s] = Unmapped
    /\ slab_class' = [slab_class EXCEPT ![s] = c]
    /\ UNCHANGED live

UnmapSlab(s) ==
    /\ slab_class[s] # Unmapped
    /\ \A b \in live : SlabOf(b) # s
    /\ slab_class' = [slab_class EXCEPT ![s] = Unmapped]
    /\ UNCHANGED live

Next ==
    \/ \E b \in Block : Allocate(b) \/ Release(b)
    \/ \E s \in Slab : UnmapSlab(s) \/ \E c \in Class : MapSlab(s, c)

Spec == Init /\ [][Next]_ownershipVars
=============================================================================
