-------------------------- MODULE LockedAllocator --------------------------
(***************************************************************************)
(* The baseline build of src/allocator.c (without                          *)
(* HPLF_VARIANT_CACHED_MUTEX): one free list per size class, and every     *)
(* operation under the registry mutex.                                     *)
(*                                                                         *)
(* A block is a slot of a slab and a free list the set of its blocks.  A   *)
(* call that waits for the mutex takes its first step when it gets it.     *)
(***************************************************************************)
EXTENDS Integers, FiniteSets

CONSTANTS
    Thread,
    Class,
    Slab,      \* the mappings the system can provide
    Slot,      \* the slots of a slab
    None,
    OsFails    \* what the system may refuse: "lock", "unlock", "map", "unmap"

Block == Slab \X Slot

SlabOf(b) == b[1]

BlocksOf(s) == {s} \X Slot

Unmapped == None

ASSUME LockedAssumption ==
    /\ IsFiniteSet(Slab) /\ IsFiniteSet(Slot)
    /\ Slot # {}
    /\ None \notin Thread \cup Class \cup Block

VARIABLES
    slab_class,      \* the class a slab serves, or Unmapped
    slabs,           \* allocator_state.slabs, the registry
    registry_mutex,  \* its holder, or None
    free_lists,      \* allocator_state.free_lists
    pc,              \* where in a call the thread is
    cls,             \* class_index of the call
    old,             \* the block a realloc replaces, or None
    scan,            \* the slabs a trim has not looked at
    live,            \* the blocks callers hold
    dropped          \* blocks that left their list or their caller for nowhere

vars == <<slab_class, slabs, registry_mutex, free_lists, pc, cls, old, scan,
          live, dropped>>

TypeOK ==
    /\ slab_class \in [Slab -> Class \cup {Unmapped}]
    /\ slabs \subseteq Slab
    /\ registry_mutex \in Thread \cup {None}
    /\ free_lists \in [Class -> SUBSET Block]
    /\ pc \in [Thread -> {"idle", "lock", "take", "free", "trim"}]
    /\ cls \in [Thread -> Class \cup {None}]
    /\ old \in [Thread -> Block \cup {None}]
    /\ scan \in [Thread -> SUBSET Slab]
    /\ live \subseteq Block
    /\ dropped \subseteq Block

Init ==
    /\ slab_class = [s \in Slab |-> Unmapped]
    /\ slabs = {}
    /\ registry_mutex = None
    /\ free_lists = [c \in Class |-> {}]
    /\ pc = [t \in Thread |-> "idle"]
    /\ cls = [t \in Thread |-> None]
    /\ old = [t \in Thread |-> None]
    /\ scan = [t \in Thread |-> {}]
    /\ live = {}
    /\ dropped = {}

MayFail(what) == what \in OsFails

-----------------------------------------------------------------------------
(***************************************************************************)
(* hplf_malloc of a small size, also as the first half of hplf_realloc.    *)
(***************************************************************************)

MallocCall(t, c) ==
    /\ pc[t] = "idle"
    /\ pc' = [pc EXCEPT ![t] = "lock"]
    /\ cls' = [cls EXCEPT ![t] = c]
    /\ UNCHANGED <<slab_class, slabs, registry_mutex, free_lists, old, scan,
                   live, dropped>>

\* Nobody else may use a block while its holder is inside hplf_realloc.
InRealloc(b) == \E u \in Thread : old[u] = b

ReallocCall(t, b, c) ==
    /\ pc[t] = "idle"
    /\ b \in live /\ ~InRealloc(b)
    /\ slab_class[SlabOf(b)] # c
    /\ pc' = [pc EXCEPT ![t] = "lock"]
    /\ cls' = [cls EXCEPT ![t] = c]
    /\ old' = [old EXCEPT ![t] = b]
    /\ UNCHANGED <<slab_class, slabs, registry_mutex, free_lists, scan, live,
                   dropped>>

\* The call returns NULL; hplf_realloc leaves the old block to its caller.
AllocationFails(t) ==
    /\ pc' = [pc EXCEPT ![t] = "idle"]
    /\ old' = [old EXCEPT ![t] = None]

Lock(t) ==
    /\ pc[t] = "lock" /\ registry_mutex = None
    /\ registry_mutex' = t
    /\ pc' = [pc EXCEPT ![t] = "take"]
    /\ UNCHANGED <<slab_class, slabs, free_lists, cls, old, scan, live, dropped>>

LockFails(t) ==
    /\ pc[t] = "lock" /\ MayFail("lock")
    /\ AllocationFails(t)
    /\ UNCHANGED <<slab_class, slabs, registry_mutex, free_lists, cls, scan,
                   live, dropped>>

\* The list is empty: a new slab becomes the list.
CreateSlab(t, s) ==
    /\ pc[t] = "take" /\ free_lists[cls[t]] = {}
    /\ slab_class[s] = Unmapped
    /\ slab_class' = [slab_class EXCEPT ![s] = cls[t]]
    /\ slabs' = slabs \cup {s}
    /\ free_lists' = [free_lists EXCEPT ![cls[t]] = BlocksOf(s)]
    /\ UNCHANGED <<registry_mutex, pc, cls, old, scan, live, dropped>>

CreateFails(t) ==
    /\ pc[t] = "take" /\ free_lists[cls[t]] = {}
    /\ MayFail("map") \/ \A s \in Slab : slab_class[s] # Unmapped
    /\ AllocationFails(t)
    /\ registry_mutex' = None
    /\ UNCHANGED <<slab_class, slabs, free_lists, cls, scan, live, dropped>>

\* Mutant: the block is returned but stays on its list.
take_keeps_block(t, b) ==
    /\ b \in free_lists[cls[t]]
    /\ UNCHANGED free_lists

TakeFirst(t, b) ==
    /\ b \in free_lists[cls[t]]
    /\ free_lists' = [free_lists EXCEPT ![cls[t]] = @ \ {b}]

Take(t) ==
    /\ pc[t] = "take"
    /\ \E b \in Block : TakeFirst(t, b) /\ live' = live \cup {b}
    /\ registry_mutex' = None
    /\ pc' = [pc EXCEPT ![t] = IF old[t] = None THEN "idle" ELSE "free"]
    /\ UNCHANGED <<slab_class, slabs, cls, old, scan, dropped>>

\* The unlock reports an error: the call returns NULL and the block it has
\* taken is out of reach.
UnlockFails(t) ==
    /\ pc[t] = "take" /\ MayFail("unlock")
    /\ \E b \in Block : TakeFirst(t, b) /\ dropped' = dropped \cup {b}
    /\ registry_mutex' = None
    /\ AllocationFails(t)
    /\ UNCHANGED <<slab_class, slabs, cls, scan, live>>

-----------------------------------------------------------------------------
(***************************************************************************)
(* hplf_free of a small block, also as the second half of hplf_realloc.    *)
(***************************************************************************)

\* The block goes to its list, or nowhere if the lock fails.
FreeBlock(b) ==
    /\ live' = live \ {b}
    /\ \/ /\ registry_mutex = None
          /\ free_lists' = [free_lists EXCEPT ![slab_class[SlabOf(b)]] = @ \cup {b}]
          /\ UNCHANGED dropped
       \/ /\ MayFail("lock")
          /\ dropped' = dropped \cup {b}
          /\ UNCHANGED free_lists

FreeCall(t, b) ==
    /\ pc[t] = "idle"
    /\ b \in live /\ ~InRealloc(b)
    /\ FreeBlock(b)
    /\ UNCHANGED <<slab_class, slabs, registry_mutex, pc, cls, old, scan>>

FreeOld(t) ==
    /\ pc[t] = "free"
    /\ FreeBlock(old[t])
    /\ pc' = [pc EXCEPT ![t] = "idle"]
    /\ old' = [old EXCEPT ![t] = None]
    /\ UNCHANGED <<slab_class, slabs, registry_mutex, cls, scan>>

-----------------------------------------------------------------------------
(***************************************************************************)
(* hplf_trim_quiescent, whether or not other calls have stopped.           *)
(***************************************************************************)

\* It returns 0 at once when the lock fails, which changes nothing.
TrimCall(t) ==
    /\ pc[t] = "idle" /\ registry_mutex = None
    /\ registry_mutex' = t
    /\ pc' = [pc EXCEPT ![t] = "trim"]
    /\ scan' = [scan EXCEPT ![t] = slabs]
    /\ UNCHANGED <<slab_class, slabs, free_lists, cls, old, live, dropped>>

\* hplf_slab_free_count(slab, free_lists) == slab->slot_count
WhollyFree(s) ==
    Cardinality(BlocksOf(s) \cap free_lists[slab_class[s]]) = Cardinality(BlocksOf(s))

\* The slab is in use, or its unmapping fails and both structures are restored.
TrimKeep(t, s) ==
    /\ pc[t] = "trim" /\ s \in scan[t]
    /\ WhollyFree(s) => MayFail("unmap")
    /\ scan' = [scan EXCEPT ![t] = @ \ {s}]
    /\ UNCHANGED <<slab_class, slabs, registry_mutex, free_lists, pc, cls, old,
                   live, dropped>>

\* Mutant: the list keeps the blocks of the slab.
unmap_keeps_blocks(s) == UNCHANGED free_lists

DetachSlabBlocks(s) ==
    free_lists' = [free_lists EXCEPT ![slab_class[s]] = @ \ BlocksOf(s)]

TrimUnmap(t, s) ==
    /\ pc[t] = "trim" /\ s \in scan[t]
    /\ WhollyFree(s)
    /\ DetachSlabBlocks(s)
    /\ slabs' = slabs \ {s}
    /\ slab_class' = [slab_class EXCEPT ![s] = Unmapped]
    /\ scan' = [scan EXCEPT ![t] = @ \ {s}]
    /\ UNCHANGED <<registry_mutex, pc, cls, old, live, dropped>>

TrimReturns(t) ==
    /\ pc[t] = "trim" /\ scan[t] = {}
    /\ registry_mutex' = None
    /\ pc' = [pc EXCEPT ![t] = "idle"]
    /\ UNCHANGED <<slab_class, slabs, free_lists, cls, old, scan, live, dropped>>

-----------------------------------------------------------------------------

ThreadNext(t) ==
    \/ \E c \in Class : MallocCall(t, c)
    \/ \E b \in Block : FreeCall(t, b) \/ \E c \in Class : ReallocCall(t, b, c)
    \/ Lock(t) \/ LockFails(t)
    \/ (\E s \in Slab : CreateSlab(t, s)) \/ CreateFails(t)
    \/ Take(t) \/ UnlockFails(t) \/ FreeOld(t)
    \/ TrimCall(t) \/ (\E s \in Slab : TrimKeep(t, s) \/ TrimUnmap(t, s))
    \/ TrimReturns(t)

Next == \E t \in Thread : ThreadNext(t)

Spec == Init /\ [][Next]_vars

-----------------------------------------------------------------------------
(***************************************************************************)
(* Properties.                                                             *)
(***************************************************************************)

\* Block b is in one place if its slab is mapped, and nowhere if it is not.
Accounted(b) ==
    LET c == slab_class[SlabOf(b)] IN
    /\ b \in live => b \notin dropped
    /\ \A d \in Class : b \in free_lists[d] =>
          d = c /\ b \notin live /\ b \notin dropped
    /\ c = Unmapped => b \notin live /\ b \notin dropped
    /\ c # Unmapped => b \in live \/ b \in dropped \/ b \in free_lists[c]

\* Every block of a mapped slab is in exactly one place: with a caller, on the
\* list of its class, or dropped by a call whose lock or unlock failed; the
\* blocks of an unmapped slab are nowhere.
BlocksAccounted == \A b \in Block : Accounted(b)

Ownership == INSTANCE BlockOwnership

\* The baseline keeps the same promise to its callers as the cached build, also
\* when locks and unlocks fail.
ImplementsOwnership == Ownership!Spec
=============================================================================
