----------------------- MODULE LockedAllocatorProofs -----------------------
(***************************************************************************)
(* Proofs about LockedAllocator, for any sets of threads, classes, slabs   *)
(* and slots and any failures.                                             *)
(***************************************************************************)
EXTENDS LockedAllocator, FiniteSetTheorems, TLAPS

\* The registry mutex is held exactly where the code holds it, by a call that
\* knows its class.
MutexInv ==
    \A t \in Thread :
        /\ registry_mutex = t <=> pc[t] \in {"take", "trim"}
        /\ pc[t] \in {"lock", "take"} => cls[t] \in Class

\* The block a realloc replaces is live, and no other call has it.
ReallocInv ==
    \A t \in Thread :
        /\ old[t] # None =>
              /\ old[t] \in live
              /\ pc[t] \in {"lock", "take", "free"}
              /\ \A u \in Thread \ {t} : old[u] # old[t]
        /\ pc[t] = "free" => old[t] # None

\* The registry lists the mapped slabs, and a trim looks only at these.
RegistryInv ==
    /\ \A s \in Slab : s \in slabs <=> slab_class[s] # Unmapped
    /\ \A t \in Thread :
          scan[t] # {} => pc[t] = "trim" /\ scan[t] \subseteq slabs

Inv == TypeOK /\ MutexInv /\ ReallocInv /\ RegistryInv /\ BlocksAccounted

\* A block belongs to a slab, and None is none of the things it stands out from.
LEMMA Basics ==
    /\ \A b \in Block : SlabOf(b) \in Slab
    /\ \A s \in Slab : BlocksOf(s) \subseteq Block
    /\ \A b \in Block, s \in Slab : b \in BlocksOf(s) <=> SlabOf(b) = s
    /\ None \notin Thread /\ None \notin Class /\ None \notin Block
  BY LockedAssumption DEF Block, SlabOf, BlocksOf

\* A block that a caller holds has a class.
LEMMA LiveClass ==
    ASSUME Inv, NEW b \in live
    PROVE  b \in Block /\ slab_class[SlabOf(b)] \in Class
  BY Basics DEF Inv, TypeOK, BlocksAccounted, Accounted

\* A slab of which a trim counts all slots on the list has all its blocks there.
LEMMA WhollyFreeBlocks ==
    ASSUME NEW s \in Slab, WhollyFree(s)
    PROVE  BlocksOf(s) \subseteq free_lists[slab_class[s]]
  <1>1. IsFiniteSet(Block)
    BY LockedAssumption, FS_Product DEF Block
  <1>2. IsFiniteSet(BlocksOf(s))
    BY <1>1, Basics, FS_Subset
  <1>3. BlocksOf(s) \cap free_lists[slab_class[s]] = BlocksOf(s)
    BY <1>2, FS_Subset DEF WhollyFree
  <1>4. QED
    BY <1>3

\* A trim unmaps a slab of which every block is on the list of its class.
LEMMA UnmapFacts ==
    ASSUME Inv, NEW t \in Thread, NEW s \in Slab, TrimUnmap(t, s)
    PROVE  /\ slab_class[s] \in Class /\ slab_class[s] # Unmapped
           /\ BlocksOf(s) \subseteq free_lists[slab_class[s]]
           /\ \A b \in live : SlabOf(b) # s
  <1>1. slab_class[s] \in Class /\ slab_class[s] # Unmapped
    BY DEF TrimUnmap, Inv, TypeOK, RegistryInv
  <1>2. BlocksOf(s) \subseteq free_lists[slab_class[s]]
    BY WhollyFreeBlocks DEF TrimUnmap
  <1>3. ASSUME NEW b \in live, SlabOf(b) = s PROVE FALSE
    <2>1. b \in Block /\ b \in BlocksOf(s)
      BY <1>3, LiveClass, Basics
    <2>2. b \in free_lists[slab_class[s]]
      BY <1>2, <2>1
    <2>3. QED
      BY <1>1, <2>1, <2>2 DEF Inv, BlocksAccounted, Accounted
  <1>4. QED
    BY <1>1, <1>2, <1>3

-----------------------------------------------------------------------------
(***************************************************************************)
(* The steps.                                                              *)
(***************************************************************************)

\* Every step keeps the types, the mutex and the registry.
LEMMA ControlStep ==
    ASSUME Inv, NEW t \in Thread, ThreadNext(t)
    PROVE  TypeOK' /\ MutexInv' /\ RegistryInv'
  <1> USE Basics DEF Unmapped
  <1>t. TypeOK /\ MutexInv /\ RegistryInv
    BY DEF Inv
  <1>1. ASSUME NEW c \in Class, MallocCall(t, c) PROVE TypeOK' /\ MutexInv' /\ RegistryInv'
    BY <1>t, <1>1 DEF MallocCall, TypeOK, MutexInv, RegistryInv
  <1>2. ASSUME NEW b \in Block, NEW c \in Class, ReallocCall(t, b, c)
        PROVE  TypeOK' /\ MutexInv' /\ RegistryInv'
    BY <1>t, <1>2 DEF ReallocCall, TypeOK, MutexInv, RegistryInv
  <1>3. ASSUME NEW b \in Block, FreeCall(t, b) PROVE TypeOK' /\ MutexInv' /\ RegistryInv'
    <2>1. slab_class[SlabOf(b)] \in Class
      BY <1>3, LiveClass DEF FreeCall
    <2>2. QED
      BY <1>t, <1>3, <2>1 DEF FreeCall, FreeBlock, TypeOK, MutexInv, RegistryInv
  <1>4. CASE Lock(t)
    BY <1>t, <1>4 DEF Lock, TypeOK, MutexInv, RegistryInv
  <1>5. CASE LockFails(t)
    BY <1>t, <1>5 DEF LockFails, AllocationFails, TypeOK, MutexInv, RegistryInv
  <1>6. ASSUME NEW s \in Slab, CreateSlab(t, s) PROVE TypeOK' /\ MutexInv' /\ RegistryInv'
    <2>1. cls[t] \in Class
      BY <1>t, <1>6 DEF CreateSlab, MutexInv
    <2>2. TypeOK' /\ MutexInv'
      BY <1>t, <1>6, <2>1 DEF CreateSlab, TypeOK, MutexInv
    <2>3. RegistryInv'
      BY <1>t, <1>6, <2>1 DEF CreateSlab, TypeOK, RegistryInv
    <2>4. QED
      BY <2>2, <2>3
  <1>7. CASE CreateFails(t)
    BY <1>t, <1>7 DEF CreateFails, AllocationFails, TypeOK, MutexInv, RegistryInv
  <1>8. CASE Take(t)
    <2>1. cls[t] \in Class
      BY <1>t, <1>8 DEF Take, MutexInv
    <2>2. QED
      BY <1>t, <1>8, <2>1 DEF Take, TakeFirst, TypeOK, MutexInv, RegistryInv
  <1>9. CASE UnlockFails(t)
    <2>1. cls[t] \in Class
      BY <1>t, <1>9 DEF UnlockFails, MutexInv
    <2>2. QED
      BY <1>t, <1>9, <2>1 DEF UnlockFails, AllocationFails, TakeFirst, TypeOK, MutexInv,
         RegistryInv
  <1>10. CASE FreeOld(t)
    <2>1. old[t] \in live
      BY <1>10 DEF FreeOld, Inv, ReallocInv
    <2>2. old[t] \in Block /\ slab_class[SlabOf(old[t])] \in Class
      BY <2>1, LiveClass
    <2>3. QED
      BY <1>t, <1>10, <2>2 DEF FreeOld, FreeBlock, TypeOK, MutexInv, RegistryInv
  <1>11. CASE TrimCall(t)
    BY <1>t, <1>11 DEF TrimCall, TypeOK, MutexInv, RegistryInv
  <1>12. ASSUME NEW s \in Slab, TrimKeep(t, s) PROVE TypeOK' /\ MutexInv' /\ RegistryInv'
    BY <1>t, <1>12 DEF TrimKeep, TypeOK, MutexInv, RegistryInv
  <1>13. ASSUME NEW s \in Slab, TrimUnmap(t, s) PROVE TypeOK' /\ MutexInv' /\ RegistryInv'
    <2>1. TypeOK' /\ MutexInv'
      BY <1>t, <1>13, UnmapFacts DEF TrimUnmap, DetachSlabBlocks, TypeOK, MutexInv
    <2>2. \A u \in Thread \ {t} : scan[u] = {}
      BY <1>t, <1>13 DEF TrimUnmap, MutexInv, RegistryInv
    <2>3. RegistryInv'
      BY <1>t, <1>13, <2>2 DEF TrimUnmap, TypeOK, RegistryInv
    <2>4. QED
      BY <2>1, <2>3
  <1>14. CASE TrimReturns(t)
    BY <1>t, <1>14 DEF TrimReturns, TypeOK, MutexInv, RegistryInv
  <1>15. QED
    BY <1>1, <1>2, <1>3, <1>4, <1>5, <1>6, <1>7, <1>8, <1>9, <1>10, <1>11, <1>12,
       <1>13, <1>14 DEF ThreadNext

\* Every step keeps the block that a realloc replaces live and unshared.
LEMMA ReallocStep ==
    ASSUME Inv, NEW t \in Thread, ThreadNext(t)
    PROVE  ReallocInv'
  <1> USE Basics
  <1>t. TypeOK /\ ReallocInv
    BY DEF Inv
  <1>1. ASSUME NEW c \in Class, MallocCall(t, c) PROVE ReallocInv'
    BY <1>t, <1>1 DEF MallocCall, TypeOK, ReallocInv
  <1>2. ASSUME NEW b \in Block, NEW c \in Class, ReallocCall(t, b, c) PROVE ReallocInv'
    BY <1>t, <1>2 DEF ReallocCall, InRealloc, TypeOK, ReallocInv
  <1>3. ASSUME NEW b \in Block, FreeCall(t, b) PROVE ReallocInv'
    BY <1>t, <1>3 DEF FreeCall, FreeBlock, InRealloc, TypeOK, ReallocInv
  <1>4. CASE LockFails(t) \/ CreateFails(t) \/ UnlockFails(t)
    <2>1. AllocationFails(t) /\ UNCHANGED live
      BY <1>4 DEF LockFails, CreateFails, UnlockFails
    <2>2. QED
      BY <1>t, <2>1 DEF AllocationFails, TypeOK, ReallocInv
  <1>5. CASE Take(t)
    <2>1. /\ live \subseteq live'
          /\ pc' = [pc EXCEPT ![t] = IF old[t] = None THEN "idle" ELSE "free"]
          /\ UNCHANGED old
      BY <1>5 DEF Take
    <2>2. QED
      BY <1>t, <2>1 DEF TypeOK, ReallocInv
  <1>6. CASE FreeOld(t)
    BY <1>t, <1>6 DEF FreeOld, FreeBlock, TypeOK, ReallocInv
  <1>7. ASSUME NEW s \in Slab, CreateSlab(t, s) \/ TrimKeep(t, s) \/ TrimUnmap(t, s)
        PROVE  ReallocInv'
    BY <1>t, <1>7 DEF CreateSlab, TrimKeep, TrimUnmap, ReallocInv
  <1>8. CASE Lock(t) \/ TrimCall(t) \/ TrimReturns(t)
    BY <1>t, <1>8 DEF Lock, TrimCall, TrimReturns, TypeOK, ReallocInv
  <1>9. QED
    BY <1>1, <1>2, <1>3, <1>4, <1>5, <1>6, <1>7, <1>8 DEF ThreadNext

\* Taking the first block of a list puts it where the call says.
LEMMA TakeAccounted ==
    ASSUME Inv, NEW t \in Thread, NEW b \in Block, pc[t] = "take", TakeFirst(t, b),
           \/ live' = live \cup {b} /\ UNCHANGED dropped
           \/ dropped' = dropped \cup {b} /\ UNCHANGED live,
           UNCHANGED slab_class
    PROVE  BlocksAccounted'
  <1>1. TypeOK /\ cls[t] \in Class
    BY DEF Inv, MutexInv
  <1>2. QED
    BY <1>1, Basics DEF TakeFirst, Inv, TypeOK, BlocksAccounted, Accounted, Unmapped

\* Freeing a live block puts it on its list or nowhere.
LEMMA FreeAccounted ==
    ASSUME Inv, NEW b \in live, FreeBlock(b), UNCHANGED slab_class
    PROVE  BlocksAccounted'
  <1>1. b \in Block /\ slab_class[SlabOf(b)] \in Class
    BY LiveClass
  <1>2. QED
    BY <1>1, Basics DEF FreeBlock, Inv, TypeOK, BlocksAccounted, Accounted, Unmapped

\* Every step keeps every block accounted for.
LEMMA AccountStep ==
    ASSUME Inv, NEW t \in Thread, ThreadNext(t)
    PROVE  BlocksAccounted'
  <1>1. CASE UNCHANGED <<slab_class, free_lists, live, dropped>>
    BY <1>1 DEF Inv, BlocksAccounted, Accounted
  <1>2. CASE Take(t) \/ UnlockFails(t)
    <2>1. PICK b \in Block :
             /\ TakeFirst(t, b)
             /\ \/ live' = live \cup {b} /\ UNCHANGED dropped
                \/ dropped' = dropped \cup {b} /\ UNCHANGED live
      BY <1>2 DEF Take, UnlockFails
    <2>2. pc[t] = "take" /\ UNCHANGED slab_class
      BY <1>2 DEF Take, UnlockFails
    <2>3. QED
      BY <2>1, <2>2, TakeAccounted
  <1>3. CASE FreeOld(t) \/ \E b \in Block : FreeCall(t, b)
    <2>1. PICK b \in live : FreeBlock(b)
      BY <1>3 DEF FreeOld, FreeCall, Inv, ReallocInv
    <2>2. QED
      BY <1>3, <2>1, FreeAccounted DEF FreeOld, FreeCall
  <1>4. ASSUME NEW s \in Slab, CreateSlab(t, s) PROVE BlocksAccounted'
    <2>1. cls[t] \in Class /\ TypeOK /\ BlocksAccounted
      BY <1>4 DEF CreateSlab, Inv, MutexInv
    <2>2. \A b \in BlocksOf(s) :
             /\ b \notin live /\ b \notin dropped
             /\ \A d \in Class : b \notin free_lists[d]
      BY <1>4, <2>1, Basics DEF CreateSlab, BlocksAccounted, Accounted, Unmapped
    <2>3. \A b \in Block :
             slab_class'[SlabOf(b)] =
                IF b \in BlocksOf(s) THEN cls[t] ELSE slab_class[SlabOf(b)]
      BY <1>4, <2>1, Basics DEF CreateSlab, TypeOK
    <2>4. \A b \in Block, d \in Class :
             b \in free_lists'[d] <=>
                IF d = cls[t] THEN b \in BlocksOf(s) ELSE b \in free_lists[d]
      BY <1>4, <2>1 DEF CreateSlab, TypeOK
    <2>5. free_lists[cls[t]] = {} /\ UNCHANGED <<live, dropped>>
      BY <1>4 DEF CreateSlab
    <2>6. ASSUME NEW b \in Block PROVE Accounted(b)'
      <3>1. Accounted(b) /\ slab_class[SlabOf(b)] \in Class \cup {Unmapped}
        BY <2>1, Basics DEF TypeOK, BlocksAccounted
      <3>2. CASE b \in BlocksOf(s)
        BY <2>1, <2>2, <2>3, <2>4, <2>5, <3>2, Basics DEF Accounted, Unmapped
      <3>3. CASE b \notin BlocksOf(s)
        BY <2>1, <2>3, <2>4, <2>5, <3>1, <3>3, Basics DEF Accounted, Unmapped
      <3>4. QED
        BY <3>2, <3>3
    <2>7. QED
      BY <2>6 DEF BlocksAccounted
  <1>5. ASSUME NEW s \in Slab, TrimUnmap(t, s) PROVE BlocksAccounted'
    <2>1. TypeOK /\ BlocksAccounted
      BY DEF Inv
    <2>2. \A b \in Block :
             slab_class'[SlabOf(b)] =
                IF b \in BlocksOf(s) THEN Unmapped ELSE slab_class[SlabOf(b)]
      BY <1>5, <2>1, Basics DEF TrimUnmap, TypeOK
    <2>3. \A b \in Block, d \in Class :
             b \in free_lists'[d] <=> b \in free_lists[d] /\ b \notin BlocksOf(s)
      <3>1. \A b \in BlocksOf(s), d \in Class : b \in free_lists[d] => d = slab_class[s]
        BY <2>1, Basics DEF BlocksAccounted, Accounted
      <3>2. QED
        BY <1>5, <2>1, <3>1, UnmapFacts DEF TrimUnmap, DetachSlabBlocks, TypeOK
    <2>4. \A b \in BlocksOf(s) : b \notin live /\ b \notin dropped
      BY <1>5, <2>1, UnmapFacts, Basics DEF BlocksAccounted, Accounted
    <2>5. UNCHANGED <<live, dropped>>
      BY <1>5 DEF TrimUnmap
    <2>6. ASSUME NEW b \in Block PROVE Accounted(b)'
      <3>1. Accounted(b) /\ slab_class[SlabOf(b)] \in Class \cup {Unmapped}
        BY <2>1, Basics DEF TypeOK, BlocksAccounted
      <3>2. CASE b \in BlocksOf(s)
        BY <2>2, <2>3, <2>4, <2>5, <3>2, Basics DEF Accounted, Unmapped
      <3>3. CASE b \notin BlocksOf(s)
        BY <2>2, <2>3, <2>5, <3>1, <3>3, Basics DEF Accounted, Unmapped
      <3>4. QED
        BY <3>2, <3>3
    <2>7. QED
      BY <2>6 DEF BlocksAccounted
  <1>6. CASE \/ Lock(t) \/ LockFails(t) \/ CreateFails(t) \/ TrimCall(t) \/ TrimReturns(t)
             \/ (\E s \in Slab : TrimKeep(t, s)) \/ (\E c \in Class : MallocCall(t, c))
             \/ \E b \in Block, c \in Class : ReallocCall(t, b, c)
    BY <1>1, <1>6 DEF Lock, LockFails, CreateFails, TrimCall, TrimReturns, TrimKeep,
       MallocCall, ReallocCall
  <1>7. QED
    BY <1>2, <1>3, <1>4, <1>5, <1>6 DEF ThreadNext

-----------------------------------------------------------------------------
(***************************************************************************)
(* The theorems.                                                           *)
(***************************************************************************)

\* The inductive invariant holds in every state the allocator can reach.
THEOREM Invariance == Spec => []Inv
  <1>1. Init => Inv
    BY Basics DEF Init, Inv, TypeOK, MutexInv, ReallocInv, RegistryInv,
       BlocksAccounted, Accounted, Unmapped
  <1>2. Inv /\ [Next]_vars => Inv'
    <2> SUFFICES ASSUME Inv, [Next]_vars PROVE Inv'
      OBVIOUS
    <2>1. CASE UNCHANGED vars
      BY <2>1 DEF vars, Inv, TypeOK, MutexInv, ReallocInv, RegistryInv, BlocksAccounted,
         Accounted
    <2>2. CASE Next
      BY <2>2, ControlStep, ReallocStep, AccountStep DEF Next, Inv
    <2>3. QED
      BY <2>1, <2>2
  <1>3. QED
    BY <1>1, <1>2, PTL DEF Spec

\* Every block of a mapped slab is in exactly one place, and a block is out of
\* reach only after a lock or an unlock failed.
THEOREM EveryBlockAccounted == Spec => []BlocksAccounted
  <1>1. Inv => BlocksAccounted
    BY DEF Inv
  <1>2. QED
    BY <1>1, Invariance, PTL

\* The baseline implements BlockOwnership, also when locks and unlocks fail.
THEOREM Refinement == Spec => ImplementsOwnership
  <1> USE Basics DEF Ownership!Next, Ownership!Block, Ownership!SlabOf, Block, SlabOf
  <1>1. Init => Ownership!Init
    BY DEF Init, Ownership!Init
  <1>2. Inv /\ [Next]_vars => [Ownership!Next]_Ownership!ownershipVars
    <2> SUFFICES ASSUME Inv, NEW t \in Thread, ThreadNext(t)
                 PROVE  Ownership!Next \/ UNCHANGED <<live, slab_class>>
      BY DEF Next, vars, Ownership!ownershipVars
    <2>1. CASE Take(t)
      <3>1. PICK b \in Block : TakeFirst(t, b) /\ live' = live \cup {b}
        BY <2>1 DEF Take
      <3>2. Ownership!Allocate(b)
        BY <2>1, <3>1 DEF Take, TakeFirst, Ownership!Allocate, Inv, MutexInv,
           BlocksAccounted, Accounted, Unmapped
      <3>3. QED
        BY <3>2
    <2>2. CASE FreeOld(t) \/ \E b \in Block : FreeCall(t, b)
      <3>1. PICK b \in live : FreeBlock(b)
        BY <2>2 DEF FreeOld, FreeCall, Inv, ReallocInv
      <3>2. Ownership!Release(b) /\ b \in Block
        BY <2>2, <3>1, LiveClass DEF FreeOld, FreeCall, FreeBlock, Ownership!Release
      <3>3. QED
        BY <3>2
    <2>3. ASSUME NEW s \in Slab, CreateSlab(t, s) PROVE Ownership!Next
      <3>1. cls[t] \in Class /\ Ownership!MapSlab(s, cls[t])
        BY <2>3 DEF CreateSlab, Ownership!MapSlab, Inv, MutexInv
      <3>2. QED
        BY <3>1
    <2>4. ASSUME NEW s \in Slab, TrimUnmap(t, s) PROVE Ownership!Next
      <3>1. Ownership!UnmapSlab(s)
        BY <2>4, UnmapFacts DEF TrimUnmap, Ownership!UnmapSlab
      <3>2. QED
        BY <3>1
    <2>5. CASE \/ Lock(t) \/ LockFails(t) \/ CreateFails(t) \/ UnlockFails(t)
               \/ TrimCall(t) \/ TrimReturns(t)
               \/ (\E s \in Slab : TrimKeep(t, s)) \/ (\E c \in Class : MallocCall(t, c))
               \/ \E b \in Block, c \in Class : ReallocCall(t, b, c)
      BY <2>5 DEF Lock, LockFails, CreateFails, UnlockFails, TrimCall, TrimReturns,
         TrimKeep, MallocCall, ReallocCall
    <2>6. QED
      BY <2>1, <2>2, <2>3, <2>4, <2>5 DEF ThreadNext
  <1>3. QED
    BY <1>1, <1>2, Invariance, PTL DEF Spec, ImplementsOwnership, Ownership!Spec
=============================================================================
