----------------------- MODULE CachedAllocatorProofs -----------------------
(***************************************************************************)
(* Proofs about CachedAllocator, for any number of threads, classes, slabs *)
(* and slots and any limits: ownership and its refinement (Inv), counters  *)
(* and limits of the caches (CountInv), completeness of a trim (TrimInv).  *)
(***************************************************************************)
EXTENDS CachedAllocator, DataInduction, FiniteSetTheorems, TLAPS

\* A subtraction of size_t values is a size_t value again.
LEMMA SizeSubType ==
    ASSUME NEW a \in Nat, NEW b \in Nat
    PROVE  size_sub(a, b) \in Nat
  BY LimitAssumption DEF size_sub

\* There are finitely many blocks, so every list has a length.
LEMMA BlocksFinite ==
    /\ IsFiniteSet(Block)
    /\ \A S \in SUBSET Block : IsFiniteSet(S) /\ Cardinality(S) \in Nat
  <1>1. IsFiniteSet(Block)
    BY BlockAssumption, FS_Product DEF Block
  <1>2. QED
    BY <1>1, FS_Subset, FS_CardinalityType

-----------------------------------------------------------------------------
(***************************************************************************)
(* Type correctness.                                                       *)
(***************************************************************************)

LifecycleType ==
    /\ current_state \in [Thread -> {"uninitialized", "active", "uncached"}]
    /\ descriptor \in [Thread -> {"none", "mapped", "leaked"}]
    /\ key_value \subseteq Thread
    /\ cache_key \in {"unset", "created", "failed"}
    /\ thread \in [Thread -> {"running", "exiting", "exited"}]

\* hplf_cache_acquire keeps the types of the lifecycle variables.
LEMMA AcquireType ==
    ASSUME TypeOK, NEW t \in Thread, hplf_cache_acquire(t)
    PROVE  LifecycleType'
  <1>1. cache_key' \in {"unset", "created", "failed"}
    BY DEF hplf_cache_acquire, create_cache_key, lifecycleVars, TypeOK
  <1>2. \/ UNCHANGED current_state
        \/ current_state' = [current_state EXCEPT ![t] = "uncached"]
        \/ current_state' = [current_state EXCEPT ![t] = "active"]
    BY DEF hplf_cache_acquire, lifecycleVars
  <1>3. \/ UNCHANGED descriptor
        \/ unmap_descriptor(t)
        \/ descriptor' = [descriptor EXCEPT ![t] = "mapped"]
    BY DEF hplf_cache_acquire, lifecycleVars
  <1>4. key_value' \subseteq Thread /\ UNCHANGED thread
    BY DEF hplf_cache_acquire, TypeOK, lifecycleVars, pthread_setspecific
  <1>5. QED
    BY <1>1, <1>2, <1>3, <1>4 DEF TypeOK, LifecycleType, unmap_descriptor

\* The beginning of an allocation keeps all types.
LEMMA AllocateType ==
    ASSUME TypeOK, NEW t \in Thread, NEW c \in Class, AllocateSmall(t, c),
           old' \in [Thread -> Block \cup {None}]
    PROVE  TypeOK'
  <1>1. LifecycleType'
    BY AcquireType DEF AllocateSmall
  <1>2. cls' \in [Thread -> Class] /\ pc' \in [Thread -> {"idle"} \cup CallPC \cup TrimPC]
    BY DEF TypeOK, AllocateSmall, AllocationReturns, CallPC
  <1>3. Capacity[c] \in Nat
    BY CapacityAssumption
  <1> DEFINE CachesType ==
        /\ local \in [Thread -> [Class -> SUBSET Block]]
        /\ live \subseteq Block
        /\ counts \in [Thread -> [Class -> Nat]]
        /\ total_slot_bytes \in [Thread -> Nat]
  <1>4. CachesType'
    <2>1. CASE UNCHANGED <<cacheVars, live>>
      BY <2>1 DEF TypeOK, cacheVars
    <2>2. ASSUME NEW b \in local[t][c], thread_cache_take(t, c, b), live' = live \cup {b}
          PROVE  CachesType'
      <3>0. counts[t][c] \in Nat /\ 1 \in Nat
        BY DEF TypeOK
      <3>1. size_sub(counts[t][c], 1) \in Nat
        BY <3>0, SizeSubType
      <3>2. size_sub(total_slot_bytes[t], Capacity[c]) \in Nat
        BY <1>3, SizeSubType DEF TypeOK
      <3>3. QED
        BY <2>2, <3>1, <3>2 DEF TypeOK, thread_cache_take
    <2>3. \/ UNCHANGED <<cacheVars, live>>
          \/ \E b \in local[t][c] :
                thread_cache_take(t, c, b) /\ live' = live \cup {b}
      BY DEF AllocateSmall
    <2>4. QED
      BY <2>1, <2>2, <2>3
  <1>5. QED
    BY <1>1, <1>2, <1>4 DEF TypeOK, LifecycleType, AllocateSmall, registryVars

ExtractionType ==
    /\ heads \in [Class -> SUBSET Block]
    /\ local \in [Thread -> [Class -> SUBSET Block]]
    /\ counts \in [Thread -> [Class -> Nat]]
    /\ total_slot_bytes \in [Thread -> Nat]

\* Moving blocks from a cache to a transfer list keeps the types of both.
LEMMA ExtractType ==
    ASSUME TypeOK, NEW t \in Thread, NEW c \in Class, NEW list \in SUBSET local[t][c],
           thread_cache_extract_class(t, c, list),
           transfer_mutex_publish(c, list)
    PROVE  ExtractionType'
  <1>1. /\ Cardinality(list) \in Nat
        /\ Capacity[c] \in Nat
        /\ counts[t][c] \in Nat
        /\ total_slot_bytes[t] \in Nat
    BY BlocksFinite, CapacityAssumption DEF TypeOK
  <1>2. Cardinality(list) * Capacity[c] \in Nat
    BY <1>1
  <1>3. /\ size_sub(counts[t][c], Cardinality(list)) \in Nat
        /\ size_sub(total_slot_bytes[t], Cardinality(list) * Capacity[c]) \in Nat
    BY <1>1, <1>2, SizeSubType
  <1>4. QED
    BY <1>3 DEF TypeOK, ExtractionType, thread_cache_extract_class,
                transfer_mutex_publish

\* hplf_free of a live block keeps all types.
LEMMA FreeType ==
    ASSUME TypeOK, NEW t \in Thread, NEW b \in Block, FreeBlock(t, b),
           slab_class[SlabOf(b)] \in Class,
           old' \in [Thread -> Block \cup {None}]
    PROVE  TypeOK'
  <1> DEFINE c == slab_class[SlabOf(b)]
  <1>1. LifecycleType'
    BY AcquireType DEF FreeBlock
  <1>2. c \in Class /\ Capacity[c] \in Nat
    BY CapacityAssumption
  <1> HIDE DEF c
  <1>3. /\ heads' \in [Class -> SUBSET Block]
        /\ local' \in [Thread -> [Class -> SUBSET Block]]
        /\ counts' \in [Thread -> [Class -> Nat]]
        /\ total_slot_bytes' \in [Thread -> Nat]
        /\ cls' \in [Thread -> Class]
    <2>1. CASE transfer_mutex_publish(c, {b}) /\ UNCHANGED <<cacheVars, cls>>
      BY <1>2, <2>1 DEF TypeOK, transfer_mutex_publish, cacheVars
    <2>2. CASE /\ thread_cache_store(t, c, b)
               /\ cls' = [cls EXCEPT ![t] = c]
               /\ UNCHANGED heads
      BY <1>2, <2>2 DEF TypeOK, thread_cache_store
    <2>3. QED
      BY <2>1, <2>2 DEF FreeBlock, c
  <1>4. QED
    BY <1>1, <1>3 DEF TypeOK, LifecycleType, FreeBlock, registryVars, CallPC

-----------------------------------------------------------------------------
(***************************************************************************)
(* The inductive invariant.                                                *)
(***************************************************************************)

\* The registry mutex is held exactly where the code holds it.
MutexInv ==
    \A t \in Thread :
        registry_mutex = t <=> pc[t] \in {"recheck", "create"} \cup TrimPC

\* The lists on a thread's stack are empty wherever the code overwrites them
\* or returns.
StackInv ==
    \A t \in Thread, c \in Class :
        available[t][c] # {} =>
            \/ pc[t] = "refill" /\ c = cls[t]
            \/ pc[t] = "trim_detach" /\ c < cls[t]
            \/ pc[t] = "trim_scan"
            \/ pc[t] = "trim_publish" /\ c >= cls[t]

\* A cache holds blocks only while its thread can reach it, and during its
\* destructor only in the classes that are not flushed yet.
CacheInv ==
    \A t \in Thread :
        /\ current_state[t] = "active" <=> t \in key_value
        /\ current_state[t] = "active" => descriptor[t] = "mapped"
        /\ descriptor[t] = "mapped" =>
              current_state[t] = "active" \/ pc[t] \in {"destroy", "release"}
        /\ pc[t] \in {"destroy", "release"} => current_state[t] = "uncached"
        /\ \A c \in Class : local[t][c] # {} =>
              current_state[t] = "active" \/ (pc[t] = "destroy" /\ c >= cls[t])
        /\ thread[t] = "exited" => pc[t] = "idle" /\ current_state[t] # "active"

\* The block a realloc replaces is live, and no other call has it.
ReallocInv ==
    \A t \in Thread :
        /\ old[t] # None =>
              /\ old[t] \in live
              /\ pc[t] \in {"detach", "lock", "recheck", "create", "refill", "free"}
              /\ \A u \in Thread \ {t} : old[u] # old[t]
        /\ pc[t] = "free" => old[t] # None

\* The registry lists the mapped slabs, and a trim looks only at these.
RegistryInv ==
    /\ \A s \in Slab : s \in slabs <=> slab_class[s] # Unmapped
    /\ \A t \in Thread :
          scan[t] # {} => pc[t] = "trim_scan" /\ scan[t] \subseteq slabs

ControlInv == MutexInv /\ StackInv /\ CacheInv /\ ReallocInv /\ RegistryInv

OwnerInv == OneOwner /\ NoBlockLost /\ ClassSegregated /\ RefillHasBlock

Inv == TypeOK /\ ControlInv /\ OwnerInv

\* The classes are an interval of numbers that the loops walk through.
LEMMA ClassFacts ==
    /\ Unmapped \notin Class
    /\ 0 \in Class
    /\ LastClass \in Class
    /\ \A c \in Class : c \in Int
    /\ \A c \in Class : ~(c < LastClass) => c = LastClass
    /\ \A c \in Class : c < LastClass => c + 1 \in Class
    /\ \A c \in Class : c <= LastClass /\ c >= 0
  BY ClassAssumption DEF Unmapped, Class, LastClass

\* A block that a caller holds has a class.
LEMMA LiveClass ==
    ASSUME Inv, NEW b \in live
    PROVE  b \in Block /\ SlabOf(b) \in Slab /\ slab_class[SlabOf(b)] \in Class
  <1>1. b \in Block /\ SlabOf(b) \in Slab
    BY DEF Inv, TypeOK, Block, SlabOf
  <1>2. QED
    BY <1>1 DEF Inv, TypeOK, OwnerInv, ClassSegregated

\* The slots of a slab are blocks.
LEMMA BlocksOfType == \A s \in Slab : BlocksOf(s) \subseteq Block
  BY DEF BlocksOf, Block

\* What a thread does in one step.
ThreadNext(t) == Step(t) \/ Lock(t) \/ Call(t) \/ Lifetime(t)

\* Every step keeps the types.
LEMMA TypeStep ==
    ASSUME Inv, NEW t \in Thread, ThreadNext(t)
    PROVE  TypeOK'
  <1> USE ClassFacts
  <1>t. TypeOK
    BY DEF Inv
  <1>c. cls[t] \in Class /\ Capacity[cls[t]] \in Nat
    BY <1>t, CapacityAssumption DEF TypeOK
  <1>d. cls[t] < LastClass => cls[t] + 1 \in Class
    BY <1>c
  <1>1. ASSUME NEW c \in Class, MallocCall(t, c) PROVE TypeOK'
    BY <1>t, <1>1, AllocateType DEF MallocCall, TypeOK
  <1>2. ASSUME NEW b \in Block, NEW c \in Class, ReallocCall(t, b, c) PROVE TypeOK'
    <2>1. old' \in [Thread -> Block \cup {None}]
      BY <1>t, <1>2 DEF ReallocCall, TypeOK
    <2>2. QED
      BY <1>t, <1>2, <2>1, AllocateType DEF ReallocCall
  <1>3. CASE Detach(t)
    BY <1>t, <1>c, <1>3 DEF Detach, transfer_mutex_detach, TypeOK, CallPC,
       registryVars, cacheVars, lifecycleVars
  <1>4. CASE Lock(t)
    BY <1>t, <1>4 DEF Lock, TypeOK, CallPC, cacheVars, lifecycleVars, frameVars
  <1>5. CASE LockFails(t)
    BY <1>t, <1>5 DEF LockFails, AllocationFails, TypeOK, registryVars, cacheVars,
       lifecycleVars
  <1>6. CASE Recheck(t)
    BY <1>t, <1>c, <1>6 DEF Recheck, transfer_mutex_detach, TypeOK, CallPC, cacheVars,
       lifecycleVars
  <1>7. ASSUME NEW s \in Slab, CreateSlab(t, s) PROVE TypeOK'
    BY <1>t, <1>c, <1>7, BlocksOfType DEF CreateSlab, TypeOK, CallPC, cacheVars,
       lifecycleVars
  <1>8. CASE CreateFails(t)
    BY <1>t, <1>8 DEF CreateFails, AllocationFails, TypeOK, cacheVars, lifecycleVars
  <1>9. CASE RefillCache(t)
    <2> DEFINE c == cls[t]
    <2>1. PICK accepted \in SUBSET available[t][c], b \in Block :
             /\ refill_and_take(t, c, accepted, b)
             /\ transfer_mutex_publish(c, available[t][c] \ accepted)
             /\ live' = live \cup {b}
      BY <1>9 DEF RefillCache, Prefixes
    <2>2. Cardinality(accepted) \in Nat
      BY <1>t, <1>c, BlocksFinite DEF TypeOK
    <2>3. /\ size_sub(counts[t][c] + Cardinality(accepted), 1) \in Nat
          /\ size_sub(total_slot_bytes[t] + Cardinality(accepted) * Capacity[c],
                      Capacity[c]) \in Nat
      <3>1. counts[t][c] + Cardinality(accepted) \in Nat /\ 1 \in Nat
        BY <1>t, <1>c, <2>2 DEF TypeOK
      <3>2. Cardinality(accepted) * Capacity[c] \in Nat
        BY <1>c, <2>2
      <3>3. total_slot_bytes[t] + Cardinality(accepted) * Capacity[c] \in Nat
        BY <1>t, <3>2 DEF TypeOK
      <3>4. QED
        BY <1>c, <3>1, <3>3, SizeSubType
    <2>4. /\ local' \in [Thread -> [Class -> SUBSET Block]]
          /\ counts' \in [Thread -> [Class -> Nat]]
          /\ total_slot_bytes' \in [Thread -> Nat]
      BY <1>t, <1>c, <2>1, <2>3 DEF TypeOK, refill_and_take
    <2>5. heads' \in [Class -> SUBSET Block] /\ live' \subseteq Block
      BY <1>t, <1>c, <2>1 DEF TypeOK, transfer_mutex_publish
    <2>6. QED
      BY <1>t, <1>c, <1>9, <2>4, <2>5 DEF RefillCache, AllocationReturns, TypeOK,
         CallPC, registryVars, lifecycleVars
  <1>10. CASE RefillDirect(t)
    BY <1>t, <1>c, <1>10 DEF RefillDirect, transfer_mutex_publish,
       AllocationReturns, TypeOK, CallPC, registryVars, cacheVars, lifecycleVars
  <1>11. ASSUME NEW b \in Block, FreeCall(t, b) PROVE TypeOK'
    BY <1>t, <1>11, LiveClass, FreeType DEF FreeCall, TypeOK
  <1>12. CASE FreeOld(t)
    <2>1. old[t] \in live
      BY <1>12 DEF FreeOld, Inv, ControlInv, ReallocInv
    <2>2. old' \in [Thread -> Block \cup {None}]
      BY <1>t, <1>12 DEF FreeOld, TypeOK
    <2>3. QED
      BY <1>t, <1>12, <2>1, <2>2, LiveClass, FreeType DEF FreeOld
  <1>13. ASSUME NEW c \in Class, Evict(t, c) PROVE TypeOK'
    <2>1. PICK list \in SUBSET local[t][c] :
             thread_cache_extract_class(t, c, list) /\ transfer_mutex_publish(c, list)
      BY <1>13 DEF Evict, Prefixes
    <2>2. ExtractionType'
      BY <1>t, <2>1, ExtractType
    <2>3. QED
      BY <1>t, <1>13, <2>2 DEF Evict, ExtractionType, TypeOK, registryVars,
         lifecycleVars, frameVars
  <1>14. CASE FreeReturns(t)
    BY <1>t, <1>14 DEF FreeReturns, TypeOK, registryVars, cacheVars, lifecycleVars,
       frameVars
  <1>15. CASE FlushCall(t)
    BY <1>t, <1>15 DEF FlushCall, TypeOK, CallPC, registryVars, cacheVars, lifecycleVars
  <1>16. CASE FlushClass(t)
    <2>1. ExtractionType'
      BY <1>t, <1>c, <1>16, ExtractType DEF FlushClass, TypeOK
    <2>2. cls' \in [Thread -> Class] /\ pc' \in [Thread -> {"idle"} \cup CallPC \cup TrimPC]
      <3>1. CASE cls' = [cls EXCEPT ![t] = cls[t] + 1] /\ cls[t] < LastClass /\ UNCHANGED pc
        BY <1>t, <1>d, <3>1 DEF TypeOK
      <3>2. CASE pc' = [pc EXCEPT ![t] = IF pc[t] = "flush" THEN "idle" ELSE "release"]
                 /\ UNCHANGED cls
        BY <1>t, <3>2 DEF TypeOK, CallPC
      <3>3. QED
        BY <1>16, <3>1, <3>2 DEF FlushClass
    <2>3. QED
      BY <1>t, <1>16, <2>1, <2>2 DEF FlushClass, ExtractionType, TypeOK,
         registryVars, lifecycleVars
  <1>17. CASE ThreadExit(t)
    BY <1>t, <1>17 DEF ThreadExit, TypeOK, registryVars, cacheVars, frameVars
  <1>18. CASE DestroyDescriptor(t)
    BY <1>t, <1>18 DEF DestroyDescriptor, BecomesUncached, TypeOK, CallPC,
       registryVars, cacheVars
  <1>19. CASE ReleaseDescriptor(t)
    BY <1>t, <1>19 DEF ReleaseDescriptor, unmap_descriptor, EmptyLists, TypeOK,
       registryVars, frameVars
  <1>20. CASE ThreadGone(t)
    BY <1>t, <1>20 DEF ThreadGone, TypeOK, registryVars, cacheVars, frameVars
  <1>21. CASE ThreadStart(t)
    BY <1>t, <1>21 DEF ThreadStart, TypeOK, registryVars, cacheVars, frameVars
  <1>22. CASE TrimCall(t)
    BY <1>t, <1>22 DEF TrimCall, TypeOK, TrimPC, cacheVars, lifecycleVars
  <1>23. CASE TrimDetach(t)
    BY <1>t, <1>c, <1>d, <1>23 DEF TrimDetach, transfer_mutex_detach, TypeOK, TrimPC,
       registryVars, cacheVars, lifecycleVars
  <1>24. ASSUME NEW s \in Slab, TrimKeep(t, s) PROVE TypeOK'
    BY <1>t, <1>24 DEF TrimKeep, TypeOK, registryVars, cacheVars, lifecycleVars
  <1>25. ASSUME NEW s \in Slab, TrimUnmap(t, s) PROVE TypeOK'
    BY <1>t, <1>25 DEF TrimUnmap, TypeOK, cacheVars, lifecycleVars
  <1>26. CASE TrimScanned(t)
    BY <1>t, <1>26 DEF TrimScanned, TypeOK, TrimPC, registryVars, cacheVars,
       lifecycleVars
  <1>27. CASE TrimPublish(t)
    <2>1. heads' \in [Class -> SUBSET Block] /\ available' \in [Thread -> [Class -> SUBSET Block]]
      BY <1>t, <1>c, <1>27 DEF TrimPublish, transfer_mutex_publish, TypeOK
    <2>2. CASE cls' = [cls EXCEPT ![t] = cls[t] + 1] /\ cls[t] < LastClass
               /\ UNCHANGED <<pc, registry_mutex>>
      BY <1>t, <1>d, <1>27, <2>1, <2>2 DEF TrimPublish, TypeOK, cacheVars, lifecycleVars
    <2>3. CASE /\ pc' = [pc EXCEPT ![t] = "idle"]
               /\ registry_mutex' = None
               /\ UNCHANGED cls
      BY <1>t, <1>27, <2>1, <2>3 DEF TrimPublish, TypeOK, cacheVars, lifecycleVars
    <2>4. QED
      BY <1>27, <2>2, <2>3 DEF TrimPublish
  <1>28. QED
    BY <1>1, <1>2, <1>3, <1>4, <1>5, <1>6, <1>7, <1>8, <1>9, <1>10, <1>11, <1>12,
       <1>13, <1>14, <1>15, <1>16, <1>17, <1>18, <1>19, <1>20, <1>21, <1>22, <1>23,
       <1>24, <1>25, <1>26, <1>27
       DEF ThreadNext, Step, Call, Lifetime

\* Every step keeps the registry mutex with the thread that is where the code
\* holds it.
LEMMA MutexStep ==
    ASSUME Inv, NEW t \in Thread, ThreadNext(t)
    PROVE  MutexInv'
  <1> USE DEF Inv, ControlInv
  <1>1. ASSUME NEW c \in Class, MallocCall(t, c) PROVE MutexInv'
    BY ThreadAssumption, <1>1 DEF MallocCall, AllocateSmall, AllocationReturns,
       MutexInv, TypeOK, TrimPC, registryVars, cacheVars, lifecycleVars, frameVars,
       CanCall
  <1>2. ASSUME NEW b \in Block, NEW c \in Class, ReallocCall(t, b, c) PROVE MutexInv'
    BY ThreadAssumption, <1>2 DEF ReallocCall, AllocateSmall, AllocationReturns,
       MutexInv, TypeOK, TrimPC, registryVars, cacheVars, lifecycleVars, frameVars,
       CanCall
  <1>3. CASE Detach(t)
    BY ThreadAssumption, <1>3 DEF Detach, MutexInv, TypeOK, TrimPC, registryVars,
       cacheVars, lifecycleVars, frameVars
  <1>4. CASE Lock(t)
    BY ThreadAssumption, <1>4 DEF Lock, MutexInv, TypeOK, TrimPC, registryVars,
       cacheVars, lifecycleVars, frameVars
  <1>5. CASE LockFails(t)
    BY ThreadAssumption, <1>5 DEF LockFails, AllocationFails, MutexInv, TypeOK,
       TrimPC, registryVars, cacheVars, lifecycleVars, frameVars
  <1>6. CASE Recheck(t)
    <2>1. \/ pc' = [pc EXCEPT ![t] = "create"] /\ UNCHANGED registry_mutex
          \/ pc' = [pc EXCEPT ![t] = "refill"] /\ registry_mutex' = None
      BY <1>6 DEF Recheck
    <2>2. QED
      BY ThreadAssumption, <1>6, <2>1 DEF Recheck, MutexInv, TypeOK, TrimPC
  <1>7. ASSUME NEW s \in Slab, CreateSlab(t, s) PROVE MutexInv'
    BY ThreadAssumption, <1>7 DEF CreateSlab, MutexInv, TypeOK, TrimPC,
       registryVars, cacheVars, lifecycleVars, frameVars
  <1>8. CASE CreateFails(t)
    BY ThreadAssumption, <1>8 DEF CreateFails, AllocationFails, MutexInv, TypeOK,
       TrimPC, registryVars, cacheVars, lifecycleVars, frameVars
  <1>9. CASE RefillCache(t)
    BY ThreadAssumption, <1>9 DEF RefillCache, AllocationReturns, MutexInv, TypeOK,
       TrimPC, registryVars, cacheVars, lifecycleVars, frameVars
  <1>10. CASE RefillDirect(t)
    BY ThreadAssumption, <1>10 DEF RefillDirect, AllocationReturns, MutexInv,
       TypeOK, TrimPC, registryVars, cacheVars, lifecycleVars, frameVars
  <1>11. ASSUME NEW b \in Block, FreeCall(t, b) PROVE MutexInv'
    <2>1. \/ pc' = [pc EXCEPT ![t] = "idle"]
          \/ pc' = [pc EXCEPT ![t] = "evict"]
      BY <1>11 DEF FreeCall, FreeBlock
    <2>2. pc[t] = "idle" /\ UNCHANGED registry_mutex
      BY <1>11 DEF FreeCall, FreeBlock, CanCall, registryVars
    <2>3. QED
      BY ThreadAssumption, <2>1, <2>2 DEF MutexInv, TypeOK, TrimPC
  <1>12. CASE FreeOld(t)
    BY ThreadAssumption, <1>12 DEF FreeOld, FreeBlock, MutexInv, TypeOK, TrimPC,
       registryVars, cacheVars, lifecycleVars, frameVars
  <1>13. ASSUME NEW c \in Class, Evict(t, c) PROVE MutexInv'
    BY ThreadAssumption, <1>13 DEF Evict, MutexInv, TypeOK, TrimPC, registryVars,
       cacheVars, lifecycleVars, frameVars
  <1>14. CASE FreeReturns(t)
    BY ThreadAssumption, <1>14 DEF FreeReturns, MutexInv, TypeOK, TrimPC,
       registryVars, cacheVars, lifecycleVars, frameVars
  <1>15. CASE FlushCall(t)
    BY ThreadAssumption, <1>15 DEF FlushCall, MutexInv, TypeOK, TrimPC,
       registryVars, cacheVars, lifecycleVars, frameVars, CanCall
  <1>16. CASE FlushClass(t)
    BY ThreadAssumption, <1>16 DEF FlushClass, MutexInv, TypeOK, TrimPC,
       registryVars, cacheVars, lifecycleVars, frameVars
  <1>17. CASE ThreadExit(t)
    BY ThreadAssumption, <1>17 DEF ThreadExit, MutexInv, TypeOK, TrimPC,
       registryVars, cacheVars, lifecycleVars, frameVars, CanCall
  <1>18. CASE DestroyDescriptor(t)
    BY ThreadAssumption, <1>18 DEF DestroyDescriptor, MutexInv, TypeOK, TrimPC,
       registryVars, cacheVars, lifecycleVars, frameVars, CanCall
  <1>19. CASE ReleaseDescriptor(t)
    BY ThreadAssumption, <1>19 DEF ReleaseDescriptor, MutexInv, TypeOK, TrimPC,
       registryVars, cacheVars, lifecycleVars, frameVars
  <1>20. CASE ThreadGone(t)
    BY ThreadAssumption, <1>20 DEF ThreadGone, MutexInv, TypeOK, TrimPC,
       registryVars, cacheVars, lifecycleVars, frameVars
  <1>21. CASE ThreadStart(t)
    BY ThreadAssumption, <1>21 DEF ThreadStart, MutexInv, TypeOK, TrimPC,
       registryVars, cacheVars, lifecycleVars, frameVars
  <1>22. CASE TrimCall(t)
    BY ThreadAssumption, <1>22 DEF TrimCall, MutexInv, TypeOK, TrimPC, registryVars,
       cacheVars, lifecycleVars, frameVars, CanCall
  <1>23. CASE TrimDetach(t)
    BY ThreadAssumption, <1>23 DEF TrimDetach, MutexInv, TypeOK, TrimPC,
       registryVars, cacheVars, lifecycleVars, frameVars
  <1>24. ASSUME NEW s \in Slab, TrimKeep(t, s) PROVE MutexInv'
    BY ThreadAssumption, <1>24 DEF TrimKeep, MutexInv, TypeOK, TrimPC, registryVars,
       cacheVars, lifecycleVars, frameVars
  <1>25. ASSUME NEW s \in Slab, TrimUnmap(t, s) PROVE MutexInv'
    BY ThreadAssumption, <1>25 DEF TrimUnmap, MutexInv, TypeOK, TrimPC,
       registryVars, cacheVars, lifecycleVars, frameVars
  <1>26. CASE TrimScanned(t)
    BY ThreadAssumption, <1>26 DEF TrimScanned, MutexInv, TypeOK, TrimPC,
       registryVars, cacheVars, lifecycleVars, frameVars
  <1>27. CASE TrimPublish(t)
    BY ThreadAssumption, <1>27 DEF TrimPublish, MutexInv, TypeOK, TrimPC,
       registryVars, cacheVars, lifecycleVars, frameVars
  <1>28. QED
    BY <1>1, <1>2, <1>3, <1>4, <1>5, <1>6, <1>7, <1>8, <1>9, <1>10, <1>11, <1>12,
       <1>13, <1>14, <1>15, <1>16, <1>17, <1>18, <1>19, <1>20, <1>21, <1>22, <1>23,
       <1>24, <1>25, <1>26, <1>27
       DEF ThreadNext, Step, Call, Lifetime

\* A step that leaves the stacks alone where that of t is empty.
LEMMA StackSame ==
    ASSUME StackInv, NEW t \in Thread, UNCHANGED available,
           \A c \in Class : available[t][c] = {},
           \A u \in Thread \ {t} : pc'[u] = pc[u] /\ cls'[u] = cls[u]
    PROVE  StackInv'
  BY DEF StackInv

\* Every step leaves lists on the stack of a thread only where the code still
\* publishes or uses them.
LEMMA StackStep ==
    ASSUME Inv, TypeOK', NEW t \in Thread, ThreadNext(t)
    PROVE  StackInv'
  <1> USE DEF Inv, ControlInv
  <1>1. ASSUME NEW c \in Class, MallocCall(t, c) PROVE StackInv'
    BY ClassFacts, <1>1 DEF MallocCall, AllocateSmall, AllocationReturns, StackInv,
       TypeOK, TrimPC, registryVars, cacheVars, lifecycleVars, frameVars, CanCall
  <1>2. ASSUME NEW b \in Block, NEW c \in Class, ReallocCall(t, b, c) PROVE StackInv'
    BY ClassFacts, <1>2 DEF ReallocCall, AllocateSmall, AllocationReturns, StackInv,
       TypeOK, TrimPC, registryVars, cacheVars, lifecycleVars, frameVars, CanCall
  <1>3. CASE Detach(t)
    BY ClassFacts, <1>3 DEF Detach, transfer_mutex_detach, StackInv, TypeOK, TrimPC,
       registryVars, cacheVars, lifecycleVars, frameVars
  <1>4. CASE Lock(t)
    BY ClassFacts, <1>4 DEF Lock, StackInv, TypeOK, TrimPC, registryVars, cacheVars,
       lifecycleVars, frameVars
  <1>5. CASE LockFails(t)
    BY ClassFacts, <1>5 DEF LockFails, AllocationFails, StackInv, TypeOK, TrimPC,
       registryVars, cacheVars, lifecycleVars, frameVars
  <1>6. CASE Recheck(t)
    BY ClassFacts, <1>6 DEF Recheck, transfer_mutex_detach, StackInv, TypeOK,
       TrimPC, registryVars, cacheVars, lifecycleVars, frameVars
  <1>7. ASSUME NEW s \in Slab, CreateSlab(t, s) PROVE StackInv'
    BY ClassFacts, <1>7 DEF CreateSlab, StackInv, TypeOK, TrimPC, registryVars,
       cacheVars, lifecycleVars, frameVars
  <1>8. CASE CreateFails(t)
    BY ClassFacts, <1>8 DEF CreateFails, AllocationFails, StackInv, TypeOK, TrimPC,
       registryVars, cacheVars, lifecycleVars, frameVars
  <1>9. CASE RefillCache(t)
    BY ClassFacts, <1>9 DEF RefillCache, AllocationReturns, StackInv, TypeOK,
       TrimPC, registryVars, cacheVars, lifecycleVars, frameVars
  <1>10. CASE RefillDirect(t)
    BY ClassFacts, <1>10 DEF RefillDirect, AllocationReturns, StackInv, TypeOK,
       TrimPC, registryVars, cacheVars, lifecycleVars, frameVars
  <1>11. ASSUME NEW b \in Block, FreeCall(t, b) PROVE StackInv'
    <2>1. UNCHANGED available /\ \A u \in Thread \ {t} : pc'[u] = pc[u] /\ cls'[u] = cls[u]
      BY <1>11 DEF FreeCall, FreeBlock, TypeOK
    <2>2. \A c \in Class : available[t][c] = {}
      BY <1>11 DEF FreeCall, CanCall, StackInv
    <2>3. QED
      BY <2>1, <2>2, StackSame
  <1>12. CASE FreeOld(t)
    <2>1. UNCHANGED available /\ \A u \in Thread \ {t} : pc'[u] = pc[u] /\ cls'[u] = cls[u]
      BY <1>12 DEF FreeOld, FreeBlock, TypeOK
    <2>2. \A c \in Class : available[t][c] = {}
      BY <1>12 DEF FreeOld, StackInv
    <2>3. QED
      BY <2>1, <2>2, StackSame
  <1>13. ASSUME NEW c \in Class, Evict(t, c) PROVE StackInv'
    BY ClassFacts, <1>13 DEF Evict, StackInv, TypeOK, TrimPC, registryVars,
       cacheVars, lifecycleVars, frameVars
  <1>14. CASE FreeReturns(t)
    BY ClassFacts, <1>14 DEF FreeReturns, StackInv, TypeOK, TrimPC, registryVars,
       cacheVars, lifecycleVars, frameVars
  <1>15. CASE FlushCall(t)
    BY ClassFacts, <1>15 DEF FlushCall, StackInv, TypeOK, TrimPC, registryVars,
       cacheVars, lifecycleVars, frameVars, CanCall
  <1>16. CASE FlushClass(t)
    <2>1. UNCHANGED available /\ \A u \in Thread \ {t} : pc'[u] = pc[u] /\ cls'[u] = cls[u]
      BY <1>16 DEF FlushClass, TypeOK
    <2>2. \A c \in Class : available[t][c] = {}
      BY <1>16 DEF FlushClass, StackInv
    <2>3. QED
      BY <2>1, <2>2, StackSame
  <1>17. CASE ThreadExit(t)
    BY ClassFacts, <1>17 DEF ThreadExit, StackInv, TypeOK, TrimPC, registryVars,
       cacheVars, lifecycleVars, frameVars, CanCall
  <1>18. CASE DestroyDescriptor(t)
    BY ClassFacts, <1>18 DEF DestroyDescriptor, StackInv, TypeOK, TrimPC,
       registryVars, cacheVars, lifecycleVars, frameVars, CanCall
  <1>19. CASE ReleaseDescriptor(t)
    BY ClassFacts, <1>19 DEF ReleaseDescriptor, StackInv, TypeOK, TrimPC,
       registryVars, cacheVars, lifecycleVars, frameVars
  <1>20. CASE ThreadGone(t)
    BY ClassFacts, <1>20 DEF ThreadGone, StackInv, TypeOK, TrimPC, registryVars,
       cacheVars, lifecycleVars, frameVars
  <1>21. CASE ThreadStart(t)
    BY ClassFacts, <1>21 DEF ThreadStart, StackInv, TypeOK, TrimPC, registryVars,
       cacheVars, lifecycleVars, frameVars
  <1>22. CASE TrimCall(t)
    BY ClassFacts, <1>22 DEF TrimCall, StackInv, TypeOK, TrimPC, registryVars,
       cacheVars, lifecycleVars, frameVars, CanCall
  <1>23. CASE TrimDetach(t)
    BY ClassFacts, <1>23 DEF TrimDetach, transfer_mutex_detach, StackInv, TypeOK,
       TrimPC, registryVars, cacheVars, lifecycleVars, frameVars
  <1>24. ASSUME NEW s \in Slab, TrimKeep(t, s) PROVE StackInv'
    BY ClassFacts, <1>24 DEF TrimKeep, StackInv, TypeOK, TrimPC, registryVars,
       cacheVars, lifecycleVars, frameVars
  <1>25. ASSUME NEW s \in Slab, TrimUnmap(t, s) PROVE StackInv'
    BY ClassFacts, <1>25 DEF TrimUnmap, StackInv, TypeOK, TrimPC, registryVars,
       cacheVars, lifecycleVars, frameVars
  <1>26. CASE TrimScanned(t)
    BY ClassFacts, <1>26 DEF TrimScanned, StackInv, TypeOK, TrimPC, registryVars,
       cacheVars, lifecycleVars, frameVars
  <1>27. CASE TrimPublish(t)
    BY ClassFacts, <1>27 DEF TrimPublish, StackInv, TypeOK, TrimPC, registryVars,
       cacheVars, lifecycleVars, frameVars
  <1>28. QED
    BY <1>1, <1>2, <1>3, <1>4, <1>5, <1>6, <1>7, <1>8, <1>9, <1>10, <1>11, <1>12,
       <1>13, <1>14, <1>15, <1>16, <1>17, <1>18, <1>19, <1>20, <1>21, <1>22, <1>23,
       <1>24, <1>25, <1>26, <1>27
       DEF ThreadNext, Step, Call, Lifetime

\* What hplf_cache_acquire does to the lifecycle.
AcquireEffect(t) ==
    /\ UNCHANGED thread
    /\ \A u \in Thread \ {t} :
          /\ current_state'[u] = current_state[u]
          /\ descriptor'[u] = descriptor[u]
          /\ u \in key_value' <=> u \in key_value
    /\ current_state'[t] = "active" <=> t \in key_value'
    /\ current_state'[t] = "active" <=> descriptor'[t] = "mapped"
    /\ current_state[t] = "active" => current_state'[t] = "active"

\* What hplf_cache_acquire does, without the reasons for which it may fail.
LEMMA AcquireStep ==
    ASSUME TypeOK, CacheInv, NEW t \in Thread, hplf_cache_acquire(t),
           pc[t] \notin {"destroy", "release"}
    PROVE  AcquireEffect(t)
  <1>1. CASE UNCHANGED lifecycleVars
    BY <1>1 DEF AcquireEffect, lifecycleVars, CacheInv
  <1>2. CASE /\ current_state[t] = "uninitialized"
             /\ current_state' = [current_state EXCEPT ![t] = "active"]
             /\ descriptor' = [descriptor EXCEPT ![t] = "mapped"]
             /\ pthread_setspecific(t)
             /\ UNCHANGED thread
    BY <1>2 DEF AcquireEffect, TypeOK, pthread_setspecific
  <1>3. CASE /\ current_state[t] = "uninitialized"
             /\ current_state' = [current_state EXCEPT ![t] = "uncached"]
             /\ UNCHANGED descriptor \/ unmap_descriptor(t)
             /\ UNCHANGED <<key_value, thread>>
    BY <1>3 DEF AcquireEffect, TypeOK, unmap_descriptor, CacheInv
  <1>4. QED
    BY <1>1, <1>2, <1>3 DEF hplf_cache_acquire

\* A call that acquires the cache and puts blocks only into an active one.
LEMMA CacheAfterAcquire ==
    ASSUME CacheInv, NEW t \in Thread, AcquireEffect(t), thread[t] # "exited",
           pc[t] \notin {"destroy", "release"}, pc'[t] \notin {"destroy", "release"},
           \A u \in Thread \ {t} :
              pc'[u] = pc[u] /\ cls'[u] = cls[u] /\ local'[u] = local[u],
           \A c \in Class : local'[t][c] # {} =>
              local[t][c] # {} \/ current_state'[t] = "active"
    PROVE  CacheInv'
  BY DEF CacheInv, AcquireEffect

\* Every step keeps a cache reachable as long as it holds blocks.
LEMMA CacheStep ==
    ASSUME Inv, TypeOK', NEW t \in Thread, ThreadNext(t)
    PROVE  CacheInv'
  <1> USE DEF Inv, ControlInv
  <1>1. ASSUME NEW c \in Class, MallocCall(t, c) PROVE CacheInv'
    <2>1. pc[t] \notin {"destroy", "release"} /\ thread[t] # "exited"
      BY <1>1 DEF MallocCall, CanCall, CacheInv
    <2>2. AcquireEffect(t)
      BY <1>1, <2>1, AcquireStep DEF MallocCall, AllocateSmall
    <2>3. pc'[t] \notin {"destroy", "release"}
      BY <1>1 DEF MallocCall, AllocateSmall, AllocationReturns, TypeOK
    <2>4. \A u \in Thread \ {t} :
             pc'[u] = pc[u] /\ cls'[u] = cls[u] /\ local'[u] = local[u]
      BY <1>1 DEF MallocCall, AllocateSmall, AllocationReturns, thread_cache_take, cacheVars, TypeOK
    <2>5. \A d \in Class : local'[t][d] # {} =>
             local[t][d] # {} \/ current_state'[t] = "active"
      BY <1>1 DEF MallocCall, AllocateSmall, thread_cache_take, cacheVars, TypeOK
    <2>6. QED
      BY <2>1, <2>2, <2>3, <2>4, <2>5, CacheAfterAcquire
  <1>2. ASSUME NEW b \in Block, NEW c \in Class, ReallocCall(t, b, c) PROVE CacheInv'
    <2>1. pc[t] \notin {"destroy", "release"} /\ thread[t] # "exited"
      BY <1>2 DEF ReallocCall, CanCall, CacheInv
    <2>2. AcquireEffect(t)
      BY <1>2, <2>1, AcquireStep DEF ReallocCall, AllocateSmall
    <2>3. pc'[t] \notin {"destroy", "release"}
      BY <1>2 DEF ReallocCall, AllocateSmall, AllocationReturns, TypeOK
    <2>4. \A u \in Thread \ {t} :
             pc'[u] = pc[u] /\ cls'[u] = cls[u] /\ local'[u] = local[u]
      BY <1>2
      DEF ReallocCall, AllocateSmall, AllocationReturns, thread_cache_take, cacheVars, TypeOK
    <2>5. \A d \in Class : local'[t][d] # {} =>
             local[t][d] # {} \/ current_state'[t] = "active"
      BY <1>2 DEF ReallocCall, AllocateSmall, thread_cache_take, cacheVars, TypeOK
    <2>6. QED
      BY <2>1, <2>2, <2>3, <2>4, <2>5, CacheAfterAcquire
  <1>3. CASE Detach(t)
    BY ClassFacts, <1>3 DEF Detach, CacheInv, TypeOK, TrimPC, registryVars,
       cacheVars, lifecycleVars, frameVars
  <1>4. CASE Lock(t)
    BY ClassFacts, <1>4 DEF Lock, CacheInv, TypeOK, TrimPC, registryVars, cacheVars,
       lifecycleVars, frameVars
  <1>5. CASE LockFails(t)
    BY ClassFacts, <1>5 DEF LockFails, AllocationFails, CacheInv, TypeOK, TrimPC,
       registryVars, cacheVars, lifecycleVars, frameVars
  <1>6. CASE Recheck(t)
    BY ClassFacts, <1>6 DEF Recheck, CacheInv, TypeOK, TrimPC, registryVars,
       cacheVars, lifecycleVars, frameVars
  <1>7. ASSUME NEW s \in Slab, CreateSlab(t, s) PROVE CacheInv'
    BY ClassFacts, <1>7 DEF CreateSlab, CacheInv, TypeOK, TrimPC, registryVars,
       cacheVars, lifecycleVars, frameVars
  <1>8. CASE CreateFails(t)
    BY ClassFacts, <1>8 DEF CreateFails, AllocationFails, CacheInv, TypeOK, TrimPC,
       registryVars, cacheVars, lifecycleVars, frameVars
  <1>9. CASE RefillCache(t)
    BY ClassFacts, <1>9 DEF RefillCache, Prefixes, refill_and_take,
       AllocationReturns, CacheInv, TypeOK, TrimPC, registryVars, cacheVars,
       lifecycleVars, frameVars
  <1>10. CASE RefillDirect(t)
    BY ClassFacts, <1>10 DEF RefillDirect, AllocationReturns, CacheInv, TypeOK,
       TrimPC, registryVars, cacheVars, lifecycleVars, frameVars
  <1>11. ASSUME NEW b \in Block, FreeCall(t, b) PROVE CacheInv'
    <2>1. pc[t] \notin {"destroy", "release"} /\ thread[t] # "exited"
      BY <1>11 DEF FreeCall, CanCall, CacheInv
    <2>2. AcquireEffect(t)
      BY <1>11, <2>1, AcquireStep DEF FreeCall, FreeBlock
    <2>3. pc'[t] \notin {"destroy", "release"}
      BY <1>11 DEF FreeCall, FreeBlock, AllocationReturns, TypeOK
    <2>4. \A u \in Thread \ {t} :
             pc'[u] = pc[u] /\ cls'[u] = cls[u] /\ local'[u] = local[u]
      BY <1>11 DEF FreeCall, FreeBlock, AllocationReturns, thread_cache_store, cacheVars, TypeOK
    <2>5. \A d \in Class : local'[t][d] # {} =>
             local[t][d] # {} \/ current_state'[t] = "active"
      BY <1>11 DEF FreeCall, FreeBlock, thread_cache_store, cacheVars, TypeOK
    <2>6. QED
      BY <2>1, <2>2, <2>3, <2>4, <2>5, CacheAfterAcquire
  <1>12. CASE FreeOld(t)
    <2>1. pc[t] \notin {"destroy", "release"} /\ thread[t] # "exited"
      BY <1>12 DEF FreeOld, CanCall, CacheInv
    <2>2. AcquireEffect(t)
      BY <1>12, <2>1, AcquireStep DEF FreeOld, FreeBlock
    <2>3. pc'[t] \notin {"destroy", "release"}
      BY <1>12 DEF FreeOld, FreeBlock, AllocationReturns, TypeOK
    <2>4. \A u \in Thread \ {t} :
             pc'[u] = pc[u] /\ cls'[u] = cls[u] /\ local'[u] = local[u]
      BY <1>12 DEF FreeOld, FreeBlock, AllocationReturns, thread_cache_store, cacheVars, TypeOK
    <2>5. \A d \in Class : local'[t][d] # {} =>
             local[t][d] # {} \/ current_state'[t] = "active"
      BY <1>12 DEF FreeOld, FreeBlock, thread_cache_store, cacheVars, TypeOK
    <2>6. QED
      BY <2>1, <2>2, <2>3, <2>4, <2>5, CacheAfterAcquire
  <1>13. ASSUME NEW c \in Class, Evict(t, c) PROVE CacheInv'
    BY ClassFacts, <1>13 DEF Evict, Prefixes, thread_cache_extract_class, CacheInv,
       TypeOK, TrimPC, registryVars, cacheVars, lifecycleVars, frameVars
  <1>14. CASE FreeReturns(t)
    BY ClassFacts, <1>14 DEF FreeReturns, CacheInv, TypeOK, TrimPC, registryVars,
       cacheVars, lifecycleVars, frameVars
  <1>15. CASE FlushCall(t)
    BY ClassFacts, <1>15 DEF FlushCall, CacheInv, TypeOK, TrimPC, registryVars,
       cacheVars, lifecycleVars, frameVars, CanCall
  <1>16. CASE FlushClass(t)
    <2>1. /\ UNCHANGED lifecycleVars
          /\ local'[t][cls[t]] = {}
          /\ \A c \in Class \ {cls[t]} : local'[t][c] = local[t][c]
          /\ \A u \in Thread \ {t} : local'[u] = local[u]
      BY <1>16 DEF FlushClass, thread_cache_extract_class, TypeOK
    <2>2. CASE /\ cls[t] < LastClass
               /\ cls' = [cls EXCEPT ![t] = cls[t] + 1] /\ UNCHANGED pc
      <3>1. \A c \in Class : c # cls[t] /\ c >= cls[t] => c >= cls'[t]
        BY ClassFacts, <2>2 DEF TypeOK, Class
      <3>2. \A u \in Thread \ {t} : cls'[u] = cls[u]
        BY <2>2 DEF TypeOK
      <3>3. \A c \in Class : local'[t][c] # {} =>
               current_state[t] = "active" \/ (pc[t] = "destroy" /\ c >= cls'[t])
        BY <2>1, <3>1 DEF CacheInv, TypeOK
      <3>4. QED
        BY <2>1, <2>2, <3>2, <3>3 DEF CacheInv, lifecycleVars
    <2>3. CASE /\ ~(cls[t] < LastClass)
               /\ pc' = [pc EXCEPT ![t] = IF pc[t] = "flush" THEN "idle" ELSE "release"]
               /\ UNCHANGED cls
      <3>1. cls[t] = LastClass /\ \A c \in Class : c >= cls[t] => c = cls[t]
        BY ClassFacts, <2>3 DEF TypeOK
      <3>2. pc[t] \in {"flush", "destroy"} /\ pc'[t] \in {"idle", "release"}
        BY <1>16, <2>3 DEF FlushClass, TypeOK
      <3>3. \A c \in Class : local'[t][c] # {} => current_state[t] = "active"
        BY <2>1, <3>1, <3>2 DEF CacheInv, TypeOK
      <3>4. \A u \in Thread \ {t} : pc'[u] = pc[u] /\ local'[u] = local[u]
        BY <2>1, <2>3 DEF TypeOK
      <3>5. pc[t] = "destroy" => pc'[t] = "release"
        BY <2>3 DEF TypeOK
      <3>6. pc[t] = "flush" => pc'[t] = "idle"
        BY <2>3 DEF TypeOK
      <3>7. QED
        BY <2>1, <2>3, <3>2, <3>3, <3>4, <3>5, <3>6 DEF CacheInv, lifecycleVars
    <2>4. QED
      BY <1>16, <2>2, <2>3, ClassFacts DEF FlushClass, TypeOK
  <1>17. CASE ThreadExit(t)
    BY ClassFacts, <1>17 DEF ThreadExit, CacheInv, TypeOK, TrimPC, registryVars,
       cacheVars, lifecycleVars, frameVars, CanCall
  <1>18. CASE DestroyDescriptor(t)
    BY ClassFacts, <1>18 DEF DestroyDescriptor, BecomesUncached, CacheInv, TypeOK,
       TrimPC, registryVars, cacheVars, lifecycleVars, frameVars, CanCall
  <1>19. CASE ReleaseDescriptor(t)
    BY ClassFacts, <1>19 DEF ReleaseDescriptor, unmap_descriptor, EmptyLists,
       CacheInv, TypeOK, TrimPC, registryVars, cacheVars, lifecycleVars, frameVars
  <1>20. CASE ThreadGone(t)
    BY ClassFacts, <1>20 DEF ThreadGone, CacheInv, TypeOK, TrimPC, registryVars,
       cacheVars, lifecycleVars, frameVars
  <1>21. CASE ThreadStart(t)
    BY ClassFacts, <1>21 DEF ThreadStart, CacheInv, TypeOK, TrimPC, registryVars,
       cacheVars, lifecycleVars, frameVars
  <1>22. CASE TrimCall(t)
    BY ClassFacts, <1>22 DEF TrimCall, CacheInv, TypeOK, TrimPC, registryVars,
       cacheVars, lifecycleVars, frameVars, CanCall
  <1>23. CASE TrimDetach(t)
    <2>1. /\ UNCHANGED <<lifecycleVars, cacheVars>>
          /\ \A u \in Thread \ {t} : pc'[u] = pc[u] /\ cls'[u] = cls[u]
          /\ pc[t] = "trim_detach" /\ pc'[t] \in {"trim_detach", "trim_scan"}
      BY <1>23 DEF TrimDetach, TypeOK
    <2>2. QED
      BY <2>1 DEF CacheInv, lifecycleVars, cacheVars
  <1>24. ASSUME NEW s \in Slab, TrimKeep(t, s) PROVE CacheInv'
    BY ClassFacts, <1>24 DEF TrimKeep, CacheInv, TypeOK, TrimPC, registryVars,
       cacheVars, lifecycleVars, frameVars
  <1>25. ASSUME NEW s \in Slab, TrimUnmap(t, s) PROVE CacheInv'
    BY ClassFacts, <1>25 DEF TrimUnmap, CacheInv, TypeOK, TrimPC, registryVars,
       cacheVars, lifecycleVars, frameVars
  <1>26. CASE TrimScanned(t)
    BY ClassFacts, <1>26 DEF TrimScanned, CacheInv, TypeOK, TrimPC, registryVars,
       cacheVars, lifecycleVars, frameVars
  <1>27. CASE TrimPublish(t)
    BY ClassFacts, <1>27 DEF TrimPublish, CacheInv, TypeOK, TrimPC, registryVars,
       cacheVars, lifecycleVars, frameVars
  <1>28. QED
    BY <1>1, <1>2, <1>3, <1>4, <1>5, <1>6, <1>7, <1>8, <1>9, <1>10, <1>11, <1>12,
       <1>13, <1>14, <1>15, <1>16, <1>17, <1>18, <1>19, <1>20, <1>21, <1>22, <1>23,
       <1>24, <1>25, <1>26, <1>27
       DEF ThreadNext, Step, Call, Lifetime

\* Every step keeps the block that a realloc replaces live and unshared.
LEMMA ReallocStep ==
    ASSUME Inv, NEW t \in Thread, ThreadNext(t)
    PROVE  ReallocInv'
  <1> USE DEF Inv, ControlInv
  <1>1. ASSUME NEW c \in Class, MallocCall(t, c) PROVE ReallocInv'
    BY BlockAssumption, <1>1 DEF MallocCall, AllocateSmall, AllocationReturns,
       ReallocInv, TypeOK, TrimPC, registryVars, cacheVars, lifecycleVars,
       frameVars, CanCall
  <1>2. ASSUME NEW b \in Block, NEW c \in Class, ReallocCall(t, b, c) PROVE ReallocInv'
    BY BlockAssumption, <1>2 DEF ReallocCall, AllocateSmall, AllocationReturns,
       InRealloc, ReallocInv, TypeOK, TrimPC, registryVars, cacheVars,
       lifecycleVars, frameVars, CanCall
  <1>3. CASE Detach(t)
    BY BlockAssumption, <1>3 DEF Detach, ReallocInv, TypeOK, TrimPC, registryVars,
       cacheVars, lifecycleVars, frameVars
  <1>4. CASE Lock(t)
    BY BlockAssumption, <1>4 DEF Lock, ReallocInv, TypeOK, TrimPC, registryVars,
       cacheVars, lifecycleVars, frameVars
  <1>5. CASE LockFails(t)
    BY BlockAssumption, <1>5 DEF LockFails, AllocationFails, ReallocInv, TypeOK,
       TrimPC, registryVars, cacheVars, lifecycleVars, frameVars
  <1>6. CASE Recheck(t)
    <2>1. \/ pc' = [pc EXCEPT ![t] = "create"]
          \/ pc' = [pc EXCEPT ![t] = "refill"]
      BY <1>6 DEF Recheck
    <2>2. QED
      BY <1>6, <2>1 DEF Recheck, ReallocInv, TypeOK
  <1>7. ASSUME NEW s \in Slab, CreateSlab(t, s) PROVE ReallocInv'
    BY BlockAssumption, <1>7 DEF CreateSlab, ReallocInv, TypeOK, TrimPC,
       registryVars, cacheVars, lifecycleVars, frameVars
  <1>8. CASE CreateFails(t)
    BY BlockAssumption, <1>8 DEF CreateFails, AllocationFails, ReallocInv, TypeOK,
       TrimPC, registryVars, cacheVars, lifecycleVars, frameVars
  <1>9. CASE RefillCache(t)
    BY BlockAssumption, <1>9 DEF RefillCache, AllocationReturns, ReallocInv, TypeOK,
       TrimPC, registryVars, cacheVars, lifecycleVars, frameVars
  <1>10. CASE RefillDirect(t)
    BY BlockAssumption, <1>10 DEF RefillDirect, AllocationReturns, ReallocInv,
       TypeOK, TrimPC, registryVars, cacheVars, lifecycleVars, frameVars
  <1>11. ASSUME NEW b \in Block, FreeCall(t, b) PROVE ReallocInv'
    BY BlockAssumption, <1>11 DEF FreeCall, FreeBlock, InRealloc, ReallocInv,
       TypeOK, TrimPC, registryVars, cacheVars, lifecycleVars, frameVars, CanCall
  <1>12. CASE FreeOld(t)
    BY BlockAssumption, <1>12 DEF FreeOld, FreeBlock, ReallocInv, TypeOK, TrimPC,
       registryVars, cacheVars, lifecycleVars, frameVars
  <1>13. ASSUME NEW c \in Class, Evict(t, c) PROVE ReallocInv'
    BY BlockAssumption, <1>13 DEF Evict, ReallocInv, TypeOK, TrimPC, registryVars,
       cacheVars, lifecycleVars, frameVars
  <1>14. CASE FreeReturns(t)
    BY BlockAssumption, <1>14 DEF FreeReturns, ReallocInv, TypeOK, TrimPC,
       registryVars, cacheVars, lifecycleVars, frameVars
  <1>15. CASE FlushCall(t)
    BY BlockAssumption, <1>15 DEF FlushCall, ReallocInv, TypeOK, TrimPC,
       registryVars, cacheVars, lifecycleVars, frameVars, CanCall
  <1>16. CASE FlushClass(t)
    BY BlockAssumption, <1>16 DEF FlushClass, ReallocInv, TypeOK, TrimPC,
       registryVars, cacheVars, lifecycleVars, frameVars
  <1>17. CASE ThreadExit(t)
    BY BlockAssumption, <1>17 DEF ThreadExit, ReallocInv, TypeOK, TrimPC,
       registryVars, cacheVars, lifecycleVars, frameVars, CanCall
  <1>18. CASE DestroyDescriptor(t)
    BY BlockAssumption, <1>18 DEF DestroyDescriptor, ReallocInv, TypeOK, TrimPC,
       registryVars, cacheVars, lifecycleVars, frameVars, CanCall
  <1>19. CASE ReleaseDescriptor(t)
    BY BlockAssumption, <1>19 DEF ReleaseDescriptor, ReallocInv, TypeOK, TrimPC,
       registryVars, cacheVars, lifecycleVars, frameVars
  <1>20. CASE ThreadGone(t)
    BY BlockAssumption, <1>20 DEF ThreadGone, ReallocInv, TypeOK, TrimPC,
       registryVars, cacheVars, lifecycleVars, frameVars
  <1>21. CASE ThreadStart(t)
    BY BlockAssumption, <1>21 DEF ThreadStart, ReallocInv, TypeOK, TrimPC,
       registryVars, cacheVars, lifecycleVars, frameVars
  <1>22. CASE TrimCall(t)
    BY BlockAssumption, <1>22 DEF TrimCall, ReallocInv, TypeOK, TrimPC,
       registryVars, cacheVars, lifecycleVars, frameVars, CanCall
  <1>23. CASE TrimDetach(t)
    BY BlockAssumption, <1>23 DEF TrimDetach, ReallocInv, TypeOK, TrimPC,
       registryVars, cacheVars, lifecycleVars, frameVars
  <1>24. ASSUME NEW s \in Slab, TrimKeep(t, s) PROVE ReallocInv'
    BY BlockAssumption, <1>24 DEF TrimKeep, ReallocInv, TypeOK, TrimPC,
       registryVars, cacheVars, lifecycleVars, frameVars
  <1>25. ASSUME NEW s \in Slab, TrimUnmap(t, s) PROVE ReallocInv'
    BY BlockAssumption, <1>25 DEF TrimUnmap, ReallocInv, TypeOK, TrimPC,
       registryVars, cacheVars, lifecycleVars, frameVars
  <1>26. CASE TrimScanned(t)
    BY BlockAssumption, <1>26 DEF TrimScanned, ReallocInv, TypeOK, TrimPC,
       registryVars, cacheVars, lifecycleVars, frameVars
  <1>27. CASE TrimPublish(t)
    BY BlockAssumption, <1>27 DEF TrimPublish, ReallocInv, TypeOK, TrimPC,
       registryVars, cacheVars, lifecycleVars, frameVars
  <1>28. QED
    BY <1>1, <1>2, <1>3, <1>4, <1>5, <1>6, <1>7, <1>8, <1>9, <1>10, <1>11, <1>12,
       <1>13, <1>14, <1>15, <1>16, <1>17, <1>18, <1>19, <1>20, <1>21, <1>22, <1>23,
       <1>24, <1>25, <1>26, <1>27
       DEF ThreadNext, Step, Call, Lifetime

\* A step that leaves the registry alone and is not the scan of a trim.
LEMMA RegistrySame ==
    ASSUME RegistryInv, NEW t \in Thread, UNCHANGED <<slab_class, slabs, scan>>,
           pc[t] # "trim_scan", \A u \in Thread \ {t} : pc'[u] = pc[u]
    PROVE  RegistryInv'
  BY DEF RegistryInv

\* Every step keeps the registry equal to the set of mapped slabs.
LEMMA RegistryStep ==
    ASSUME Inv, TypeOK', NEW t \in Thread, ThreadNext(t)
    PROVE  RegistryInv'
  <1> USE DEF Inv, ControlInv
  <1>1. ASSUME NEW c \in Class, MallocCall(t, c) PROVE RegistryInv'
    <2>1. UNCHANGED <<slab_class, slabs, scan>> /\ \A u \in Thread \ {t} : pc'[u] = pc[u]
      BY <1>1 DEF MallocCall, AllocateSmall, AllocationReturns, TypeOK, registryVars
    <2>2. pc[t] # "trim_scan"
      BY <1>1 DEF MallocCall, AllocateSmall, AllocationReturns, CanCall
    <2>3. QED
      BY <2>1, <2>2, RegistrySame
  <1>2. ASSUME NEW b \in Block, NEW c \in Class, ReallocCall(t, b, c) PROVE RegistryInv'
    <2>1. UNCHANGED <<slab_class, slabs, scan>> /\ \A u \in Thread \ {t} : pc'[u] = pc[u]
      BY <1>2 DEF ReallocCall, AllocateSmall, AllocationReturns, TypeOK, registryVars
    <2>2. pc[t] # "trim_scan"
      BY <1>2 DEF ReallocCall, AllocateSmall, AllocationReturns, CanCall
    <2>3. QED
      BY <2>1, <2>2, RegistrySame
  <1>3. CASE Detach(t)
    BY ClassFacts, <1>3 DEF Detach, RegistryInv, MutexInv, TypeOK, TrimPC,
       registryVars, cacheVars, lifecycleVars, frameVars
  <1>4. CASE Lock(t)
    BY ClassFacts, <1>4 DEF Lock, RegistryInv, MutexInv, TypeOK, TrimPC,
       registryVars, cacheVars, lifecycleVars, frameVars
  <1>5. CASE LockFails(t)
    BY ClassFacts, <1>5 DEF LockFails, AllocationFails, RegistryInv, MutexInv,
       TypeOK, TrimPC, registryVars, cacheVars, lifecycleVars, frameVars
  <1>6. CASE Recheck(t)
    <2>1. UNCHANGED <<slab_class, slabs, scan>> /\ \A u \in Thread \ {t} : pc'[u] = pc[u]
      BY <1>6 DEF Recheck, TypeOK, registryVars
    <2>2. pc[t] # "trim_scan"
      BY <1>6 DEF Recheck, CanCall
    <2>3. QED
      BY <2>1, <2>2, RegistrySame
  <1>7. ASSUME NEW s \in Slab, CreateSlab(t, s) PROVE RegistryInv'
    BY ClassFacts, <1>7 DEF CreateSlab, RegistryInv, MutexInv, TypeOK, TrimPC,
       registryVars, cacheVars, lifecycleVars, frameVars
  <1>8. CASE CreateFails(t)
    BY ClassFacts, <1>8 DEF CreateFails, AllocationFails, RegistryInv, MutexInv,
       TypeOK, TrimPC, registryVars, cacheVars, lifecycleVars, frameVars
  <1>9. CASE RefillCache(t)
    BY ClassFacts, <1>9 DEF RefillCache, AllocationReturns, RegistryInv, MutexInv,
       TypeOK, TrimPC, registryVars, cacheVars, lifecycleVars, frameVars
  <1>10. CASE RefillDirect(t)
    BY ClassFacts, <1>10 DEF RefillDirect, AllocationReturns, RegistryInv, MutexInv,
       TypeOK, TrimPC, registryVars, cacheVars, lifecycleVars, frameVars
  <1>11. ASSUME NEW b \in Block, FreeCall(t, b) PROVE RegistryInv'
    <2>1. UNCHANGED <<slab_class, slabs, scan>> /\ \A u \in Thread \ {t} : pc'[u] = pc[u]
      BY <1>11 DEF FreeCall, FreeBlock, TypeOK, registryVars
    <2>2. pc[t] # "trim_scan"
      BY <1>11 DEF FreeCall, FreeBlock, CanCall
    <2>3. QED
      BY <2>1, <2>2, RegistrySame
  <1>12. CASE FreeOld(t)
    <2>1. UNCHANGED <<slab_class, slabs, scan>> /\ \A u \in Thread \ {t} : pc'[u] = pc[u]
      BY <1>12 DEF FreeOld, FreeBlock, TypeOK, registryVars
    <2>2. pc[t] # "trim_scan"
      BY <1>12 DEF FreeOld, FreeBlock, CanCall
    <2>3. QED
      BY <2>1, <2>2, RegistrySame
  <1>13. ASSUME NEW c \in Class, Evict(t, c) PROVE RegistryInv'
    BY ClassFacts, <1>13 DEF Evict, RegistryInv, MutexInv, TypeOK, TrimPC,
       registryVars, cacheVars, lifecycleVars, frameVars
  <1>14. CASE FreeReturns(t)
    BY ClassFacts, <1>14 DEF FreeReturns, RegistryInv, MutexInv, TypeOK, TrimPC,
       registryVars, cacheVars, lifecycleVars, frameVars
  <1>15. CASE FlushCall(t)
    BY ClassFacts, <1>15 DEF FlushCall, RegistryInv, MutexInv, TypeOK, TrimPC,
       registryVars, cacheVars, lifecycleVars, frameVars, CanCall
  <1>16. CASE FlushClass(t)
    <2>1. UNCHANGED <<slab_class, slabs, scan>> /\ \A u \in Thread \ {t} : pc'[u] = pc[u]
      BY <1>16 DEF FlushClass, TypeOK, registryVars
    <2>2. pc[t] # "trim_scan"
      BY <1>16 DEF FlushClass, CanCall
    <2>3. QED
      BY <2>1, <2>2, RegistrySame
  <1>17. CASE ThreadExit(t)
    BY ClassFacts, <1>17 DEF ThreadExit, RegistryInv, MutexInv, TypeOK, TrimPC,
       registryVars, cacheVars, lifecycleVars, frameVars, CanCall
  <1>18. CASE DestroyDescriptor(t)
    BY ClassFacts, <1>18 DEF DestroyDescriptor, RegistryInv, MutexInv, TypeOK,
       TrimPC, registryVars, cacheVars, lifecycleVars, frameVars, CanCall
  <1>19. CASE ReleaseDescriptor(t)
    BY ClassFacts, <1>19 DEF ReleaseDescriptor, RegistryInv, MutexInv, TypeOK,
       TrimPC, registryVars, cacheVars, lifecycleVars, frameVars
  <1>20. CASE ThreadGone(t)
    BY ClassFacts, <1>20 DEF ThreadGone, RegistryInv, MutexInv, TypeOK, TrimPC,
       registryVars, cacheVars, lifecycleVars, frameVars
  <1>21. CASE ThreadStart(t)
    BY ClassFacts, <1>21 DEF ThreadStart, RegistryInv, MutexInv, TypeOK, TrimPC,
       registryVars, cacheVars, lifecycleVars, frameVars
  <1>22. CASE TrimCall(t)
    BY ClassFacts, <1>22 DEF TrimCall, RegistryInv, MutexInv, TypeOK, TrimPC,
       registryVars, cacheVars, lifecycleVars, frameVars, CanCall
  <1>23. CASE TrimDetach(t)
    BY ClassFacts, <1>23 DEF TrimDetach, RegistryInv, MutexInv, TypeOK, TrimPC,
       registryVars, cacheVars, lifecycleVars, frameVars
  <1>24. ASSUME NEW s \in Slab, TrimKeep(t, s) PROVE RegistryInv'
    BY ClassFacts, <1>24 DEF TrimKeep, RegistryInv, MutexInv, TypeOK, TrimPC,
       registryVars, cacheVars, lifecycleVars, frameVars
  <1>25. ASSUME NEW s \in Slab, TrimUnmap(t, s) PROVE RegistryInv'
    BY ClassFacts, <1>25 DEF TrimUnmap, RegistryInv, MutexInv, TypeOK, TrimPC,
       registryVars, cacheVars, lifecycleVars, frameVars
  <1>26. CASE TrimScanned(t)
    BY ClassFacts, <1>26 DEF TrimScanned, RegistryInv, MutexInv, TypeOK, TrimPC,
       registryVars, cacheVars, lifecycleVars, frameVars
  <1>27. CASE TrimPublish(t)
    <2>1. UNCHANGED <<slab_class, slabs, scan>> /\ \A u \in Thread \ {t} : pc'[u] = pc[u]
      BY <1>27 DEF TrimPublish, TypeOK, registryVars
    <2>2. pc[t] # "trim_scan"
      BY <1>27 DEF TrimPublish, CanCall
    <2>3. QED
      BY <2>1, <2>2, RegistrySame
  <1>28. QED
    BY <1>1, <1>2, <1>3, <1>4, <1>5, <1>6, <1>7, <1>8, <1>9, <1>10, <1>11, <1>12,
       <1>13, <1>14, <1>15, <1>16, <1>17, <1>18, <1>19, <1>20, <1>21, <1>22, <1>23,
       <1>24, <1>25, <1>26, <1>27
       DEF ThreadNext, Step, Call, Lifetime

-----------------------------------------------------------------------------
(***************************************************************************)
(* Ownership.  Apart from the creation and the unmapping of a slab, a step *)
(* of t moves blocks of one class c between the caller, the transfer list, *)
(* the cache of t and the stack of t, and touches nothing else.            *)
(***************************************************************************)

Owned == OneOwner /\ NoBlockLost /\ ClassSegregated

Transfers(t, c) ==
    /\ UNCHANGED slab_class
    /\ \A d \in Class \ {c} :
          /\ heads'[d] = heads[d]
          /\ local'[t][d] = local[t][d]
          /\ available'[t][d] = available[t][d]
    /\ \A u \in Thread \ {t} : local'[u] = local[u] /\ available'[u] = available[u]
    /\ \A b \in Block :
          (b \in live' \/ b \in heads'[c] \/ b \in local'[t][c] \/ b \in available'[t][c])
             <=> (b \in live \/ b \in heads[c] \/ b \in local[t][c] \/ b \in available[t][c])
    /\ \A b \in Block :
          /\ ~(b \in live' /\ b \in heads'[c])
          /\ ~(b \in live' /\ b \in local'[t][c])
          /\ ~(b \in live' /\ b \in available'[t][c])
          /\ ~(b \in heads'[c] /\ b \in local'[t][c])
          /\ ~(b \in heads'[c] /\ b \in available'[t][c])
          /\ ~(b \in local'[t][c] /\ b \in available'[t][c])
    /\ \A b \in Block :
          b \in heads'[c] \/ b \in local'[t][c] \/ b \in available'[t][c] =>
             slab_class[SlabOf(b)] = c

\* OneOwner, one block at a time.
BlockOwnedOnce(b) ==
    /\ b \in live => \A c \in Class : b \notin heads[c]
    /\ \A t \in Thread, c \in Class :
          b \in local[t][c] \/ b \in available[t][c] =>
             /\ b \notin live
             /\ b \notin heads[c]
             /\ ~(b \in local[t][c] /\ b \in available[t][c])
             /\ \A u \in Thread \ {t} : b \notin local[u][c] /\ b \notin available[u][c]

\* OneOwner says of every block that it is in at most one place.
LEMMA OneOwnerByBlock ==
    ASSUME TypeOK
    PROVE  OneOwner <=> \A b \in Block : BlockOwnedOnce(b)
  <1>1. ASSUME OneOwner PROVE \A b \in Block : BlockOwnedOnce(b)
    BY <1>1 DEF OneOwner, BlockOwnedOnce, Private
  <1>2. ASSUME \A b \in Block : BlockOwnedOnce(b) PROVE OneOwner
    <2> SUFFICES ASSUME NEW c \in Class
                 PROVE  /\ live \cap heads[c] = {}
                        /\ \A t \in Thread :
                              /\ Private(t, c) \cap live = {}
                              /\ Private(t, c) \cap heads[c] = {}
                              /\ local[t][c] \cap available[t][c] = {}
                              /\ \A u \in Thread \ {t} : Private(t, c) \cap Private(u, c) = {}
      BY DEF OneOwner
    <2>1. live \cap heads[c] = {}
      BY <1>2 DEF TypeOK, BlockOwnedOnce
    <2>2. ASSUME NEW t \in Thread
          PROVE  /\ Private(t, c) \cap live = {}
                 /\ Private(t, c) \cap heads[c] = {}
                 /\ local[t][c] \cap available[t][c] = {}
                 /\ \A u \in Thread \ {t} : Private(t, c) \cap Private(u, c) = {}
      <3>1. local[t][c] \subseteq Block /\ available[t][c] \subseteq Block
        BY DEF TypeOK
      <3>2. QED
        BY <1>2, <3>1 DEF BlockOwnedOnce, Private
    <2>3. QED
      BY <2>1, <2>2
  <1>3. QED
    BY <1>1, <1>2

\* A step that only moves blocks of one class between a thread's own places,
\* the transfer list and the callers keeps every block owned once.
LEMMA TransferStep ==
    ASSUME TypeOK, TypeOK', Owned, NEW t \in Thread, NEW c \in Class, Transfers(t, c)
    PROVE  Owned'
  <1>1. \A b \in Block : BlockOwnedOnce(b)
    BY OneOwnerByBlock DEF Owned
  <1>2. ClassSegregated'
    <2>1. ASSUME NEW d \in Class, NEW b \in heads'[d] PROVE slab_class[SlabOf(b)] = d
      <3>1. b \in Block
        BY DEF TypeOK
      <3>2. QED
        BY <2>1, <3>1 DEF Owned, ClassSegregated, Transfers
    <2>2. ASSUME NEW d \in Class, NEW u \in Thread,
                 NEW b \in local'[u][d] \cup available'[u][d]
          PROVE  slab_class[SlabOf(b)] = d
      <3>1. b \in Block
        BY DEF TypeOK
      <3>2. CASE u = t /\ d = c
        BY <2>2, <3>1, <3>2 DEF Transfers
      <3>3. CASE u # t \/ d # c
        <4>1. local'[u][d] = local[u][d] /\ available'[u][d] = available[u][d]
          BY <3>3 DEF Transfers
        <4>2. QED
          BY <2>2, <4>1 DEF Owned, ClassSegregated, Private
      <3>4. QED
        BY <3>2, <3>3
    <2>3. ASSUME NEW b \in live' PROVE slab_class[SlabOf(b)] # Unmapped
      <3>1. b \in Block
        BY DEF TypeOK
      <3>2. CASE b \in live
        BY <3>2 DEF Owned, ClassSegregated
      <3>3. CASE b \in heads[c]
        BY <3>3, ClassFacts DEF Owned, ClassSegregated
      <3>4. CASE b \in local[t][c] \/ b \in available[t][c]
        BY <3>4, ClassFacts DEF Owned, ClassSegregated, Private
      <3>5. QED
        BY <2>3, <3>1, <3>2, <3>3, <3>4 DEF Transfers
    <2>4. UNCHANGED slab_class
      BY DEF Transfers
    <2>5. QED
      BY <2>1, <2>2, <2>3, <2>4 DEF ClassSegregated, Private
  <1>3. ASSUME NEW b \in Block PROVE BlockOwnedOnce(b)'
    <2>1. BlockOwnedOnce(b)
      BY <1>1
    <2>2. CASE slab_class[SlabOf(b)] = c
      <3>1. \A u \in Thread, d \in Class \ {c} :
               /\ b \notin local'[u][d] /\ b \notin available'[u][d] /\ b \notin heads'[d]
        BY <1>2, <2>2 DEF ClassSegregated, Private, Transfers
      <3>2. \A u \in Thread \ {t} :
               /\ local'[u][c] = local[u][c] /\ available'[u][c] = available[u][c]
        BY DEF Transfers
      <3>3. QED
        BY <2>1, <3>1, <3>2 DEF BlockOwnedOnce, Transfers
    <2>3. CASE slab_class[SlabOf(b)] # c
      <3>1. /\ b \notin heads'[c] /\ b \notin local'[t][c] /\ b \notin available'[t][c]
            /\ b \notin heads[c] /\ b \notin local[t][c] /\ b \notin available[t][c]
        BY <2>3 DEF Owned, ClassSegregated, Private, Transfers
      <3>2. b \in live' <=> b \in live
        BY <3>1 DEF Transfers
      <3>3. \A u \in Thread, d \in Class :
               /\ b \in local'[u][d] <=> b \in local[u][d]
               /\ b \in available'[u][d] <=> b \in available[u][d]
               /\ b \in heads'[d] <=> b \in heads[d]
        BY <3>1 DEF Transfers
      <3>4. QED
        BY <2>1, <3>2, <3>3 DEF BlockOwnedOnce
    <2>4. QED
      BY <2>2, <2>3
  <1>4. OneOwner'
    <2>1. (\A b \in Block : BlockOwnedOnce(b))'
      BY <1>3
    <2>2. (TypeOK => (OneOwner <=> \A b \in Block : BlockOwnedOnce(b)))'
      BY OneOwnerByBlock, PTL
    <2>3. QED
      BY <2>1, <2>2
  <1>5. NoBlockLost'
    <2> SUFFICES ASSUME NEW b \in Block, slab_class'[SlabOf(b)] # Unmapped
                 PROVE  \/ b \in live'
                        \/ \E d \in Class :
                              b \in heads'[d] \/ \E u \in Thread : b \in Private(u, d)'
      BY DEF NoBlockLost
    <2>1. slab_class[SlabOf(b)] # Unmapped
      BY DEF Transfers
    <2>2. \/ b \in live
          \/ \E d \in Class :
                \/ b \in heads[d]
                \/ \E u \in Thread : b \in local[u][d] \/ b \in available[u][d]
      BY <2>1 DEF Owned, NoBlockLost, Private
    <2>3. CASE b \in live \/ b \in heads[c] \/ b \in local[t][c] \/ b \in available[t][c]
      BY <2>3 DEF Transfers, Private
    <2>4. ASSUME NEW d \in Class \ {c}, b \in heads[d] \/ b \in local[t][d] \/ b \in available[t][d]
          PROVE  \E e \in Class : b \in heads'[e] \/ \E u \in Thread : b \in Private(u, e)'
      BY <2>4 DEF Transfers, Private
    <2>5. ASSUME NEW d \in Class, NEW u \in Thread \ {t}, b \in local[u][d] \/ b \in available[u][d]
          PROVE  \E e \in Class : \E v \in Thread : b \in Private(v, e)'
      BY <2>5 DEF Transfers, Private
    <2>6. QED
      BY <2>2, <2>3, <2>4, <2>5
  <1>6. QED
    BY <1>2, <1>4, <1>5 DEF Owned

\* A step that moves no block.
LEMMA OwnedSame ==
    ASSUME Owned, UNCHANGED <<slab_class, heads, local, available, live>>
    PROVE  Owned'
  BY DEF Owned, OneOwner, NoBlockLost, ClassSegregated, Private

\* The beginning of an allocation moves at most one block to its caller.
LEMMA AllocateTransfers ==
    ASSUME TypeOK, Owned, NEW t \in Thread, NEW c \in Class, AllocateSmall(t, c)
    PROVE  Transfers(t, c)
  <1>1. UNCHANGED <<slab_class, heads, available>>
    BY DEF AllocateSmall, registryVars
  <1>2. ASSUME NEW b \in local[t][c], thread_cache_take(t, c, b), live' = live \cup {b}
        PROVE  Transfers(t, c)
    <2>1. local' = [local EXCEPT ![t][c] = @ \ {b}]
      BY <1>2 DEF thread_cache_take
    <2>2. b \in Block
      BY DEF TypeOK
    <2>3. QED
      BY <1>1, <1>2, <2>1, <2>2 DEF Transfers, TypeOK, Owned, OneOwner, ClassSegregated, Private
  <1>3. CASE UNCHANGED <<local, live>>
    BY <1>1, <1>3 DEF Transfers, TypeOK, Owned, OneOwner, ClassSegregated, Private
  <1>4. QED
    BY <1>2, <1>3 DEF AllocateSmall, cacheVars

\* hplf_free moves one block from its caller to a cache or a transfer list.
LEMMA FreeTransfers ==
    ASSUME Inv, NEW t \in Thread, NEW b \in live, FreeBlock(t, b)
    PROVE  Transfers(t, slab_class[SlabOf(b)])
  <1> DEFINE c == slab_class[SlabOf(b)]
  <1>1. c \in Class /\ b \in Block
    BY LiveClass
  <1>2. live' = live \ {b} /\ UNCHANGED <<slab_class, available>>
    BY DEF FreeBlock, registryVars
  <1>3. CASE heads' = [heads EXCEPT ![c] = @ \cup {b}] /\ UNCHANGED local
    BY <1>1, <1>2, <1>3 DEF Transfers, Inv, TypeOK, OwnerInv, Owned, OneOwner,
       ClassSegregated, Private
  <1>4. CASE local' = [local EXCEPT ![t][c] = @ \cup {b}] /\ UNCHANGED heads
    BY <1>1, <1>2, <1>4 DEF Transfers, Inv, TypeOK, OwnerInv, Owned, OneOwner,
       ClassSegregated, Private
  <1>5. QED
    BY <1>3, <1>4 DEF FreeBlock, transfer_mutex_publish, thread_cache_store, cacheVars

\* An eviction or a flush moves blocks from a cache to a transfer list.
LEMMA ExtractTransfers ==
    ASSUME TypeOK, Owned, NEW t \in Thread, NEW c \in Class,
           NEW list \in SUBSET local[t][c],
           local' = [local EXCEPT ![t][c] = @ \ list],
           transfer_mutex_publish(c, list),
           UNCHANGED <<slab_class, available, live>>
    PROVE  Transfers(t, c)
  BY DEF Transfers, transfer_mutex_publish, TypeOK, Owned, OneOwner, ClassSegregated, Private

\* The stack of t is empty for class c, so a detached list overwrites nothing.
LEMMA DetachTransfers ==
    ASSUME TypeOK, Owned, NEW t \in Thread, NEW c \in Class, available[t][c] = {},
           transfer_mutex_detach(t, c), UNCHANGED <<slab_class, local, live>>
    PROVE  Transfers(t, c)
  BY DEF Transfers, transfer_mutex_detach, TypeOK, Owned, OneOwner, ClassSegregated, Private

\* A block belongs to a slab.
LEMMA SlabBlocks ==
    \A s \in Slab, b \in Block : SlabOf(b) \in Slab /\ (SlabOf(b) = s <=> b \in BlocksOf(s))
  BY DEF SlabOf, BlocksOf, Block

\* A new slab brings in only blocks that nobody had before.
LEMMA CreateOwned ==
    ASSUME Inv, TypeOK', NEW t \in Thread, NEW s \in Slab, CreateSlab(t, s)
    PROVE  Owned'
  <1> DEFINE c == cls[t]
  <1>1. /\ c \in Class
        /\ slab_class[s] = Unmapped /\ slab_class' = [slab_class EXCEPT ![s] = c]
        /\ available' = [available EXCEPT ![t][c] = BlocksOf(s)]
        /\ UNCHANGED <<heads, local, live>>
    BY DEF CreateSlab, cacheVars, Inv, TypeOK
  <1>2. TypeOK /\ Owned
    BY DEF Inv, OwnerInv, Owned
  <1>3. available[t][c] = {}
    BY <1>1 DEF CreateSlab, Inv, ControlInv, StackInv
  <1> HIDE DEF c
  <1>4. ASSUME NEW b \in Block, SlabOf(b) = s
        PROVE  /\ b \notin live
               /\ \A d \in Class : b \notin heads[d]
               /\ \A u \in Thread, d \in Class : b \notin local[u][d] /\ b \notin available[u][d]
    BY <1>1, <1>2, <1>4, ClassFacts DEF Owned, ClassSegregated, Private
  <1>5. \A b \in Block : SlabOf(b) # s => slab_class'[SlabOf(b)] = slab_class[SlabOf(b)]
    BY <1>1, <1>2, SlabBlocks DEF TypeOK
  <1>6. \A b \in Block : SlabOf(b) = s => slab_class'[SlabOf(b)] = c
    BY <1>1, <1>2 DEF TypeOK
  <1>7. /\ available'[t][c] = BlocksOf(s)
        /\ \A d \in Class \ {c} : available'[t][d] = available[t][d]
        /\ \A u \in Thread \ {t} : available'[u] = available[u]
    BY <1>1, <1>2 DEF TypeOK
  <1>8. \A b \in Block, u \in Thread, d \in Class :
           b \in available'[u][d] <=>
              b \in available[u][d] \/ (u = t /\ d = c /\ SlabOf(b) = s)
    BY <1>3, <1>7, SlabBlocks
  <1>9. OneOwner'
    <2>1. \A b \in Block : BlockOwnedOnce(b)
      BY <1>2, OneOwnerByBlock DEF Owned
    <2>2. ASSUME NEW b \in Block PROVE BlockOwnedOnce(b)'
      BY <1>1, <1>4, <1>8, <2>1 DEF BlockOwnedOnce
    <2>3. (TypeOK => (OneOwner <=> \A b \in Block : BlockOwnedOnce(b)))'
      BY OneOwnerByBlock, PTL
    <2>4. QED
      BY <2>2, <2>3
  <1>10. ClassSegregated'
    <2>1. \A d \in Class : \A b \in heads'[d] : slab_class'[SlabOf(b)] = d
      BY <1>1, <1>2, <1>4, <1>5 DEF TypeOK, Owned, ClassSegregated
    <2>2. ASSUME NEW u \in Thread, NEW d \in Class, NEW b \in Private(u, d)'
          PROVE  slab_class'[SlabOf(b)] = d
      <3>1. b \in Block /\ (b \in local[u][d] \/ b \in available'[u][d])
        BY <1>1 DEF Private, TypeOK
      <3>2. CASE SlabOf(b) = s
        BY <1>4, <1>6, <1>8, <3>1, <3>2
      <3>3. CASE SlabOf(b) # s
        BY <1>2, <1>5, <1>8, <3>1, <3>3 DEF Owned, ClassSegregated, Private
      <3>4. QED
        BY <3>2, <3>3
    <2>3. \A b \in live' : slab_class'[SlabOf(b)] # Unmapped
      BY <1>1, <1>2, <1>4, <1>5 DEF TypeOK, Owned, ClassSegregated
    <2>4. QED
      BY <2>1, <2>2, <2>3 DEF ClassSegregated
  <1>11. NoBlockLost'
    <2> SUFFICES ASSUME NEW b \in Block, slab_class'[SlabOf(b)] # Unmapped
                 PROVE  \/ b \in live'
                        \/ \E d \in Class :
                              b \in heads'[d] \/ \E u \in Thread : b \in Private(u, d)'
      BY DEF NoBlockLost
    <2>1. CASE SlabOf(b) = s
      BY <1>1, <1>8, <2>1 DEF Private
    <2>2. CASE SlabOf(b) # s
      BY <1>1, <1>2, <1>5, <1>8, <2>2 DEF Private, Owned, NoBlockLost
    <2>3. QED
      BY <2>1, <2>2
  <1>12. QED
    BY <1>9, <1>10, <1>11 DEF Owned

\* A trim that counts all slots of a slab on its list has all its blocks.
LEMMA WhollyFreeBlocks ==
    ASSUME NEW t \in Thread, NEW s \in Slab, WhollyFree(t, s)
    PROVE  BlocksOf(s) \subseteq available[t][slab_class[s]]
  <1>1. IsFiniteSet(BlocksOf(s))
    BY BlocksFinite, BlocksOfType
  <1>2. BlocksOf(s) \cap available[t][slab_class[s]] = BlocksOf(s)
    BY <1>1, FS_Subset DEF WhollyFree
  <1>3. QED
    BY <1>2

\* A slab that a trim unmaps takes its blocks with it and no others.
LEMMA UnmapOwned ==
    ASSUME Inv, TypeOK', NEW t \in Thread, NEW s \in Slab, TrimUnmap(t, s)
    PROVE  Owned'
  <1> DEFINE c == slab_class[s]
  <1>1. /\ WhollyFree(t, s)
        /\ slab_class' = [slab_class EXCEPT ![s] = Unmapped]
        /\ available' = [available EXCEPT ![t][c] = @ \ BlocksOf(s)]
        /\ UNCHANGED <<heads, local, live>>
    BY DEF TrimUnmap, cacheVars
  <1>2. TypeOK /\ Owned
    BY DEF Inv, OwnerInv, Owned
  <1>3. c \in Class
    BY DEF TrimUnmap, Inv, ControlInv, RegistryInv, TypeOK
  <1>4. BlocksOf(s) \subseteq available[t][c]
    BY <1>1, WhollyFreeBlocks
  <1> HIDE DEF c
  <1>5. \A b \in Block : BlockOwnedOnce(b)
    BY <1>2, OneOwnerByBlock DEF Owned
  <1>6. \A b \in Block : SlabOf(b) # s => slab_class'[SlabOf(b)] = slab_class[SlabOf(b)]
    BY <1>1, <1>2, SlabBlocks DEF TypeOK
  <1>7. \A b \in Block, u \in Thread, d \in Class :
           b \in available'[u][d] <=>
              b \in available[u][d] /\ ~(u = t /\ d = c /\ SlabOf(b) = s)
    BY <1>1, <1>2, <1>3, SlabBlocks DEF TypeOK
  <1>8. ASSUME NEW b \in Block, SlabOf(b) = s
        PROVE  /\ b \notin live
               /\ \A d \in Class : b \notin heads[d]
               /\ \A u \in Thread, d \in Class : b \notin local[u][d] /\ b \notin available'[u][d]
    <2>1. b \in available[t][c]
      BY <1>4, <1>8, SlabBlocks
    <2>2. slab_class[SlabOf(b)] = c
      BY <1>8 DEF c
    <2>3. \A d \in Class \ {c}, u \in Thread :
             b \notin heads[d] /\ b \notin local[u][d] /\ b \notin available[u][d]
      BY <1>2, <2>2 DEF Owned, ClassSegregated, Private
    <2>4. QED
      BY <1>3, <1>5, <1>7, <1>8, <2>1, <2>3 DEF BlockOwnedOnce
  <1>9. OneOwner'
    <2>1. ASSUME NEW b \in Block PROVE BlockOwnedOnce(b)'
      BY <1>1, <1>5, <1>7 DEF BlockOwnedOnce
    <2>2. (TypeOK => (OneOwner <=> \A b \in Block : BlockOwnedOnce(b)))'
      BY OneOwnerByBlock, PTL
    <2>3. QED
      BY <2>1, <2>2
  <1>10. ClassSegregated'
    <2>1. \A d \in Class : \A b \in heads'[d] : slab_class'[SlabOf(b)] = d
      BY <1>1, <1>2, <1>6, <1>8 DEF TypeOK, Owned, ClassSegregated
    <2>2. ASSUME NEW u \in Thread, NEW d \in Class, NEW b \in Private(u, d)'
          PROVE  slab_class'[SlabOf(b)] = d
      <3>1. b \in Block /\ (b \in local[u][d] \/ b \in available'[u][d])
        BY <1>1 DEF Private, TypeOK
      <3>2. SlabOf(b) # s
        BY <1>8, <3>1
      <3>3. QED
        BY <1>2, <1>6, <1>7, <3>1, <3>2 DEF Owned, ClassSegregated, Private
    <2>3. \A b \in live' : slab_class'[SlabOf(b)] # Unmapped
      BY <1>1, <1>2, <1>6, <1>8 DEF TypeOK, Owned, ClassSegregated
    <2>4. QED
      BY <2>1, <2>2, <2>3 DEF ClassSegregated
  <1>11. NoBlockLost'
    <2> SUFFICES ASSUME NEW b \in Block, slab_class'[SlabOf(b)] # Unmapped
                 PROVE  \/ b \in live'
                        \/ \E d \in Class :
                              b \in heads'[d] \/ \E u \in Thread : b \in Private(u, d)'
      BY DEF NoBlockLost
    <2>1. SlabOf(b) # s
      BY <1>1, <1>2 DEF TypeOK
    <2>2. QED
      BY <1>1, <1>2, <1>6, <1>7, <2>1 DEF Private, Owned, NoBlockLost
  <1>12. QED
    BY <1>9, <1>10, <1>11 DEF Owned

\* Every step keeps every block of a mapped slab owned exactly once, on a list
\* of its class.
LEMMA OwnedStep ==
    ASSUME Inv, TypeOK', NEW t \in Thread, ThreadNext(t)
    PROVE  Owned'
  <1>t. TypeOK /\ Owned /\ cls[t] \in Class
    BY DEF Inv, OwnerInv, TypeOK, Owned
  <1>1. ASSUME NEW c \in Class, AllocateSmall(t, c) PROVE Owned'
    BY <1>t, <1>1, AllocateTransfers, TransferStep
  <1>2. CASE Detach(t) \/ Recheck(t) \/ TrimDetach(t)
    <2>1. /\ transfer_mutex_detach(t, cls[t])
          /\ UNCHANGED <<slab_class, local, live>>
      BY <1>2 DEF Detach, Recheck, TrimDetach, registryVars, cacheVars
    <2>2. available[t][cls[t]] = {}
      BY <1>t, <1>2, ClassFacts DEF Detach, Recheck, TrimDetach, Inv, ControlInv, StackInv
    <2>3. QED
      BY <1>t, <2>1, <2>2, DetachTransfers, TransferStep
  <1>3. ASSUME NEW s \in Slab, CreateSlab(t, s) PROVE Owned'
    BY <1>3, CreateOwned
  <1>4. CASE RefillCache(t)
    <2> DEFINE c == cls[t]
    <2>1. PICK accepted \in SUBSET available[t][c], b \in Block :
             /\ refill_and_take(t, c, accepted, b)
             /\ transfer_mutex_publish(c, available[t][c] \ accepted)
             /\ live' = live \cup {b}
      BY <1>4 DEF RefillCache, Prefixes
    <2>2. /\ b \in local[t][c] \cup accepted
          /\ local' = [local EXCEPT ![t][c] = (@ \cup accepted) \ {b}]
          /\ heads' = [heads EXCEPT ![c] = @ \cup (available[t][c] \ accepted)]
          /\ available' = [available EXCEPT ![t][c] = {}]
          /\ UNCHANGED slab_class
      BY <1>4, <2>1 DEF RefillCache, refill_and_take, transfer_mutex_publish, registryVars
    <2>3. Transfers(t, c)
      BY <1>t, <2>1, <2>2 DEF Transfers, TypeOK, Owned, OneOwner, ClassSegregated, Private
    <2>4. QED
      BY <1>t, <2>3, TransferStep
  <1>5. CASE RefillDirect(t)
    <2> DEFINE c == cls[t]
    <2>1. PICK b \in available[t][c] :
             /\ transfer_mutex_publish(c, available[t][c] \ {b})
             /\ live' = live \cup {b}
      BY <1>5 DEF RefillDirect
    <2>2. /\ heads' = [heads EXCEPT ![c] = @ \cup (available[t][c] \ {b})]
          /\ available' = [available EXCEPT ![t][c] = {}]
          /\ UNCHANGED <<slab_class, local>>
      BY <1>5, <2>1 DEF RefillDirect, transfer_mutex_publish, registryVars, cacheVars
    <2>3. Transfers(t, c)
      BY <1>t, <2>1, <2>2 DEF Transfers, TypeOK, Owned, OneOwner, ClassSegregated, Private
    <2>4. QED
      BY <1>t, <2>3, TransferStep
  <1>6. ASSUME NEW b \in live, FreeBlock(t, b) PROVE Owned'
    BY <1>t, <1>6, LiveClass, FreeTransfers, TransferStep
  <1>7. ASSUME NEW c \in Class, Evict(t, c) PROVE Owned'
    <2>1. PICK list \in SUBSET local[t][c] :
             thread_cache_extract_class(t, c, list) /\ transfer_mutex_publish(c, list)
      BY <1>7 DEF Evict, Prefixes
    <2>2. /\ local' = [local EXCEPT ![t][c] = @ \ list]
          /\ UNCHANGED <<slab_class, available, live>>
      BY <1>7, <2>1 DEF Evict, thread_cache_extract_class, registryVars, frameVars
    <2>3. QED
      BY <1>t, <2>1, <2>2, ExtractTransfers, TransferStep
  <1>8. CASE FlushClass(t)
    <2>1. /\ local' = [local EXCEPT ![t][cls[t]] = @ \ local[t][cls[t]]]
          /\ transfer_mutex_publish(cls[t], local[t][cls[t]])
          /\ UNCHANGED <<slab_class, available, live>>
      BY <1>8 DEF FlushClass, thread_cache_extract_class, registryVars
    <2>2. QED
      BY <1>t, <2>1, ExtractTransfers, TransferStep
  <1>9. CASE ReleaseDescriptor(t)
    <2>1. \A c \in Class : local[t][c] = {}
      BY <1>9 DEF ReleaseDescriptor, Inv, ControlInv, CacheInv
    <2>2. local[t] = EmptyLists
      BY <1>t, <2>1 DEF EmptyLists, TypeOK
    <2>3. UNCHANGED <<slab_class, heads, local, available, live>>
      BY <1>t, <1>9, <2>2 DEF ReleaseDescriptor, registryVars, frameVars, TypeOK
    <2>4. QED
      BY <1>t, <2>3, OwnedSame
  <1>10. ASSUME NEW s \in Slab, TrimUnmap(t, s) PROVE Owned'
    BY <1>10, UnmapOwned
  <1>11. CASE TrimPublish(t)
    <2> DEFINE c == cls[t]
    <2>1. /\ heads' = [heads EXCEPT ![c] = @ \cup available[t][c]]
          /\ available' = [available EXCEPT ![t][c] = {}]
          /\ UNCHANGED <<slab_class, local, live>>
      BY <1>11 DEF TrimPublish, transfer_mutex_publish, cacheVars
    <2>2. Transfers(t, c)
      BY <1>t, <2>1 DEF Transfers, TypeOK, Owned, OneOwner, ClassSegregated, Private
    <2>3. QED
      BY <1>t, <2>2, TransferStep
  <1>12. CASE UNCHANGED <<slab_class, heads, local, available, live>>
    BY <1>t, <1>12, OwnedSame
  <1>13. ASSUME NEW c \in Class, MallocCall(t, c) \/ \E b \in Block : ReallocCall(t, b, c)
         PROVE  Owned'
    BY <1>1, <1>13 DEF MallocCall, ReallocCall
  <1>14. ASSUME (\E b \in Block : FreeCall(t, b)) \/ FreeOld(t) PROVE Owned'
    <2>1. CASE FreeOld(t)
      <3>1. old[t] \in live
        BY <2>1 DEF FreeOld, Inv, ControlInv, ReallocInv
      <3>2. QED
        BY <1>6, <2>1, <3>1 DEF FreeOld
    <2>2. QED
      BY <1>6, <1>14, <2>1 DEF FreeCall
  <1>15. ASSUME \/ Lock(t) \/ LockFails(t) \/ CreateFails(t) \/ FreeReturns(t)
                \/ FlushCall(t) \/ TrimCall(t) \/ TrimScanned(t)
                \/ \E s \in Slab : TrimKeep(t, s)
                \/ ThreadExit(t) \/ DestroyDescriptor(t) \/ ThreadGone(t) \/ ThreadStart(t)
         PROVE  Owned'
    BY <1>12, <1>15 DEF Lock, LockFails, CreateFails, AllocationFails, FreeReturns,
       FlushCall, TrimCall, TrimScanned, TrimKeep, ThreadExit, DestroyDescriptor,
       ThreadGone, ThreadStart, registryVars, cacheVars, frameVars
  <1>16. QED
    BY <1>2, <1>3, <1>4, <1>5, <1>7, <1>8, <1>9, <1>10, <1>11, <1>13, <1>14, <1>15
       DEF ThreadNext, Step, Call, Lifetime

\* A step after which t is not about to refill.
LEMMA RefillSame ==
    ASSUME RefillHasBlock, NEW t \in Thread, pc'[t] # "refill",
           \A u \in Thread \ {t} :
              pc'[u] = pc[u] /\ cls'[u] = cls[u] /\ available'[u] = available[u]
    PROVE  RefillHasBlock'
  BY DEF RefillHasBlock

\* Every step that reaches the refill leaves a block for it.
LEMMA RefillStep ==
    ASSUME Inv, NEW t \in Thread, ThreadNext(t)
    PROVE  RefillHasBlock'
  <1>t. TypeOK /\ RefillHasBlock /\ cls[t] \in Class
    BY DEF Inv, OwnerInv, TypeOK
  <1>1. CASE Detach(t) \/ Recheck(t)
    <2>1. /\ available' = [available EXCEPT ![t][cls[t]] = heads[cls[t]]]
          /\ UNCHANGED cls
      BY <1>1 DEF Detach, Recheck, transfer_mutex_detach
    <2>2. \A u \in Thread \ {t} : pc'[u] = pc[u]
      BY <1>1, <1>t DEF Detach, Recheck, TypeOK
    <2>3. pc'[t] = "refill" => heads[cls[t]] # {}
      BY <1>1, <1>t DEF Detach, Recheck, TypeOK
    <2>4. QED
      BY <1>t, <2>1, <2>2, <2>3 DEF RefillHasBlock, TypeOK
  <1>2. ASSUME NEW s \in Slab, CreateSlab(t, s) PROVE RefillHasBlock'
    <2>1. PICK x \in Slot : TRUE
      BY BlockAssumption
    <2>2. <<s, x>> \in BlocksOf(s)
      BY DEF BlocksOf
    <2>3. QED
      BY <1>t, <1>2, <2>2 DEF CreateSlab, RefillHasBlock, TypeOK
  <1>3. ASSUME NEW c \in Class, AllocateSmall(t, c) PROVE RefillHasBlock'
    <2>1. pc'[t] # "refill" /\ \A u \in Thread \ {t} : pc'[u] = pc[u]
      BY <1>t, <1>3 DEF AllocateSmall, AllocationReturns, TypeOK
    <2>2. QED
      BY <1>t, <1>3, <2>1, RefillSame DEF AllocateSmall, TypeOK
  <1>4. CASE RefillCache(t) \/ RefillDirect(t)
    <2>1. pc'[t] # "refill" /\ \A u \in Thread \ {t} : pc'[u] = pc[u]
      BY <1>t, <1>4 DEF RefillCache, RefillDirect, AllocationReturns, TypeOK
    <2>2. QED
      BY <1>t, <1>4, <2>1, RefillSame DEF RefillCache, RefillDirect, TypeOK
  <1>5. ASSUME NEW b \in Block, FreeBlock(t, b) PROVE RefillHasBlock'
    <2>1. /\ pc'[t] # "refill"
          /\ \A u \in Thread \ {t} : pc'[u] = pc[u] /\ cls'[u] = cls[u]
          /\ UNCHANGED available
      BY <1>t, <1>5 DEF FreeBlock, TypeOK
    <2>2. QED
      BY <1>t, <2>1, RefillSame
  <1>6. CASE FlushClass(t) \/ TrimDetach(t) \/ TrimPublish(t)
    <2>1. /\ pc'[t] # "refill"
          /\ \A u \in Thread \ {t} : pc'[u] = pc[u] /\ cls'[u] = cls[u]
      BY <1>t, <1>6 DEF FlushClass, TrimDetach, TrimPublish, TypeOK
    <2>2. \A u \in Thread \ {t} : available'[u] = available[u]
      BY <1>t, <1>6 DEF FlushClass, TrimDetach, transfer_mutex_detach, TrimPublish, TypeOK
    <2>3. QED
      BY <1>t, <2>1, <2>2, RefillSame
  <1>7. ASSUME \/ Lock(t) \/ LockFails(t) \/ CreateFails(t) \/ FreeReturns(t)
               \/ (\E c \in Class : Evict(t, c))
               \/ FlushCall(t) \/ TrimCall(t) \/ TrimScanned(t)
               \/ (\E s \in Slab : TrimKeep(t, s) \/ TrimUnmap(t, s))
               \/ ThreadExit(t) \/ DestroyDescriptor(t) \/ ReleaseDescriptor(t)
               \/ ThreadGone(t) \/ ThreadStart(t)
        PROVE  RefillHasBlock'
    <2>1. pc'[t] # "refill"
      BY <1>t, <1>7 DEF Lock, LockFails, CreateFails, AllocationFails, FreeReturns,
         Evict, FlushCall, TrimCall, TrimScanned, TrimKeep, TrimUnmap, ThreadExit,
         DestroyDescriptor, ReleaseDescriptor, ThreadGone, ThreadStart, CanCall, TypeOK,
         Inv, ControlInv, CacheInv
    <2>2. \A u \in Thread \ {t} :
             pc'[u] = pc[u] /\ cls'[u] = cls[u] /\ available'[u] = available[u]
      BY <1>t, <1>7 DEF Lock, LockFails, CreateFails, AllocationFails, FreeReturns,
         Evict, FlushCall, TrimCall, TrimScanned, TrimKeep, TrimUnmap, ThreadExit,
         DestroyDescriptor, ReleaseDescriptor, ThreadGone, ThreadStart, TypeOK, frameVars
    <2>3. QED
      BY <1>t, <2>1, <2>2, RefillSame
  <1>8. CASE FreeOld(t)
    BY <1>5, <1>8, LiveClass DEF FreeOld, Inv, ControlInv, ReallocInv
  <1>9. QED
    BY <1>1, <1>2, <1>3, <1>4, <1>5, <1>6, <1>7, <1>8
       DEF ThreadNext, Step, Call, Lifetime, MallocCall, ReallocCall, FreeCall

-----------------------------------------------------------------------------
(***************************************************************************)
(* The theorems.                                                           *)
(***************************************************************************)

\* The invariant holds initially.
LEMMA InvInit == Init => Inv
  <1> SUFFICES ASSUME Init PROVE Inv
    OBVIOUS
  <1>1. TypeOK
    BY ClassFacts DEF Init, TypeOK, EmptyLists
  <1>2. ControlInv
    BY ThreadAssumption DEF Init, EmptyLists, ControlInv, MutexInv, StackInv, CacheInv,
       ReallocInv, RegistryInv, TrimPC
  <1>3. OwnerInv
    <2>1. OneOwner
      BY DEF Init, EmptyLists, OneOwner, Private
    <2>2. NoBlockLost
      BY SlabBlocks DEF Init, NoBlockLost, Block, SlabOf
    <2>3. ClassSegregated /\ RefillHasBlock
      BY DEF Init, EmptyLists, ClassSegregated, Private, RefillHasBlock
    <2>4. QED
      BY <2>1, <2>2, <2>3 DEF OwnerInv
  <1>4. QED
    BY <1>1, <1>2, <1>3 DEF Inv

\* Every step keeps the invariant.
LEMMA InvStep == Inv /\ [Next]_vars => Inv'
  <1> SUFFICES ASSUME Inv, [Next]_vars PROVE Inv'
    OBVIOUS
  <1>1. ASSUME NEW t \in Thread, ThreadNext(t) PROVE Inv'
    <2>1. TypeOK'
      BY <1>1, TypeStep
    <2>2. ControlInv'
      BY <1>1, <2>1, MutexStep, StackStep, CacheStep, ReallocStep, RegistryStep
         DEF ControlInv
    <2>3. OwnerInv'
      BY <1>1, <2>1, OwnedStep, RefillStep DEF OwnerInv, Owned
    <2>4. QED
      BY <2>1, <2>2, <2>3 DEF Inv
  <1>2. CASE UNCHANGED vars
    <2>1. TypeOK'
      BY <1>2 DEF Inv, TypeOK, vars, registryVars, cacheVars, lifecycleVars, frameVars
    <2>2. ControlInv'
      BY <1>2 DEF Inv, ControlInv, MutexInv, StackInv, CacheInv, ReallocInv, RegistryInv,
         vars, registryVars, cacheVars, lifecycleVars, frameVars
    <2>3. OwnerInv'
      BY <1>2 DEF Inv, OwnerInv, OneOwner, NoBlockLost, ClassSegregated, RefillHasBlock,
         Private, vars, registryVars, cacheVars, frameVars
    <2>4. QED
      BY <2>1, <2>2, <2>3 DEF Inv
  <1>3. QED
    BY <1>1, <1>2 DEF Next, ThreadNext

\* The inductive invariant holds in every state the allocator can reach.
THEOREM Invariance == Spec => []Inv
  BY InvInit, InvStep, PTL DEF Spec

\* Every variable keeps its type, the size_t counters of the caches included.
THEOREM TypeCorrect == Spec => []TypeOK
  <1>1. Inv => TypeOK
    BY DEF Inv
  <1>2. QED
    BY <1>1, Invariance, PTL

\* No block ever has two owners.
THEOREM BlocksHaveOneOwner == Spec => []OneOwner
  <1>1. Inv => OneOwner
    BY DEF Inv, OwnerInv
  <1>2. QED
    BY <1>1, Invariance, PTL

\* No block of a mapped slab is ever lost.
THEOREM BlocksAreNotLost == Spec => []NoBlockLost
  <1>1. Inv => NoBlockLost
    BY DEF Inv, OwnerInv
  <1>2. QED
    BY <1>1, Invariance, PTL

\* Lists hold only mapped blocks of their own class.
THEOREM ListsAreSegregated == Spec => []ClassSegregated
  <1>1. Inv => ClassSegregated
    BY DEF Inv, OwnerInv
  <1>2. QED
    BY <1>1, Invariance, PTL

\* The branch of hplf_allocate_small marked "Defensive only" is never taken.
THEOREM RefillNeverEmpty == Spec => []RefillHasBlock
  <1>1. Inv => RefillHasBlock
    BY DEF Inv, OwnerInv
  <1>2. QED
    BY <1>1, Invariance, PTL

\* A thread uses only a mapped and registered cache, and leaves nothing behind.
THEOREM CachesAreReclaimed == Spec => []CacheLifecycle
  <1>1. Inv => CacheLifecycle
    BY DEF Inv, ControlInv, CacheInv, StackInv, MutexInv, TrimPC, CacheLifecycle, Private
  <1>2. QED
    BY <1>1, Invariance, PTL

-----------------------------------------------------------------------------
(***************************************************************************)
(* Refinement: every step of the allocator is a step of BlockOwnership or  *)
(* invisible there.                                                        *)
(***************************************************************************)

\* A block on a list of thread t is nobody's and belongs to a mapped slab.
LEMMA PrivateIsFree ==
    ASSUME Inv, NEW t \in Thread, NEW c \in Class, NEW b \in Private(t, c)
    PROVE  /\ b \in Block
           /\ b \notin live
           /\ slab_class[SlabOf(b)] # Unmapped
  <1>1. b \in Block /\ b \notin live
    BY DEF Inv, OwnerInv, OneOwner, TypeOK, Private
  <1>2. slab_class[SlabOf(b)] = c
    BY DEF Inv, OwnerInv, ClassSegregated
  <1>3. QED
    BY <1>1, <1>2, ClassFacts

\* What a step does to the blocks that callers hold: it hands out one free
\* block, takes one live block back, maps a slab, or unmaps a slab of which no
\* block is live.
OwnershipStep(t) ==
    \/ /\ \E c \in Class : \E b \in Private(t, c) : live' = live \cup {b}
       /\ UNCHANGED slab_class
    \/ /\ \E b \in live : /\ FreeBlock(t, b)
                          /\ InRealloc(b) => b = old[t] /\ pc[t] = "free"
       /\ UNCHANGED slab_class
    \/ /\ \E s \in Slab : CreateSlab(t, s)
       /\ UNCHANGED live
    \/ /\ \E s \in Slab : TrimUnmap(t, s)
       /\ UNCHANGED live
    \/ UNCHANGED <<live, slab_class>>

\* Every step of a thread is of one of those kinds.
LEMMA StepKinds ==
    ASSUME Inv, NEW t \in Thread, ThreadNext(t)
    PROVE  OwnershipStep(t)
  <1>t. TypeOK /\ cls[t] \in Class
    BY DEF Inv, TypeOK
  <1>1. ASSUME NEW c \in Class, AllocateSmall(t, c) PROVE OwnershipStep(t)
    <2>1. UNCHANGED slab_class
      BY <1>1 DEF AllocateSmall, registryVars
    <2>2. \/ \E b \in local[t][c] : live' = live \cup {b}
          \/ UNCHANGED live
      BY <1>1 DEF AllocateSmall
    <2>3. QED
      BY <2>1, <2>2 DEF OwnershipStep, Private
  <1>2. CASE RefillCache(t)
    <2>1. PICK accepted \in SUBSET available[t][cls[t]], b \in Block :
             refill_and_take(t, cls[t], accepted, b) /\ live' = live \cup {b}
      BY <1>2 DEF RefillCache, Prefixes
    <2>2. b \in Private(t, cls[t]) /\ UNCHANGED slab_class
      BY <1>2, <2>1 DEF RefillCache, refill_and_take, Private, registryVars
    <2>3. QED
      BY <1>t, <2>1, <2>2 DEF OwnershipStep
  <1>3. CASE RefillDirect(t)
    <2>1. PICK b \in available[t][cls[t]] : live' = live \cup {b}
      BY <1>3 DEF RefillDirect
    <2>2. b \in Private(t, cls[t]) /\ UNCHANGED slab_class
      BY <1>3, <2>1 DEF RefillDirect, Private, registryVars
    <2>3. QED
      BY <1>t, <2>1, <2>2 DEF OwnershipStep
  <1>4. ASSUME NEW b \in live, FreeBlock(t, b),
               InRealloc(b) => b = old[t] /\ pc[t] = "free"
        PROVE  OwnershipStep(t)
    BY <1>4 DEF OwnershipStep, FreeBlock, registryVars
  <1>5. CASE FreeOld(t)
    <2>1. old[t] \in live
      BY <1>5 DEF FreeOld, Inv, ControlInv, ReallocInv
    <2>2. QED
      BY <1>4, <1>5, <2>1 DEF FreeOld
  <1>6. ASSUME NEW s \in Slab, CreateSlab(t, s) PROVE OwnershipStep(t)
    BY <1>6 DEF OwnershipStep, CreateSlab
  <1>7. ASSUME NEW s \in Slab, TrimUnmap(t, s) PROVE OwnershipStep(t)
    BY <1>7 DEF OwnershipStep, TrimUnmap
  <1>8. ASSUME \/ Detach(t) \/ Recheck(t) \/ Lock(t) \/ LockFails(t) \/ CreateFails(t)
               \/ (\E c \in Class : Evict(t, c)) \/ FreeReturns(t)
               \/ FlushCall(t) \/ FlushClass(t) \/ ReleaseDescriptor(t)
               \/ TrimCall(t) \/ TrimDetach(t) \/ TrimScanned(t) \/ TrimPublish(t)
               \/ \E s \in Slab : TrimKeep(t, s)
        PROVE  OwnershipStep(t)
    BY <1>8 DEF OwnershipStep, Detach, Recheck, Lock, LockFails, CreateFails,
       AllocationFails, Evict, FreeReturns, FlushCall, FlushClass, ReleaseDescriptor,
       TrimCall, TrimDetach, TrimScanned, TrimPublish, TrimKeep, registryVars
  <1>9. CASE Lifetime(t)
    BY <1>9 DEF OwnershipStep, Lifetime, ThreadExit, DestroyDescriptor, ThreadGone,
       ThreadStart, registryVars
  <1>10. CASE \/ \E c \in Class : MallocCall(t, c)
              \/ \E b \in Block, c \in Class : ReallocCall(t, b, c)
    BY <1>1, <1>10 DEF MallocCall, ReallocCall
  <1>11. CASE \E b \in Block : FreeCall(t, b)
    BY <1>4, <1>11 DEF FreeCall
  <1>12. QED
    BY <1>2, <1>3, <1>5, <1>6, <1>7, <1>8, <1>9, <1>10, <1>11
       DEF ThreadNext, Step, Call

\* A trim unmaps a slab only when every block of it is on its own lists.
LEMMA UnmappedSlabIsFree ==
    ASSUME Inv, NEW t \in Thread, NEW s \in Slab, TrimUnmap(t, s)
    PROVE  slab_class[s] # Unmapped /\ \A b \in live : SlabOf(b) # s
  <1> DEFINE c == slab_class[s]
  <1>1. s \in slabs /\ c # Unmapped /\ c \in Class
    BY DEF TrimUnmap, Inv, TypeOK, ControlInv, RegistryInv
  <1>2. BlocksOf(s) \subseteq available[t][c]
    BY WhollyFreeBlocks DEF TrimUnmap
  <1>3. ASSUME NEW b \in live, SlabOf(b) = s PROVE FALSE
    <2>1. b \in BlocksOf(s)
      BY <1>3, LiveClass DEF BlocksOf, Block, SlabOf
    <2>2. b \in Private(t, c)
      BY <1>2, <2>1 DEF Private
    <2>3. QED
      BY <1>1, <2>2, PrivateIsFree
  <1>4. QED
    BY <1>1, <1>3

\* Every step of a thread implements a step of BlockOwnership.
LEMMA OwnershipNext ==
    ASSUME Inv, NEW t \in Thread, ThreadNext(t)
    PROVE  Ownership!Next \/ UNCHANGED <<live, slab_class>>
  <1> USE DEF Ownership!Next, Ownership!Block, Ownership!SlabOf
  <1>t. TypeOK /\ cls[t] \in Class
    BY DEF Inv, TypeOK
  <1>1. ASSUME NEW c \in Class, NEW b \in Private(t, c), live' = live \cup {b},
               UNCHANGED slab_class
        PROVE  Ownership!Next
    <2>1. b \in Block /\ Ownership!Allocate(b)
      BY <1>1, PrivateIsFree DEF Ownership!Allocate, SlabOf
    <2>2. QED
      BY <2>1 DEF Block
  <1>2. ASSUME NEW b \in live, FreeBlock(t, b), UNCHANGED slab_class
        PROVE  Ownership!Next
    <2>1. b \in Block /\ Ownership!Release(b)
      BY <1>t, <1>2 DEF Ownership!Release, FreeBlock, TypeOK
    <2>2. QED
      BY <2>1 DEF Block
  <1>3. ASSUME NEW s \in Slab, CreateSlab(t, s) PROVE Ownership!Next
    <2>1. Ownership!MapSlab(s, cls[t])
      BY <1>3 DEF CreateSlab, Ownership!MapSlab
    <2>2. QED
      BY <1>t, <2>1
  <1>4. ASSUME NEW s \in Slab, TrimUnmap(t, s) PROVE Ownership!Next
    <2>1. Ownership!UnmapSlab(s)
      BY <1>4, UnmappedSlabIsFree DEF TrimUnmap, Ownership!UnmapSlab, SlabOf
    <2>2. QED
      BY <2>1
  <1>5. QED
    BY <1>1, <1>2, <1>3, <1>4, StepKinds DEF OwnershipStep

\* The cached allocator implements BlockOwnership: whatever its caches, lists,
\* destructors and trims do, callers see blocks handed out to one holder at a
\* time, and mappings that outlive every holder of their blocks.
THEOREM Refinement == Spec => ImplementsOwnership
  <1>1. Init => Ownership!Init
    BY DEF Init, Ownership!Init
  <1>2. Inv /\ [Next]_vars => [Ownership!Next]_Ownership!ownershipVars
    <2> SUFFICES ASSUME Inv, [Next]_vars
                 PROVE  Ownership!Next \/ UNCHANGED <<live, slab_class>>
      BY DEF Ownership!ownershipVars
    <2>1. CASE UNCHANGED vars
      BY <2>1 DEF vars, registryVars
    <2>2. QED
      BY <2>1, OwnershipNext DEF Next, ThreadNext
  <1>3. QED
    BY <1>1, <1>2, Invariance, PTL DEF Spec, ImplementsOwnership, Ownership!Spec

\* A realloc that has no replacement yet keeps its old block live, whatever
\* the other threads do and however the allocation fails.
THEOREM ReallocKeepsOldBlock == Spec => ReallocAllocatesFirst
  <1> DEFINE Kept == \A t \in Thread :
                 old[t] # None /\ pc[t] # "free" => old[t] \in live'
  <1>1. Inv /\ [Next]_vars => [Kept]_vars
    <2> SUFFICES ASSUME Inv, Next PROVE Kept
      BY DEF vars
    <2> SUFFICES ASSUME NEW t \in Thread, old[t] # None, pc[t] # "free"
                 PROVE  old[t] \in live'
      OBVIOUS
    <2>1. PICK u \in Thread : ThreadNext(u)
      BY DEF Next, ThreadNext
    <2>2. old[t] \in live /\ \A v \in Thread \ {t} : old[v] # old[t]
      BY DEF Inv, ControlInv, ReallocInv
    <2>3. ASSUME NEW b \in live, InRealloc(b) => b = old[u] /\ pc[u] = "free"
          PROVE  b # old[t]
      BY <2>2, <2>3 DEF InRealloc
    <2>4. QED
      BY <2>1, <2>2, <2>3, StepKinds DEF OwnershipStep, FreeBlock
  <1>2. QED
    BY <1>1, Invariance, PTL DEF Spec, ReallocAllocatesFirst

-----------------------------------------------------------------------------
(***************************************************************************)
(* The counters of a cache and its limits.                                 *)
(***************************************************************************)

\* One class of one cache gets other blocks, and both counters follow.
Recount(t, c, S) ==
    /\ local' = [local EXCEPT ![t][c] = S]
    /\ counts' = [counts EXCEPT ![t][c] = Cardinality(S)]
    /\ total_slot_bytes' =
          [total_slot_bytes EXCEPT
              ![t] = @ - counts[t][c] * Capacity[c] + Cardinality(S) * Capacity[c]]

\* The slot bytes by class, numbered from 1.
Weights(lists) == [n \in 1..ClassCount |-> Cardinality(lists[n - 1]) * Capacity[n - 1]]

\* Only while it evicts is a cache over a limit, and then over the class limit
\* in one class only.
LimitInv ==
    \A t \in Thread :
        /\ \A c \in Class :
              counts[t][c] <= CLASS_BLOCK_LIMIT \/ (pc[t] = "evict" /\ c = cls[t])
        /\ total_slot_bytes[t] <= TOTAL_BYTES_LIMIT \/ pc[t] = "evict"

\* The bytes in each class of a cache.
LEMMA WeightsType ==
    ASSUME NEW lists \in [Class -> SUBSET Block]
    PROVE  /\ Weights(lists) \in [1..ClassCount -> Nat]
           /\ \A c \in Class : /\ c + 1 \in 1..ClassCount
                               /\ Weights(lists)[c + 1] = Cardinality(lists[c]) * Capacity[c]
  <1>1. ASSUME NEW n \in 1..ClassCount
        PROVE  n - 1 \in Class /\ Cardinality(lists[n - 1]) * Capacity[n - 1] \in Nat
    <2>1. n - 1 \in Class
      BY ClassAssumption DEF Class
    <2>2. Cardinality(lists[n - 1]) \in Nat /\ Capacity[n - 1] \in Nat
      BY <2>1, BlocksFinite, CapacityAssumption
    <2>3. QED
      BY <2>1, <2>2
  <1>2. ASSUME NEW c \in Class PROVE c + 1 \in 1..ClassCount /\ (c + 1) - 1 = c
    BY ClassAssumption DEF Class
  <1>3. QED
    BY <1>1, <1>2 DEF Weights

\* The numbers of one cache.
LEMMA CacheNumbers ==
    ASSUME TypeOK, NEW t \in Thread, NEW c \in Class
    PROVE  /\ counts[t][c] \in Nat /\ total_slot_bytes[t] \in Nat
           /\ Capacity[c] \in Nat /\ Capacity[c] > 0
           /\ local[t] \in [Class -> SUBSET Block] /\ local[t][c] \subseteq Block
           /\ counts[t][c] * Capacity[c] \in Nat
  <1>1. /\ counts[t][c] \in Nat /\ total_slot_bytes[t] \in Nat
        /\ local[t] \in [Class -> SUBSET Block] /\ local[t][c] \subseteq Block
    BY DEF TypeOK
  <1>2. Capacity[c] \in Nat /\ Capacity[c] > 0
    BY CapacityAssumption
  <1>3. QED
    BY <1>1, <1>2

\* The bytes of one class are part of the total.
LEMMA ClassWeighs ==
    ASSUME TypeOK, CacheAccounting, NEW t \in Thread, NEW c \in Class
    PROVE  counts[t][c] * Capacity[c] <= total_slot_bytes[t]
  <1>1. /\ Weights(local[t]) \in [1..ClassCount -> Nat] /\ c + 1 \in 1..ClassCount
        /\ Weights(local[t])[c + 1] = Cardinality(local[t][c]) * Capacity[c]
    BY CacheNumbers, WeightsType
  <1>2. total_slot_bytes[t] = Total(Weights(local[t]), ClassCount)
    BY DEF CacheAccounting, CachedBytes, Weights
  <1>3. counts[t][c] = Cardinality(local[t][c])
    BY DEF CacheAccounting
  <1>4. Weights(local[t])[c + 1] <= Total(Weights(local[t]), ClassCount)
    BY <1>1, TotalBounds, ClassAssumption
  <1>5. QED
    BY <1>1, <1>2, <1>3, <1>4

\* Counters that follow the blocks keep agreeing with them.
LEMMA RecountAgrees ==
    ASSUME TypeOK, CacheAccounting, NEW t \in Thread, NEW c \in Class, NEW S \in SUBSET Block,
           Recount(t, c, S)
    PROVE  CacheAccounting'
  <1>0. /\ counts \in [Thread -> [Class -> Nat]] /\ local \in [Thread -> [Class -> SUBSET Block]]
        /\ total_slot_bytes \in [Thread -> Nat]
    BY DEF TypeOK
  <1>1. /\ local'[t] = [local[t] EXCEPT ![c] = S]
        /\ counts'[t] = [counts[t] EXCEPT ![c] = Cardinality(S)]
        /\ total_slot_bytes'[t] =
              total_slot_bytes[t] - counts[t][c] * Capacity[c] + Cardinality(S) * Capacity[c]
    BY <1>0 DEF Recount
  <1>2. \A u \in Thread \ {t} : /\ local'[u] = local[u] /\ counts'[u] = counts[u]
                                /\ total_slot_bytes'[u] = total_slot_bytes[u]
    BY <1>0 DEF Recount
  <1>3. \A d \in Class : counts'[t][d] = Cardinality(local'[t][d])
    BY <1>0, <1>1 DEF CacheAccounting
  <1>4. Cardinality(S) * Capacity[c] \in Nat
    <2>1. Cardinality(S) \in Nat /\ Capacity[c] \in Nat
      BY BlocksFinite, CapacityAssumption
    <2>2. QED
      BY <2>1
  <1> DEFINE w == Weights(local[t])
             v == Weights(local'[t])
  <1>5. v = [w EXCEPT ![c + 1] = Cardinality(S) * Capacity[c]]
    <2>1. ASSUME NEW n \in 1..ClassCount
          PROVE  v[n] = IF n = c + 1 THEN Cardinality(S) * Capacity[c] ELSE w[n]
      <3>1. n - 1 \in Class /\ (n = c + 1 <=> n - 1 = c)
        BY ClassAssumption DEF Class
      <3>2. local'[t][n - 1] = IF n - 1 = c THEN S ELSE local[t][n - 1]
        BY <1>0, <1>1, <3>1
      <3>3. v[n] = Cardinality(local'[t][n - 1]) * Capacity[n - 1]
        BY DEF Weights
      <3>4. w[n] = Cardinality(local[t][n - 1]) * Capacity[n - 1]
        BY DEF Weights
      <3>5. QED
        BY <3>1, <3>2, <3>3, <3>4
    <2>2. /\ v = [n \in 1..ClassCount |-> v[n]] /\ w = [n \in 1..ClassCount |-> w[n]]
      BY DEF Weights
    <2> HIDE DEF v, w
    <2>3. QED
      BY <2>1, <2>2
  <1>6. /\ w \in [1..ClassCount -> Nat] /\ c + 1 \in 1..ClassCount
        /\ w[c + 1] = counts[t][c] * Capacity[c]
    <2>1. local[t] \in [Class -> SUBSET Block]
      BY <1>0
    <2>2. QED
      BY <2>1, WeightsType DEF CacheAccounting
  <1>7. total_slot_bytes[t] = Total(w, ClassCount)
    BY DEF CacheAccounting, CachedBytes, Weights
  <1>8. CachedBytes(t)' = Total(v, ClassCount)
    BY DEF CachedBytes, Weights
  <1> HIDE DEF v, w
  <1>9. Total(v, ClassCount) = Total(w, ClassCount) - w[c + 1] + Cardinality(S) * Capacity[c]
    BY <1>4, <1>5, <1>6, TotalUpdate, ClassAssumption, ClassCount \in (c + 1)..ClassCount
  <1>10. total_slot_bytes'[t] = CachedBytes(t)'
    BY <1>1, <1>6, <1>7, <1>8, <1>9
  <1>11. ASSUME NEW u \in Thread \ {t}
         PROVE  /\ \A d \in Class : counts'[u][d] = Cardinality(local'[u][d])
                /\ total_slot_bytes'[u] = CachedBytes(u)'
    BY <1>2 DEF CacheAccounting, CachedBytes
  <1>12. QED
    BY <1>3, <1>10, <1>11 DEF CacheAccounting

\* A subtraction that does not go below zero is exact.
LEMMA SubExact ==
    ASSUME NEW a \in Nat, NEW b \in Nat, b <= a
    PROVE  size_sub(a, b) = a - b
  BY DEF size_sub

\* Blocks leave a cache.
LEMMA ExtractRecounts ==
    ASSUME TypeOK, CacheAccounting, NEW t \in Thread, NEW c \in Class,
           NEW list \in SUBSET local[t][c], thread_cache_extract_class(t, c, list)
    PROVE  /\ Recount(t, c, local[t][c] \ list)
           /\ Cardinality(local[t][c] \ list) <= counts[t][c]
  <1> DEFINE k == counts[t][c]
             m == Cardinality(list)
             C == Capacity[c]
             b == total_slot_bytes[t]
  <1>1. k \in Nat /\ C \in Nat /\ b \in Nat /\ k * C <= b /\ k = Cardinality(local[t][c])
    BY CacheNumbers, ClassWeighs DEF CacheAccounting
  <1>2. /\ m \in Nat /\ m <= k
        /\ Cardinality(local[t][c] \ list) = k - m
    <2>1. IsFiniteSet(local[t][c]) /\ IsFiniteSet(list)
      BY CacheNumbers, BlocksFinite
    <2>2. local[t][c] \cap list = list
      OBVIOUS
    <2>3. m \in Nat /\ m <= Cardinality(local[t][c])
      BY <2>1, FS_Subset, FS_CardinalityType
    <2>4. Cardinality(local[t][c] \ list) = Cardinality(local[t][c]) - Cardinality(list)
      BY <2>1, <2>2, FS_Difference
    <2>5. QED
      BY <1>1, <2>3, <2>4
  <1>3. m * C <= b /\ m * C \in Nat
    <2> HIDE DEF k, m, C, b
    <2>1. m * C <= k * C /\ m * C \in Nat /\ k * C \in Nat
      BY <1>1, <1>2
    <2>2. QED
      BY <1>1, <2>1
  <1>4. size_sub(k, m) = k - m
    <2> HIDE DEF k, m
    <2>1. QED
      BY <1>1, <1>2, SubExact
  <1>5. size_sub(b, m * C) = b - m * C
    <2> HIDE DEF m, C, b
    <2>1. QED
      BY <1>1, <1>3, SubExact
  <1>6. b - m * C = b - k * C + (k - m) * C
    <2> HIDE DEF k, m, C, b
    <2>1. QED
      BY <1>1, <1>2
  <1>7. /\ local' = [local EXCEPT ![t][c] = local[t][c] \ list]
        /\ counts' = [counts EXCEPT ![t][c] = size_sub(k, m)]
        /\ total_slot_bytes' = [total_slot_bytes EXCEPT ![t] = size_sub(b, m * C)]
    BY DEF TypeOK, thread_cache_extract_class
  <1>8. k - m <= k
    BY <1>1, <1>2
  <1>9. QED
    BY <1>2, <1>4, <1>5, <1>6, <1>7, <1>8 DEF Recount

\* A block is taken out.
LEMMA TakeRecounts ==
    ASSUME TypeOK, CacheAccounting, NEW t \in Thread, NEW c \in Class,
           NEW b, thread_cache_take(t, c, b)
    PROVE  /\ Recount(t, c, local[t][c] \ {b})
           /\ Cardinality(local[t][c] \ {b}) <= counts[t][c]
  <1>1. b \in local[t][c] /\ {b} \in SUBSET local[t][c]
    BY DEF thread_cache_take
  <1>2. Cardinality({b}) = 1 /\ 1 * Capacity[c] = Capacity[c]
    <2>1. Capacity[c] \in Nat
      BY CapacityAssumption
    <2>2. Cardinality({b}) = 1
      BY FS_Singleton
    <2>3. QED
      BY <2>1, <2>2
  <1>3. thread_cache_extract_class(t, c, {b})
    BY <1>2 DEF thread_cache_take, thread_cache_extract_class
  <1>4. QED
    BY <1>1, <1>3, ExtractRecounts

\* A block is put in.
LEMMA StoreRecounts ==
    ASSUME TypeOK, CacheAccounting, NEW t \in Thread, NEW c \in Class,
           NEW b \in Block, b \notin local[t][c], thread_cache_store(t, c, b)
    PROVE  Recount(t, c, local[t][c] \cup {b})
  <1> DEFINE k == counts[t][c]
             C == Capacity[c]
             n == total_slot_bytes[t]
  <1>1. k \in Nat /\ C \in Nat /\ n \in Nat /\ k = Cardinality(local[t][c])
    BY CacheNumbers DEF CacheAccounting
  <1>2. Cardinality(local[t][c] \cup {b}) = k + 1
    BY <1>1, CacheNumbers, BlocksFinite, FS_AddElement
  <1>3. n + C = n - k * C + (k + 1) * C
    <2> HIDE DEF k, C, n
    <2>1. QED
      BY <1>1
  <1>4. QED
    BY <1>2, <1>3 DEF Recount, thread_cache_store

\* No wrap: a refill accepts no more than fits.
LEMMA RefillFits ==
    ASSUME TypeOK, NEW t \in Thread, NEW c \in Class,
           counts[t][c] <= CLASS_BLOCK_LIMIT, total_slot_bytes[t] <= TOTAL_BYTES_LIMIT,
           NEW m \in Nat, m <= refill_limit(counts[t], total_slot_bytes[t], c)
    PROVE  /\ counts[t][c] + m <= CLASS_BLOCK_LIMIT
           /\ total_slot_bytes[t] + m * Capacity[c] <= TOTAL_BYTES_LIMIT
  <1> DEFINE k == counts[t][c]
             C == Capacity[c]
             b == total_slot_bytes[t]
             q == (TOTAL_BYTES_LIMIT - b) \div C
  <1>1. /\ k \in Nat /\ C \in Nat /\ C > 0 /\ b \in Nat
        /\ CLASS_BLOCK_LIMIT \in Nat /\ TOTAL_BYTES_LIMIT \in Nat /\ REFILL_LIMIT \in Nat
    BY CacheNumbers, LimitAssumption
  <1>2. /\ size_sub(CLASS_BLOCK_LIMIT, k) = CLASS_BLOCK_LIMIT - k
        /\ size_sub(TOTAL_BYTES_LIMIT, b) = TOTAL_BYTES_LIMIT - b
    BY <1>1, SubExact
  <1>3. refill_limit(counts[t], b, c) =
            Smaller(Smaller(REFILL_LIMIT, CLASS_BLOCK_LIMIT - k), q)
    BY <1>2 DEF refill_limit
  <1>4. q \in Int /\ C * q <= TOTAL_BYTES_LIMIT - b
    <2> HIDE DEF k, C, b
    <2>1. QED
      BY <1>1
  <1> HIDE DEF q, k, C, b
  <1>5. m <= CLASS_BLOCK_LIMIT - k /\ m <= q
    BY <1>1, <1>3, <1>4 DEF Smaller, k, b
  <1>6. m * C <= C * q
    BY <1>1, <1>4, <1>5
  <1>7. k + m <= CLASS_BLOCK_LIMIT
    BY <1>1, <1>5
  <1>8. b + m * C <= TOTAL_BYTES_LIMIT
    <2>1. m * C \in Nat /\ C * q \in Int
      BY <1>1, <1>4
    <2>2. QED
      BY <1>1, <1>4, <1>6, <2>1
  <1>9. QED
    BY <1>7, <1>8 DEF k, C, b

\* A refill puts the accepted blocks in and takes one out.
LEMMA RefillRecounts ==
    ASSUME TypeOK, CacheAccounting, NEW t \in Thread, NEW c \in Class,
           NEW accepted \in SUBSET Block, local[t][c] \cap accepted = {},
           NEW b \in Block, refill_and_take(t, c, accepted, b)
    PROVE  /\ Recount(t, c, (local[t][c] \cup accepted) \ {b})
           /\ Cardinality((local[t][c] \cup accepted) \ {b}) + 1
                 = counts[t][c] + Cardinality(accepted)
  <1> DEFINE k == counts[t][c]
             m == Cardinality(accepted)
             C == Capacity[c]
             n == total_slot_bytes[t]
             S == (local[t][c] \cup accepted) \ {b}
  <1>1. k \in Nat /\ C \in Nat /\ n \in Nat /\ k = Cardinality(local[t][c]) /\ m \in Nat
    BY CacheNumbers, BlocksFinite DEF CacheAccounting
  <1>2. Cardinality(S) = k + m - 1 /\ k + m >= 1
    <2>1. IsFiniteSet(local[t][c]) /\ IsFiniteSet(accepted)
      BY CacheNumbers, BlocksFinite
    <2>2. /\ IsFiniteSet(local[t][c] \cup accepted)
          /\ Cardinality(local[t][c] \cup accepted) = k + m - Cardinality(local[t][c] \cap accepted)
      BY <1>1, <2>1, FS_Union
    <2>3. Cardinality(local[t][c] \cap accepted) = 0
      BY FS_EmptySet
    <2>4. b \in local[t][c] \cup accepted
      BY DEF refill_and_take
    <2>5. Cardinality(S) = Cardinality(local[t][c] \cup accepted) - 1
      BY <2>2, <2>4, FS_RemoveElement
    <2>6. Cardinality(S) \in Nat
      BY <2>2, FS_RemoveElement, FS_CardinalityType
    <2> HIDE DEF k, m, S
    <2>7. QED
      BY <1>1, <2>2, <2>3, <2>5, <2>6
  <1>3. n + m * C >= C
    <2>1. k * C <= n
      BY ClassWeighs
    <2> HIDE DEF k, m, C, n
    <2>2. k * C + m * C = (k + m - 1) * C + C
      BY <1>1
    <2>3. k + m - 1 \in Nat /\ k * C \in Nat /\ m * C \in Nat
      BY <1>1, <1>2
    <2>4. (k + m - 1) * C \in Nat
      BY <1>1, <2>3
    <2>5. QED
      BY <1>1, <2>1, <2>2, <2>3, <2>4
  <1>4. size_sub(k + m, 1) = k + m - 1
    <2> HIDE DEF k, m
    <2>1. k + m \in Nat /\ 1 \in Nat /\ 1 <= k + m
      BY <1>1, <1>2
    <2>2. QED
      BY <1>1, <2>1 DEF size_sub
  <1>5. size_sub(n + m * C, C) = n + m * C - C
    <2> HIDE DEF m, C, n
    <2>1. n + m * C \in Nat
      BY <1>1
    <2>2. QED
      BY <1>1, <1>3, <2>1, SubExact
  <1>6. n + m * C - C = n - k * C + (k + m - 1) * C
    <2> HIDE DEF k, m, C, n
    <2>1. QED
      BY <1>1
  <1>7. /\ local' = [local EXCEPT ![t][c] = S]
        /\ counts' = [counts EXCEPT ![t][c] = size_sub(k + m, 1)]
        /\ total_slot_bytes' = [total_slot_bytes EXCEPT ![t] = size_sub(n + m * C, C)]
    BY DEF refill_and_take
  <1>8. Cardinality(S) + 1 = k + m
    <2> HIDE DEF k, m, S
    <2>1. QED
      BY <1>1, <1>2
  <1>9. QED
    BY <1>2, <1>4, <1>5, <1>6, <1>7, <1>8 DEF Recount

-----------------------------------------------------------------------------

\* What a step of thread t does to its cache, and where it stands afterwards.
CacheKind(t) ==
    \/ /\ UNCHANGED cacheVars
       /\ pc[t] # "evict" \/ UNCHANGED <<pc, cls>> \/ FreeReturns(t)
       /\ pc'[t] = "evict" => pc[t] = "evict"
    \/ \E c \in Class, b \in Block :
          thread_cache_take(t, c, b) /\ pc[t] # "evict" /\ pc'[t] # "evict"
    \/ \E c \in Class, b \in live :
          thread_cache_store(t, c, b) /\ pc[t] # "evict" /\ pc'[t] = "evict" /\ cls'[t] = c
    \/ \E c \in Class : \E list \in SUBSET local[t][c] :
          /\ thread_cache_extract_class(t, c, list)
          /\ UNCHANGED <<pc, cls>> \/ (pc[t] # "evict" /\ pc'[t] # "evict")
    \/ RefillCache(t)
    \/ ReleaseDescriptor(t)

\* Every step of a thread is of one of those kinds, and moves no other thread.
LEMMA CacheKinds ==
    ASSUME Inv, NEW t \in Thread, ThreadNext(t)
    PROVE  /\ CacheKind(t)
           /\ \A u \in Thread \ {t} : pc'[u] = pc[u] /\ cls'[u] = cls[u]
  <1>t. /\ TypeOK /\ cls[t] \in Class /\ pc \in [Thread -> {"idle"} \cup CallPC \cup TrimPC]
        /\ cls \in [Thread -> Class] /\ "evict" \notin TrimPC
    BY DEF Inv, TypeOK, TrimPC
  <1> DEFINE Others == \A u \in Thread \ {t} : pc'[u] = pc[u] /\ cls'[u] = cls[u]
  <1>1. ASSUME NEW c \in Class, AllocateSmall(t, c), pc[t] = "idle" PROVE CacheKind(t) /\ Others
    <2>1. pc'[t] # "evict" /\ Others
      BY <1>1, <1>t DEF AllocateSmall, AllocationReturns
    <2>2. UNCHANGED cacheVars \/ \E b \in local[t][c] : thread_cache_take(t, c, b)
      BY <1>1 DEF AllocateSmall
    <2>3. \A b \in local[t][c] : b \in Block
      BY <1>t, CacheNumbers
    <2>4. QED
      BY <1>1, <2>1, <2>2, <2>3 DEF CacheKind
  <1>2. ASSUME NEW b \in live, FreeBlock(t, b), pc[t] # "evict" PROVE CacheKind(t) /\ Others
    <2>1. slab_class[SlabOf(b)] \in Class
      BY LiveClass
    <2>2. Others
      BY <1>2, <1>t DEF FreeBlock
    <2>3. CASE UNCHANGED cacheVars /\ pc' = [pc EXCEPT ![t] = "idle"]
      BY <1>2, <1>t, <2>2, <2>3 DEF CacheKind
    <2>4. CASE /\ thread_cache_store(t, slab_class[SlabOf(b)], b)
               /\ pc' = [pc EXCEPT ![t] = "evict"]
               /\ cls' = [cls EXCEPT ![t] = slab_class[SlabOf(b)]]
      BY <1>2, <1>t, <2>1, <2>2, <2>4 DEF CacheKind
    <2>5. QED
      BY <1>2, <2>3, <2>4 DEF FreeBlock
  <1>3. CASE RefillCache(t)
    BY <1>3, <1>t DEF CacheKind, RefillCache, AllocationReturns
  <1>4. CASE ReleaseDescriptor(t)
    BY <1>4, <1>t DEF CacheKind, ReleaseDescriptor, frameVars
  <1>5. ASSUME NEW c \in Class, Evict(t, c) PROVE CacheKind(t) /\ Others
    <2>1. PICK list \in SUBSET local[t][c] : thread_cache_extract_class(t, c, list)
      BY <1>5 DEF Evict, Prefixes
    <2>2. UNCHANGED <<pc, cls>>
      BY <1>5 DEF Evict, frameVars
    <2>3. QED
      BY <2>1, <2>2 DEF CacheKind
  <1>6. CASE FlushClass(t)
    <2>1. thread_cache_extract_class(t, cls[t], local[t][cls[t]])
      BY <1>6 DEF FlushClass
    <2>2. pc[t] # "evict" /\ pc'[t] # "evict" /\ Others
      BY <1>6, <1>t DEF FlushClass
    <2>3. QED
      BY <1>t, <2>1, <2>2 DEF CacheKind
  <1>7. CASE FreeReturns(t)
    BY <1>7, <1>t DEF CacheKind, FreeReturns, frameVars
  <1>8. ASSUME \/ Detach(t) \/ Recheck(t) \/ Lock(t) \/ LockFails(t) \/ CreateFails(t)
               \/ (\E s \in Slab : CreateSlab(t, s)) \/ RefillDirect(t) \/ FlushCall(t)
        PROVE  CacheKind(t) /\ Others
    <2>1. UNCHANGED cacheVars /\ Others
      BY <1>8, <1>t DEF Detach, Recheck, Lock, LockFails, CreateFails, AllocationFails,
         CreateSlab, RefillDirect, AllocationReturns, FlushCall, frameVars
    <2>2. pc[t] # "evict" /\ pc'[t] # "evict"
      BY <1>8, <1>t DEF Detach, Recheck, Lock, LockFails, CreateFails, AllocationFails,
         CreateSlab, RefillDirect, AllocationReturns, FlushCall, CanCall
    <2>3. QED
      BY <2>1, <2>2 DEF CacheKind
  <1>9. ASSUME \/ TrimCall(t) \/ TrimDetach(t) \/ TrimScanned(t) \/ TrimPublish(t)
               \/ \E s \in Slab : TrimKeep(t, s) \/ TrimUnmap(t, s)
        PROVE  CacheKind(t) /\ Others
    <2>1. UNCHANGED cacheVars /\ Others
      BY <1>9, <1>t DEF TrimCall, TrimDetach, TrimScanned, TrimPublish, TrimKeep, TrimUnmap
    <2>2. pc[t] # "evict" /\ pc'[t] # "evict"
      BY <1>9, <1>t DEF TrimCall, TrimDetach, TrimScanned, TrimPublish, TrimKeep, TrimUnmap,
         CanCall
    <2>3. QED
      BY <2>1, <2>2 DEF CacheKind
  <1>10. CASE Lifetime(t)
    <2>1. UNCHANGED cacheVars /\ Others
      BY <1>10, <1>t DEF Lifetime, ThreadExit, DestroyDescriptor, ThreadGone, ThreadStart, frameVars
    <2>2. \/ pc[t] # "evict" /\ pc'[t] # "evict"
          \/ UNCHANGED <<pc, cls>>
      BY <1>10, <1>t DEF Lifetime, ThreadExit, DestroyDescriptor, ThreadGone, ThreadStart,
         CanCall, frameVars
    <2>3. QED
      BY <2>1, <2>2 DEF CacheKind
  <1>11. CASE \/ \E c \in Class : MallocCall(t, c)
              \/ \E b \in Block, c \in Class : ReallocCall(t, b, c)
    BY <1>1, <1>11 DEF MallocCall, ReallocCall, CanCall
  <1>12. CASE \E b \in Block : FreeCall(t, b)
    BY <1>2, <1>12 DEF FreeCall, CanCall
  <1>13. CASE FreeOld(t)
    <2>1. old[t] \in live
      BY <1>13 DEF FreeOld, Inv, ControlInv, ReallocInv
    <2>2. QED
      BY <1>2, <1>13, <2>1 DEF FreeOld
  <1>14. QED
    BY <1>3, <1>4, <1>5, <1>6, <1>7, <1>8, <1>9, <1>10, <1>11, <1>12, <1>13
       DEF ThreadNext, Step, Call

\* The counters agree with the lists after every step.
LEMMA AccountingStep ==
    ASSUME Inv, CacheAccounting, NEW t \in Thread, ThreadNext(t)
    PROVE  CacheAccounting'
  <1>t. TypeOK /\ cls[t] \in Class
    BY DEF Inv, TypeOK
  <1>1. CASE UNCHANGED cacheVars
    BY <1>1 DEF CacheAccounting, CachedBytes, cacheVars
  <1>2. ASSUME NEW c \in Class, NEW S \in SUBSET Block, Recount(t, c, S) PROVE CacheAccounting'
    BY <1>2, <1>t, RecountAgrees
  <1>3. ASSUME NEW c \in Class, NEW b \in Block, thread_cache_take(t, c, b) PROVE CacheAccounting'
    BY <1>t, <1>2, <1>3, TakeRecounts, CacheNumbers
  <1>4. ASSUME NEW c \in Class, NEW b \in live, thread_cache_store(t, c, b) PROVE CacheAccounting'
    <2>1. b \notin local[t][c]
      BY DEF Inv, OwnerInv, OneOwner, Private
    <2>2. b \in Block /\ local[t][c] \cup {b} \in SUBSET Block
      BY <1>t, CacheNumbers, LiveClass
    <2>3. Recount(t, c, local[t][c] \cup {b})
      BY <1>t, <1>4, <2>1, <2>2, StoreRecounts
    <2>4. QED
      BY <1>2, <2>2, <2>3
  <1>5. ASSUME NEW c \in Class, NEW list \in SUBSET local[t][c],
               thread_cache_extract_class(t, c, list)
        PROVE  CacheAccounting'
    <2>1. local[t][c] \ list \in SUBSET Block
      BY <1>t, CacheNumbers
    <2>2. QED
      BY <1>t, <1>2, <1>5, <2>1, ExtractRecounts
  <1>6. CASE RefillCache(t)
    <2> DEFINE c == cls[t]
    <2>1. PICK accepted \in SUBSET available[t][c], b \in Block : refill_and_take(t, c, accepted, b)
      BY <1>6 DEF RefillCache, Prefixes
    <2>2. local[t][c] \cap accepted = {} /\ accepted \in SUBSET Block /\ c \in Class
      BY <1>t DEF Inv, OwnerInv, OneOwner, TypeOK
    <2>3. (local[t][c] \cup accepted) \ {b} \in SUBSET Block
      BY <1>t, <2>2, CacheNumbers
    <2> HIDE DEF c
    <2>4. QED
      BY <1>t, <1>2, <2>1, <2>2, <2>3, RefillRecounts
  <1>7. CASE ReleaseDescriptor(t)
    <2>1. /\ local'[t] = EmptyLists /\ counts'[t] = [c \in Class |-> 0]
          /\ total_slot_bytes'[t] = 0
      BY <1>7, <1>t DEF ReleaseDescriptor, TypeOK
    <2>2. \A u \in Thread \ {t} : /\ local'[u] = local[u] /\ counts'[u] = counts[u]
                                  /\ total_slot_bytes'[u] = total_slot_bytes[u]
      BY <1>7, <1>t DEF ReleaseDescriptor, TypeOK
    <2>3. \A c \in Class : local'[t][c] = {} /\ Cardinality(local'[t][c]) = 0
      BY <2>1, FS_EmptySet DEF EmptyLists
    <2> DEFINE w == Weights(local'[t])
    <2>4. \A n \in 1..ClassCount : w[n] = 0
      <3> TAKE n \in 1..ClassCount
      <3>1. n - 1 \in Class
        BY ClassAssumption DEF Class
      <3>2. Capacity[n - 1] \in Nat
        BY <3>1, CapacityAssumption
      <3>3. w[n] = 0 * Capacity[n - 1]
        BY <2>3, <3>1 DEF Weights
      <3>4. QED
        BY <3>2, <3>3
    <2>5. CachedBytes(t)' = Total(w, ClassCount)
      BY DEF CachedBytes, Weights
    <2> HIDE DEF w
    <2>6. CachedBytes(t)' = 0
      BY <2>4, <2>5, TotalOfZeros, ClassAssumption
    <2>7. \A u \in Thread \ {t} : CachedBytes(u)' = CachedBytes(u)
      BY <2>2 DEF CachedBytes
    <2>8. QED
      BY <2>1, <2>2, <2>3, <2>6, <2>7 DEF CacheAccounting
  <1>8. CacheKind(t)
    BY CacheKinds
  <1>9. QED
    BY <1>1, <1>3, <1>4, <1>5, <1>6, <1>7, <1>8 DEF CacheKind

\* A cache with bytes has a lowest class with blocks.
LEMMA LowestClass ==
    ASSUME TypeOK, CacheAccounting, NEW t \in Thread, total_slot_bytes[t] # 0
    PROVE  \E c \in Class : counts[t][c] # 0 /\ \A d \in Class : d < c => counts[t][d] = 0
  <1>1. SUFFICES ASSUME \A c \in Class :
                           (\A d \in Class : d < c => counts[t][d] = 0) => counts[t][c] = 0
                 PROVE  FALSE
    OBVIOUS
  <1> DEFINE S == {n \in Nat : \A d \in Class : d < n => counts[t][d] = 0}
  <1>2. 0 \in S
    BY ClassFacts
  <1>3. ASSUME NEW n \in S PROVE n + 1 \in S
    <2>1. ASSUME NEW d \in Class, d < n + 1 PROVE counts[t][d] = 0
      <3>1. CASE d = n
        BY <1>1, <3>1
      <3>2. CASE d # n
        <4>1. d \in Int /\ n \in Nat
          BY ClassFacts
        <4>2. d < n
          BY <2>1, <3>2, <4>1
        <4>3. QED
          BY <4>2
      <3>3. QED
        BY <3>1, <3>2
    <2>2. QED
      BY <2>1
  <1>4. S = Nat
    <2>1. S \in SUBSET Nat
      OBVIOUS
    <2> HIDE DEF S
    <2>2. QED
      BY <1>2, <1>3, <2>1, SetInduction
  <1>5. \A c \in Class : c < ClassCount /\ ClassCount \in Nat
    BY ClassAssumption DEF Class
  <1>6. \A c \in Class : counts[t][c] = 0
    BY <1>4, <1>5
  <1>7. \A n \in 1..ClassCount : Weights(local[t])[n] = 0
    <2> TAKE n \in 1..ClassCount
    <2>1. n - 1 \in Class
      BY ClassAssumption DEF Class
    <2>2. Capacity[n - 1] \in Nat /\ Cardinality(local[t][n - 1]) = 0
      BY <1>6, <2>1, CapacityAssumption DEF CacheAccounting
    <2>3. Weights(local[t])[n] = 0 * Capacity[n - 1]
      BY <2>2 DEF Weights
    <2>4. QED
      BY <2>2, <2>3
  <1>8. Total(Weights(local[t]), ClassCount) = 0
    BY <1>7, TotalOfZeros, ClassAssumption
  <1>9. QED
    BY <1>8 DEF CacheAccounting, CachedBytes, Weights

\* The eviction loop ends only when both limits are kept.
LEMMA EvictionDone ==
    ASSUME TypeOK, CacheAccounting, NEW t \in Thread, \A c \in Class : ~HasEviction(t, c)
    PROVE  counts[t][cls[t]] <= CLASS_BLOCK_LIMIT /\ total_slot_bytes[t] <= TOTAL_BYTES_LIMIT
  <1>t. /\ cls[t] \in Class /\ total_slot_bytes[t] \in Nat
        /\ \A c \in Class : counts[t][c] \in Nat
        /\ CLASS_BLOCK_LIMIT \in Nat /\ TOTAL_BYTES_LIMIT \in Nat
    BY LimitAssumption DEF TypeOK
  <1>1. \A c \in Class : counts[t][c] # 0 => local[t][c] # {}
    BY FS_EmptySet DEF CacheAccounting
  <1>2. SUFFICES ASSUME must_evict(counts[t], total_slot_bytes[t], cls[t]) PROVE FALSE
    BY <1>t DEF must_evict, OverClassLimit, OverByteLimit
  <1>3. counts[t][cls[t]] = 0
    BY <1>t, <1>1, <1>2 DEF HasEviction, evicts_from
  <1>4. total_slot_bytes[t] > TOTAL_BYTES_LIMIT
    BY <1>t, <1>2, <1>3 DEF must_evict, OverClassLimit, OverByteLimit
  <1>5. total_slot_bytes[t] # 0
    BY <1>t, <1>4
  <1>6. PICK c \in Class : counts[t][c] # 0 /\ \A d \in Class : d < c => counts[t][d] = 0
    BY <1>5, LowestClass
  <1>7. evicts_from(counts[t], cls[t], c)
    BY <1>3, <1>6 DEF evicts_from
  <1>8. QED
    BY <1>1, <1>2, <1>6, <1>7 DEF HasEviction

\* A recount touches one cache, and there one class.
LEMMA RecountNumbers ==
    ASSUME TypeOK, NEW t \in Thread, NEW c \in Class, NEW S, Recount(t, c, S)
    PROVE  /\ \A u \in Thread \ {t} : /\ counts'[u] = counts[u]
                                      /\ total_slot_bytes'[u] = total_slot_bytes[u]
           /\ \A d \in Class \ {c} : counts'[t][d] = counts[t][d]
           /\ counts'[t][c] = Cardinality(S)
           /\ total_slot_bytes'[t] =
                total_slot_bytes[t] - counts[t][c] * Capacity[c] + Cardinality(S) * Capacity[c]
  BY DEF TypeOK, Recount

\* Fewer blocks weigh less.
LEMMA FewerBytes ==
    ASSUME NEW n \in Nat, NEW k \in Nat, NEW m \in Nat, NEW C \in Nat, m <= k
    PROVE  n - k * C + m * C <= n
  <1>1. (k - m) * C \in Nat
    <2>1. k - m \in Nat
      OBVIOUS
    <2>2. QED
      BY <2>1
  <1>2. n - k * C + m * C = n - (k - m) * C
    OBVIOUS
  <1>3. QED
    BY <1>1, <1>2

\* A step that neither adds to a cache nor leaves its eviction keeps the limits.
LEMMA LimitsKept ==
    ASSUME TypeOK, TypeOK', LimitInv, NEW t \in Thread,
           \A u \in Thread \ {t} : /\ pc'[u] = pc[u] /\ cls'[u] = cls[u] /\ counts'[u] = counts[u]
                                   /\ total_slot_bytes'[u] = total_slot_bytes[u],
           \A c \in Class : counts'[t][c] <= counts[t][c],
           total_slot_bytes'[t] <= total_slot_bytes[t],
           pc[t] # "evict" \/ (pc'[t] = "evict" /\ cls'[t] = cls[t])
    PROVE  LimitInv'
  <1>1. /\ CLASS_BLOCK_LIMIT \in Nat /\ TOTAL_BYTES_LIMIT \in Nat
        /\ total_slot_bytes[t] \in Nat /\ total_slot_bytes'[t] \in Nat
        /\ \A c \in Class : counts[t][c] \in Nat /\ counts'[t][c] \in Nat
    BY LimitAssumption DEF TypeOK
  <1>2. ASSUME NEW c \in Class
        PROVE  counts'[t][c] <= CLASS_BLOCK_LIMIT \/ (pc'[t] = "evict" /\ c = cls'[t])
    <2>1. counts[t][c] <= CLASS_BLOCK_LIMIT \/ (pc[t] = "evict" /\ c = cls[t])
      BY DEF LimitInv
    <2>2. QED
      BY <1>1, <2>1
  <1>3. total_slot_bytes'[t] <= TOTAL_BYTES_LIMIT \/ pc'[t] = "evict"
    <2>1. total_slot_bytes[t] <= TOTAL_BYTES_LIMIT \/ pc[t] = "evict"
      BY DEF LimitInv
    <2>2. QED
      BY <1>1, <2>1
  <1>4. QED
    BY <1>2, <1>3 DEF LimitInv

\* A refill ends within the limits, every step of an eviction gets closer to
\* them, and only a free may exceed them.
LEMMA LimitStep ==
    ASSUME Inv, Inv', CacheAccounting, LimitInv, NEW t \in Thread, ThreadNext(t)
    PROVE  LimitInv'
  <1>t. TypeOK /\ TypeOK' /\ cls[t] \in Class
    BY DEF Inv, TypeOK
  <1>0. \A u \in Thread \ {t} : pc'[u] = pc[u] /\ cls'[u] = cls[u]
    BY CacheKinds
  <1>n. /\ CLASS_BLOCK_LIMIT \in Nat /\ TOTAL_BYTES_LIMIT \in Nat
        /\ total_slot_bytes[t] \in Nat /\ total_slot_bytes'[t] \in Nat
        /\ \A c \in Class : counts[t][c] \in Nat /\ counts'[t][c] \in Nat /\ Capacity[c] \in Nat
    BY <1>t, LimitAssumption, CapacityAssumption DEF TypeOK
  <1>1. ASSUME UNCHANGED cacheVars, pc[t] # "evict" \/ UNCHANGED <<pc, cls>> PROVE LimitInv'
    <2>1. /\ \A u \in Thread : counts'[u] = counts[u] /\ total_slot_bytes'[u] = total_slot_bytes[u]
          /\ \A c \in Class : counts'[t][c] <= counts[t][c]
          /\ total_slot_bytes'[t] <= total_slot_bytes[t]
      BY <1>1, <1>n DEF cacheVars
    <2>2. pc[t] # "evict" \/ (pc'[t] = "evict" /\ cls'[t] = cls[t])
      BY <1>1
    <2>3. QED
      BY <1>t, <1>0, <2>1, <2>2, LimitsKept
  <1>2. ASSUME NEW c \in Class, NEW S \in SUBSET Block, Recount(t, c, S),
               Cardinality(S) <= counts[t][c], pc[t] # "evict" \/ UNCHANGED <<pc, cls>>
        PROVE  LimitInv'
    <2>1. /\ \A u \in Thread \ {t} : /\ counts'[u] = counts[u]
                                     /\ total_slot_bytes'[u] = total_slot_bytes[u]
          /\ \A d \in Class \ {c} : counts'[t][d] = counts[t][d]
          /\ counts'[t][c] = Cardinality(S)
          /\ total_slot_bytes'[t] =
               total_slot_bytes[t] - counts[t][c] * Capacity[c] + Cardinality(S) * Capacity[c]
      BY <1>t, <1>2, RecountNumbers
    <2>2. Cardinality(S) \in Nat
      BY BlocksFinite
    <2>3. total_slot_bytes'[t] <= total_slot_bytes[t]
      BY <1>n, <1>2, <2>1, <2>2, FewerBytes
    <2>4. \A d \in Class : counts'[t][d] <= counts[t][d]
      BY <1>n, <1>2, <2>1
    <2>5. pc[t] # "evict" \/ (pc'[t] = "evict" /\ cls'[t] = cls[t])
      BY <1>2
    <2>6. QED
      BY <1>t, <1>0, <2>1, <2>3, <2>4, <2>5, LimitsKept
  <1>3. ASSUME NEW c \in Class, NEW b \in Block, thread_cache_take(t, c, b), pc[t] # "evict"
        PROVE  LimitInv'
    <2>1. local[t][c] \ {b} \in SUBSET Block
      BY <1>t, CacheNumbers
    <2>2. QED
      BY <1>t, <1>2, <1>3, <2>1, TakeRecounts
  <1>4. ASSUME NEW c \in Class, NEW list \in SUBSET local[t][c],
               thread_cache_extract_class(t, c, list), pc[t] # "evict" \/ UNCHANGED <<pc, cls>>
        PROVE  LimitInv'
    <2>1. local[t][c] \ list \in SUBSET Block
      BY <1>t, CacheNumbers
    <2>2. QED
      BY <1>t, <1>2, <1>4, <2>1, ExtractRecounts
  <1>5. ASSUME NEW c \in Class, NEW b \in live, thread_cache_store(t, c, b),
               pc[t] # "evict", pc'[t] = "evict", cls'[t] = c
        PROVE  LimitInv'
    <2>1. /\ \A u \in Thread \ {t} : /\ counts'[u] = counts[u]
                                     /\ total_slot_bytes'[u] = total_slot_bytes[u]
          /\ \A d \in Class \ {c} : counts'[t][d] = counts[t][d]
      BY <1>t, <1>5 DEF thread_cache_store, TypeOK
    <2>2. \A d \in Class : counts[t][d] <= CLASS_BLOCK_LIMIT
      BY <1>5 DEF LimitInv
    <2>3. QED
      BY <1>0, <1>5, <2>1, <2>2 DEF LimitInv
  <1>6. CASE RefillCache(t)
    <2> DEFINE c == cls[t]
               k == counts[t][c]
               n == total_slot_bytes[t]
               C == Capacity[c]
    <2>1. PICK accepted \in SUBSET available[t][c], b \in Block :
             /\ refill_and_take(t, c, accepted, b)
             /\ Cardinality(accepted) =
                  prefix_count(Cardinality(available[t][c]), refill_limit(counts[t], n, c))
      BY <1>6 DEF RefillCache, Prefixes
    <2> DEFINE m == Cardinality(accepted)
               S == (local[t][c] \cup accepted) \ {b}
    <2>2. /\ local[t][c] \cap accepted = {} /\ accepted \in SUBSET Block
          /\ available[t][c] \in SUBSET Block
      BY <1>t DEF Inv, OwnerInv, OneOwner, TypeOK
    <2>3. Recount(t, c, S) /\ Cardinality(S) + 1 = k + m
      BY <1>t, <2>1, <2>2, RefillRecounts
    <2>4. pc[t] = "refill" /\ pc'[t] # "evict"
      BY <1>6, <1>t DEF RefillCache, AllocationReturns, TypeOK
    <2>5. k <= CLASS_BLOCK_LIMIT /\ n <= TOTAL_BYTES_LIMIT
      BY <1>t, <2>4 DEF LimitInv
    <2>6. S \in SUBSET Block
      BY <1>t, <2>2, CacheNumbers
    <2>7. m \in Nat /\ Cardinality(available[t][c]) \in Nat /\ Cardinality(S) \in Nat
      BY <2>2, <2>6, BlocksFinite
    <2>8. m <= refill_limit(counts[t], n, c)
      <3>1. refill_limit(counts[t], n, c) \in Int
        <4>1. /\ size_sub(CLASS_BLOCK_LIMIT, k) = CLASS_BLOCK_LIMIT - k
              /\ size_sub(TOTAL_BYTES_LIMIT, n) = TOTAL_BYTES_LIMIT - n
          BY <1>n, <1>t, <2>5, SubExact
        <4>2. C \in Nat /\ C > 0
          BY <1>t, CapacityAssumption
        <4>3. (TOTAL_BYTES_LIMIT - n) \div C \in Int /\ CLASS_BLOCK_LIMIT - k \in Int
          <5> HIDE DEF k, n, C
          <5>1. k \in Nat /\ n \in Nat
            BY <1>n, <1>t DEF k, n
          <5>2. QED
            BY <1>n, <4>2, <5>1
        <4>4. REFILL_LIMIT \in Int
          BY LimitAssumption
        <4>5. QED
          BY <4>1, <4>3, <4>4 DEF refill_limit, Smaller
      <3>2. QED
        BY <2>1, <2>7, <3>1 DEF prefix_count, Smaller
    <2>9. k + m <= CLASS_BLOCK_LIMIT /\ n + m * C <= TOTAL_BYTES_LIMIT
      BY <1>t, <2>5, <2>7, <2>8, RefillFits
    <2>10. /\ \A u \in Thread \ {t} : /\ counts'[u] = counts[u]
                                      /\ total_slot_bytes'[u] = total_slot_bytes[u]
           /\ \A d \in Class \ {c} : counts'[t][d] = counts[t][d]
           /\ counts'[t][c] = Cardinality(S)
           /\ total_slot_bytes'[t] = n - k * C + Cardinality(S) * C
      BY <1>t, <2>3, RecountNumbers
    <2>11. Cardinality(S) <= CLASS_BLOCK_LIMIT
      <3>1. k \in Nat
        BY <1>n, <1>t
      <3> HIDE DEF k, m, S
      <3>2. QED
        BY <1>n, <2>3, <2>7, <2>9, <3>1
    <2>12. n - k * C + Cardinality(S) * C <= TOTAL_BYTES_LIMIT
      <3>1. k \in Nat /\ n \in Nat /\ C \in Nat
        BY <1>n, <1>t
      <3>2. PICK s \in Nat : s = Cardinality(S)
        BY <2>7
      <3> HIDE DEF k, m, S, n, C
      <3>3. s = k + m - 1
        BY <2>3, <2>7, <3>1, <3>2
      <3>4. n - k * C + s * C = n + m * C - C
        BY <2>7, <3>1, <3>3
      <3>5. m * C \in Nat
        BY <2>7, <3>1
      <3>6. n - k * C + s * C <= TOTAL_BYTES_LIMIT
        BY <1>n, <2>9, <3>1, <3>4, <3>5
      <3>7. QED
        BY <3>2, <3>6
    <2>13. \A d \in Class : counts'[t][d] <= CLASS_BLOCK_LIMIT
      <3>1. \A d \in Class : counts[t][d] <= CLASS_BLOCK_LIMIT
        BY <2>4 DEF LimitInv
      <3> HIDE DEF S
      <3>2. QED
        BY <2>10, <2>11, <3>1
    <2>14. total_slot_bytes'[t] <= TOTAL_BYTES_LIMIT
      BY <2>10, <2>12
    <2>15. QED
      BY <1>0, <2>10, <2>13, <2>14 DEF LimitInv
  <1>7. CASE ReleaseDescriptor(t)
    <2>1. /\ counts'[t] = [c \in Class |-> 0] /\ total_slot_bytes'[t] = 0
          /\ \A u \in Thread \ {t} : /\ counts'[u] = counts[u]
                                     /\ total_slot_bytes'[u] = total_slot_bytes[u]
      BY <1>7, <1>t DEF ReleaseDescriptor, TypeOK
    <2>2. /\ \A c \in Class : counts'[t][c] <= CLASS_BLOCK_LIMIT
          /\ total_slot_bytes'[t] <= TOTAL_BYTES_LIMIT
      BY <1>n, <2>1
    <2>3. QED
      BY <1>0, <2>1, <2>2 DEF LimitInv
  <1>8. CASE FreeReturns(t)
    <2>1. UNCHANGED cacheVars /\ pc[t] = "evict"
      BY <1>8 DEF FreeReturns
    <2>2. counts[t][cls[t]] <= CLASS_BLOCK_LIMIT /\ total_slot_bytes[t] <= TOTAL_BYTES_LIMIT
      BY <1>8, <1>t, EvictionDone DEF FreeReturns
    <2>3. \A c \in Class : counts[t][c] <= CLASS_BLOCK_LIMIT
      BY <2>2 DEF LimitInv
    <2>4. QED
      BY <1>0, <2>1, <2>2, <2>3 DEF LimitInv, cacheVars
  <1>9. CacheKind(t)
    BY CacheKinds
  <1>10. QED
    BY <1>1, <1>3, <1>4, <1>5, <1>6, <1>7, <1>8, <1>9 DEF CacheKind

\* The counters by which a cache decides, and its limits.
CountInv == CacheAccounting /\ LimitInv

\* Empty caches count nothing.
LEMMA CountInit == Init => CountInv
  <1> SUFFICES ASSUME Init PROVE CountInv
    OBVIOUS
  <1>1. \A t \in Thread : \A c \in Class : local[t][c] = {} /\ counts[t][c] = 0
    BY DEF Init, EmptyLists
  <1>2. \A t \in Thread : total_slot_bytes[t] = 0
    BY DEF Init
  <1>3. ASSUME NEW t \in Thread PROVE CachedBytes(t) = 0
    <2>1. ASSUME NEW n \in 1..ClassCount PROVE Weights(local[t])[n] = 0
      <3>1. n - 1 \in Class
        BY ClassAssumption DEF Class
      <3>2. Capacity[n - 1] \in Nat /\ Cardinality(local[t][n - 1]) = 0
        BY <1>1, <3>1, CapacityAssumption, FS_EmptySet
      <3>3. Weights(local[t])[n] = 0 * Capacity[n - 1]
        BY <3>2 DEF Weights
      <3>4. QED
        BY <3>2, <3>3
    <2>2. Total(Weights(local[t]), ClassCount) = 0
      BY <2>1, TotalOfZeros, ClassAssumption
    <2>3. QED
      BY <2>2 DEF CachedBytes, Weights
  <1>4. CacheAccounting
    BY <1>1, <1>2, <1>3, FS_EmptySet DEF CacheAccounting
  <1>5. LimitInv
    BY <1>1, <1>2, LimitAssumption DEF LimitInv
  <1>6. QED
    BY <1>4, <1>5 DEF CountInv

\* Every action keeps the counters and the limits.
LEMMA CountStep == Inv /\ CountInv /\ [Next]_vars => CountInv'
  <1> SUFFICES ASSUME Inv, CountInv, [Next]_vars PROVE CountInv'
    OBVIOUS
  <1>1. ASSUME NEW t \in Thread, ThreadNext(t) PROVE CountInv'
    <2>1. Inv'
      BY InvStep
    <2>2. QED
      BY <1>1, <2>1, AccountingStep, LimitStep DEF CountInv
  <1>2. CASE UNCHANGED vars
    BY <1>2 DEF CountInv, CacheAccounting, CachedBytes, LimitInv, vars, cacheVars, frameVars
  <1>3. QED
    BY <1>1, <1>2 DEF Next, ThreadNext

\* The counters are exact and the limits hold wherever a cache is not in its eviction loop.
THEOREM Counting == Spec => []CountInv
  BY Invariance, CountInit, CountStep, PTL DEF Spec

\* The counters of a cache agree with its lists, so what
\* hplf_thread_cache_snapshot reports is what the cache holds, and none of the
\* size_t subtractions of src/thread_cache.c wraps.
THEOREM CountersAgree == Spec => []CacheAccounting
  <1>1. CountInv => CacheAccounting
    BY DEF CountInv
  <1>2. QED
    BY <1>1, Counting, PTL

\* A cache is within both limits whenever it is not evicting: a refill accepts
\* no more than fits, and the eviction loop of hplf_free does not stop early.
THEOREM CachesStayWithinLimits == Spec => []CacheWithinLimits
  <1>1. CountInv => CacheWithinLimits
    BY DEF CountInv, LimitInv, CacheWithinLimits
  <1>2. QED
    BY <1>1, Counting, PTL

-----------------------------------------------------------------------------
(***************************************************************************)
(* What a quiescent trim leaves mapped.                                    *)
(***************************************************************************)

\* A caller has the block, or a cache does.
InUse(b) == b \in live \/ \E u \in Thread, c \in Class : b \in local[u][c]

\* Nobody else is inside a call.
TrimIsAlone == \A t \in Thread : pc[t] \in TrimPC => \A u \in Thread \ {t} : pc[u] = "idle"

\* The classes that the trim has detached stay empty until it publishes.
TrimHasLists ==
    \A t \in Thread, c \in Class :
        pc[t] = "trim_scan" \/ (pc[t] = "trim_detach" /\ c < cls[t]) => heads[c] = {}

\* A slab that the trim has looked at and kept has a block in use.
TrimKeptUsed ==
    \A t \in Thread : pc[t] \in {"trim_scan", "trim_publish"} =>
        \A s \in slabs \ scan[t] : \E b \in BlocksOf(s) : InUse(b)

TrimInv == TrimIsAlone /\ TrimHasLists /\ TrimKeptUsed

\* While a thread trims, no other thread touches a list, a cache or a slab.
LEMMA OthersPause ==
    ASSUME Inv, QuiescentTrim, TrimInv, NEW t \in Thread, ThreadNext(t), NEW u \in Thread,
           pc[u] \in TrimPC
    PROVE  \/ UNCHANGED <<pc, cls, heads, slabs, scan, live, local>>
           \/ /\ t = u
              /\ \/ TrimDetach(t) \/ TrimScanned(t) \/ TrimPublish(t)
                 \/ \E s \in Slab : TrimKeep(t, s) \/ TrimUnmap(t, s)
  <1>1. ~CanCall(t)
    BY DEF CanCall
  <1>2. ~Call(t) /\ ~ThreadExit(t) /\ ~DestroyDescriptor(t)
    BY <1>1 DEF Call, MallocCall, FreeCall, ReallocCall, FlushCall, TrimCall, ThreadExit,
       DestroyDescriptor
  <1>3. CASE ThreadGone(t) \/ ThreadStart(t)
    BY <1>3 DEF ThreadGone, ThreadStart, registryVars, cacheVars, frameVars
  <1>4. ASSUME Step(t) \/ Lock(t)
        PROVE  /\ pc[t] # "idle"
               /\ \/ pc[t] \notin TrimPC
                  \/ TrimDetach(t) \/ TrimScanned(t) \/ TrimPublish(t)
                  \/ \E s \in Slab : TrimKeep(t, s) \/ TrimUnmap(t, s)
    BY <1>4 DEF Step, Detach, Lock, LockFails, Recheck, CreateSlab, CreateFails, RefillCache,
       RefillDirect, FreeOld, Evict, FreeReturns, FlushClass, ReleaseDescriptor, TrimDetach,
       TrimScanned, TrimPublish, TrimKeep, TrimUnmap, TrimPC
  <1>5. t # u => pc[t] = "idle"
    BY DEF TrimInv, TrimIsAlone
  <1>6. QED
    BY <1>2, <1>3, <1>4, <1>5 DEF ThreadNext, Lifetime

\* Only hplf_trim_quiescent begins a trim.
LEMMA TrimBegins ==
    ASSUME Inv, NEW t \in Thread, ThreadNext(t), \A u \in Thread : pc[u] \notin TrimPC
    PROVE  TrimCall(t) \/ \A u \in Thread : pc'[u] \notin TrimPC
  <1>t. /\ pc \in [Thread -> {"idle"} \cup CallPC \cup TrimPC] /\ pc[t] \notin TrimPC
        /\ \A p \in {"idle"} \cup CallPC : p \notin TrimPC
    BY DEF Inv, TypeOK, TrimPC, CallPC
  <1> SUFFICES ASSUME ~TrimCall(t)
               PROVE  \E p \in {"idle"} \cup CallPC : pc' = [pc EXCEPT ![t] = p] \/ pc' = pc
    BY <1>t
  <1>1. CASE Call(t)
    BY <1>1 DEF Call, MallocCall, ReallocCall, AllocateSmall, AllocationReturns, FreeCall,
       FreeBlock, FlushCall, CallPC
  <1>2. CASE Lifetime(t)
    BY <1>2 DEF Lifetime, ThreadExit, DestroyDescriptor, ThreadGone, ThreadStart, CallPC
  <1>3. CASE Lock(t)
    BY <1>3 DEF Lock, CallPC
  <1>4. CASE Step(t)
    BY <1>4, <1>t DEF Step, Detach, LockFails, AllocationFails, Recheck, CreateSlab, CreateFails,
       RefillCache, RefillDirect, AllocationReturns, FreeOld, FreeBlock, Evict, FreeReturns,
       FlushClass, ReleaseDescriptor, TrimDetach, TrimScanned, TrimPublish, TrimKeep, TrimUnmap,
       TrimPC, CallPC
  <1>5. QED
    BY <1>1, <1>2, <1>3, <1>4 DEF ThreadNext

\* A block of a mapped slab that the trim does not find free is in use.
LEMMA NotFreeIsUsed ==
    ASSUME Inv, TrimInv, NEW t \in Thread, pc[t] = "trim_scan", NEW s \in Slab, s \in slabs,
           ~WhollyFree(t, s)
    PROVE  \E b \in BlocksOf(s) : InUse(b)
  <1>1. PICK b \in BlocksOf(s) : b \notin available[t][slab_class[s]]
    <2>1. SUFFICES ASSUME BlocksOf(s) \subseteq available[t][slab_class[s]] PROVE FALSE
      OBVIOUS
    <2>2. BlocksOf(s) \cap available[t][slab_class[s]] = BlocksOf(s)
      BY <2>1
    <2>3. QED
      BY <2>2 DEF WhollyFree
  <1>2. b \in Block /\ SlabOf(b) = s
    BY BlocksOfType DEF BlocksOf, SlabOf
  <1>3. slab_class[s] # Unmapped
    BY DEF Inv, ControlInv, RegistryInv
  <1>4. \A c \in Class : heads[c] = {}
    BY DEF TrimInv, TrimHasLists
  <1>5. ASSUME NEW u \in Thread, NEW c \in Class PROVE b \notin available[u][c]
    <2>1. CASE u = t
      <3>1. b \in available[u][c] => slab_class[SlabOf(b)] = c
        BY DEF Inv, OwnerInv, ClassSegregated, Private
      <3>2. QED
        BY <1>1, <1>2, <2>1, <3>1
    <2>2. CASE u # t
      <3>1. pc[u] = "idle"
        BY <2>2 DEF TrimInv, TrimIsAlone, TrimPC
      <3>2. QED
        BY <3>1 DEF Inv, ControlInv, StackInv
    <2>3. QED
      BY <2>1, <2>2
  <1>6. \/ b \in live
        \/ \E c \in Class : b \in heads[c] \/ \E u \in Thread : b \in Private(u, c)
    BY <1>2, <1>3 DEF Inv, OwnerInv, NoBlockLost
  <1>7. QED
    BY <1>4, <1>5, <1>6 DEF InUse, Private

\* A trim that nobody disturbs and that munmap does not fail keeps its record.
LEMMA TrimStep ==
    ASSUME Inv, QuiescentTrim, ~MayFail("unmap"), TrimInv, NEW t \in Thread, ThreadNext(t)
    PROVE  TrimInv'
  <1>t. /\ pc \in [Thread -> {"idle"} \cup CallPC \cup TrimPC] /\ cls \in [Thread -> Class]
        /\ heads \in [Class -> SUBSET Block] /\ scan \in [Thread -> SUBSET Slab]
        /\ slabs \subseteq Slab
    BY DEF Inv, TypeOK
  <1>1. CASE \A u \in Thread : pc'[u] \notin TrimPC
    BY <1>1 DEF TrimInv, TrimIsAlone, TrimHasLists, TrimKeptUsed, TrimPC
  <1>2. CASE TrimCall(t)
    <2>1. /\ \A u \in Thread : pc[u] = "idle"
          /\ pc'[t] = "trim_detach" /\ cls'[t] = 0
          /\ \A u \in Thread \ {t} : pc'[u] = pc[u]
      BY <1>2, <1>t DEF TrimCall
    <2>2. QED
      BY <2>1, ClassFacts DEF TrimInv, TrimIsAlone, TrimHasLists, TrimKeptUsed, TrimPC
  <1>3. CASE UNCHANGED <<pc, cls, heads, slabs, scan, live, local>>
    BY <1>3 DEF TrimInv, TrimIsAlone, TrimHasLists, TrimKeptUsed, InUse
  <1>4. ASSUME pc[t] \in TrimPC, \A u \in Thread \ {t} : pc'[u] = pc[u],
               TrimHasLists', TrimKeptUsed'
        PROVE  TrimInv'
    <2>1. \A u \in Thread \ {t} : pc'[u] = "idle" /\ pc'[u] \notin TrimPC
      BY <1>4 DEF TrimInv, TrimIsAlone, TrimPC
    <2>2. QED
      BY <1>4, <2>1 DEF TrimInv, TrimIsAlone
  <1>5. ASSUME pc[t] \in TrimPC PROVE \A u \in Thread \ {t} : pc[u] = "idle"
    BY <1>5 DEF TrimInv, TrimIsAlone
  <1>6. CASE TrimDetach(t)
    <2>1. /\ pc[t] = "trim_detach" /\ heads' = [heads EXCEPT ![cls[t]] = {}]
          /\ UNCHANGED <<slabs, live, local>>
      BY <1>6 DEF TrimDetach, transfer_mutex_detach, registryVars, cacheVars
    <2>2. pc[t] \in TrimPC /\ \A u \in Thread \ {t} : pc[u] = "idle" /\ pc'[u] = "idle"
      BY <1>5, <1>6, <1>t DEF TrimDetach, TrimPC
    <2>3. \A c \in Class : c <= cls[t] => heads'[c] = {}
      <3> TAKE c \in Class
      <3>1. c \in Int /\ cls[t] \in Int
        BY <1>t, ClassFacts
      <3>2. c < cls[t] => heads[c] = {}
        BY <2>1 DEF TrimInv, TrimHasLists
      <3>3. QED
        BY <1>t, <2>1, <3>1, <3>2
    <2>4. CASE cls[t] < LastClass /\ cls' = [cls EXCEPT ![t] = @ + 1] /\ UNCHANGED <<pc, scan>>
      <3>1. \A c \in Class : c < cls'[t] => c <= cls[t]
        BY <1>t, <2>4, ClassFacts
      <3>2. TrimHasLists'
        BY <2>1, <2>2, <2>3, <2>4, <3>1 DEF TrimHasLists
      <3>3. TrimKeptUsed'
        BY <2>1, <2>2, <2>4 DEF TrimKeptUsed
      <3>4. QED
        BY <1>4, <2>2, <3>2, <3>3
    <2>5. CASE /\ ~(cls[t] < LastClass) /\ pc' = [pc EXCEPT ![t] = "trim_scan"]
               /\ scan' = [scan EXCEPT ![t] = slabs] /\ UNCHANGED cls
      <3>1. \A c \in Class : c <= cls[t]
        BY <1>t, <2>5, ClassFacts
      <3>2. TrimHasLists'
        BY <2>2, <2>3, <3>1 DEF TrimHasLists
      <3>3. scan'[t] = slabs'
        BY <1>t, <2>1, <2>5
      <3>4. TrimKeptUsed'
        BY <2>2, <3>3 DEF TrimKeptUsed
      <3>5. QED
        BY <1>4, <2>2, <3>2, <3>4
    <2>6. QED
      BY <1>6, <1>t, <2>4, <2>5, ClassFacts DEF TrimDetach
  <1>7. ASSUME NEW s \in Slab, TrimKeep(t, s) \/ TrimUnmap(t, s) PROVE TrimInv'
    <2>1. /\ pc[t] = "trim_scan" /\ UNCHANGED <<pc, heads, live, local>>
          /\ s \in scan[t] /\ scan' = [scan EXCEPT ![t] = @ \ {s}]
      BY <1>7 DEF TrimKeep, TrimUnmap, cacheVars
    <2>2. pc[t] \in TrimPC /\ \A u \in Thread \ {t} : pc[u] = "idle" /\ pc'[u] = "idle"
      BY <1>5, <2>1 DEF TrimPC
    <2>3. TrimHasLists'
      BY <2>1, <2>2 DEF TrimInv, TrimHasLists
    <2>4. slabs' \ scan'[t] \subseteq (slabs \ scan[t]) \cup {s}
      BY <1>7, <1>t, <2>1 DEF TrimKeep, TrimUnmap, registryVars
    <2>5. s \in slabs' => \E b \in BlocksOf(s) : InUse(b)
      <3>1. CASE TrimUnmap(t, s)
        BY <3>1 DEF TrimUnmap
      <3>2. CASE TrimKeep(t, s)
        <4>1. ~WhollyFree(t, s) /\ UNCHANGED slabs
          BY <3>2 DEF TrimKeep, registryVars
        <4>2. QED
          BY <2>1, <4>1, NotFreeIsUsed
      <3>3. QED
        BY <1>7, <3>1, <3>2
    <2>6. ASSUME NEW r \in slabs' \ scan'[t] PROVE \E b \in BlocksOf(r) : InUse(b)'
      <3>1. \E b \in BlocksOf(r) : InUse(b)
        BY <2>1, <2>4, <2>5 DEF TrimInv, TrimKeptUsed
      <3>2. QED
        BY <2>1, <3>1 DEF InUse
    <2>7. TrimKeptUsed'
      BY <2>2, <2>6 DEF TrimKeptUsed
    <2>8. QED
      BY <1>4, <2>1, <2>2, <2>3, <2>7
  <1>8. CASE TrimScanned(t)
    <2>1. /\ pc[t] = "trim_scan" /\ pc' = [pc EXCEPT ![t] = "trim_publish"]
          /\ UNCHANGED <<slabs, scan, live, local>>
      BY <1>8 DEF TrimScanned, registryVars, cacheVars
    <2>2. pc[t] \in TrimPC /\ \A u \in Thread \ {t} : pc[u] = "idle" /\ pc'[u] = "idle"
      BY <1>5, <1>t, <2>1 DEF TrimPC
    <2>3. pc'[t] = "trim_publish"
      BY <1>t, <2>1
    <2>4. TrimHasLists'
      BY <2>2, <2>3 DEF TrimHasLists
    <2>5. TrimKeptUsed'
      BY <2>1, <2>2 DEF TrimInv, TrimKeptUsed, InUse
    <2>6. QED
      BY <1>4, <2>2, <2>4, <2>5
  <1>9. CASE TrimPublish(t)
    <2>1. /\ pc[t] = "trim_publish" /\ (pc' = pc \/ pc' = [pc EXCEPT ![t] = "idle"])
          /\ UNCHANGED <<slabs, scan, live, local>>
      BY <1>9 DEF TrimPublish, cacheVars
    <2>2. pc[t] \in TrimPC /\ \A u \in Thread \ {t} : pc[u] = "idle" /\ pc'[u] = "idle"
      BY <1>5, <1>t, <2>1 DEF TrimPC
    <2>3. pc'[t] \in {"trim_publish", "idle"}
      BY <1>t, <2>1
    <2>4. TrimHasLists'
      BY <2>2, <2>3 DEF TrimHasLists
    <2>5. TrimKeptUsed'
      BY <2>1, <2>2 DEF TrimInv, TrimKeptUsed, InUse
    <2>6. QED
      BY <1>4, <2>2, <2>4, <2>5
  <1>10. CASE \A u \in Thread : pc[u] \notin TrimPC
    BY <1>1, <1>2, <1>10, TrimBegins
  <1>11. ASSUME NEW u \in Thread, pc[u] \in TrimPC PROVE TrimInv'
    BY <1>3, <1>6, <1>7, <1>8, <1>9, <1>11, OthersPause
  <1>12. QED
    BY <1>10, <1>11

\* A trim that returns after every thread has flushed, and that munmap did not
\* fail, has left no slab mapped of which no block is live
\* (hplf_trim_quiescent).
THEOREM TrimReleasesAll == Spec => TrimReleasesFreeSlabs
  <1> DEFINE Undisturbed == QuiescentTrim /\ ~MayFail("unmap")
             Inductive == Inv /\ (Undisturbed => TrimInv)
             Released == \A t \in Thread :
                 /\ pc[t] = "trim_publish" /\ pc'[t] = "idle"
                 /\ QuiescentTrim /\ ~MayFail("unmap")
                 /\ \A u \in Thread, c \in Class : local[u][c] = {}
                 => \A s \in Slab :
                       slab_class'[s] # Unmapped => BlocksOf(s) \cap live # {}
  <1>1. Init => Inductive
    <2>1. Init => TrimInv
      BY DEF Init, TrimInv, TrimIsAlone, TrimHasLists, TrimKeptUsed, TrimPC
    <2>2. QED
      BY <2>1, InvInit
  <1>2. Inductive /\ [Next]_vars => Inductive'
    <2> SUFFICES ASSUME Inductive, [Next]_vars PROVE Inductive'
      OBVIOUS
    <2>1. Inv'
      BY InvStep
    <2>2. ASSUME Undisturbed, NEW t \in Thread, ThreadNext(t) PROVE TrimInv'
      BY <2>2, TrimStep
    <2>3. ASSUME Undisturbed, UNCHANGED vars PROVE TrimInv'
      BY <2>3 DEF vars, registryVars, cacheVars, frameVars, TrimInv, TrimIsAlone, TrimHasLists,
         TrimKeptUsed, InUse
    <2>4. QED
      BY <2>1, <2>2, <2>3 DEF Next, ThreadNext, MayFail
  <1>3. Inductive /\ [Next]_vars => [Released]_vars
    <2> SUFFICES ASSUME Inductive, Next, NEW t \in Thread,
                        pc[t] = "trim_publish", pc'[t] = "idle", Undisturbed,
                        \A u \in Thread, c \in Class : local[u][c] = {},
                        NEW s \in Slab, slab_class'[s] # Unmapped
                 PROVE  BlocksOf(s) \cap live # {}
      OBVIOUS
    <2>1. PICK u \in Thread : ThreadNext(u)
      BY DEF Next, ThreadNext
    <2>2. u = t /\ TrimPublish(t)
      <3>1. pc[t] \in TrimPC /\ pc'[t] # pc[t]
        BY DEF TrimPC
      <3>2. /\ u = t
            /\ \/ TrimDetach(t) \/ TrimScanned(t) \/ TrimPublish(t)
               \/ \E r \in Slab : TrimKeep(t, r) \/ TrimUnmap(t, r)
        BY <2>1, <3>1, OthersPause
      <3>3. QED
        BY <3>2 DEF TrimDetach, TrimScanned, TrimKeep, TrimUnmap
    <2>3. slab_class[s] # Unmapped
      BY <2>2 DEF TrimPublish
    <2>4. s \in slabs \ scan[t]
      BY <2>3 DEF Inv, ControlInv, RegistryInv
    <2>5. PICK b \in BlocksOf(s) : InUse(b)
      BY <2>4 DEF TrimInv, TrimKeptUsed
    <2>6. QED
      BY <2>5 DEF InUse
  <1>4. QED
    BY <1>1, <1>2, <1>3, PTL DEF Spec, TrimReleasesFreeSlabs
=============================================================================
