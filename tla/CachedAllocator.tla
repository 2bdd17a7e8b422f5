-------------------------- MODULE CachedAllocator --------------------------
(***************************************************************************)
(* The cached allocator (src/allocator.c built with                        *)
(* HPLF_VARIANT_CACHED_MUTEX, with thread_cache.c, thread_cache_lifecycle.c*)
(* and transfer_mutex.c): every thread keeps a private cache of free       *)
(* blocks per size class, the threads exchange free blocks through one     *)
(* shared transfer list per class, and slabs are mapped and entered in a   *)
(* registry under the registry mutex.                                      *)
(*                                                                         *)
(* A block is a slot of a slab.  A free list is the set of its blocks: the *)
(* order in which a list hands blocks out is left open, the separately     *)
(* stored counts of a cache are kept.  A step runs from one critical       *)
(* section to the next: code that touches only the thread's own cache and  *)
(* stack is merged with the critical section that follows or precedes it.  *)
(* The transfer mutex is held for a few assignments, so a publication or a *)
(* detachment is one step; the registry mutex is held across steps.        *)
(***************************************************************************)
EXTENDS ThreadCache

CONSTANTS
    Thread,
    Slab,           \* the mappings the system can provide
    Slot,           \* the slots of a slab
    None,
    Ops,            \* what the callers do: "malloc", "free", "realloc",
                    \*   "flush", "trim", "exit"
    OsFails,        \* what the system may refuse: "lock", "map", "unmap",
                    \*   "key", "descriptor", "register"
    QuiescentTrim   \* callers keep the precondition of hplf_trim_quiescent

Block == Slab \X Slot

SlabOf(b) == b[1]

BlocksOf(s) == {s} \X Slot

Unmapped == -1

ASSUME ThreadAssumption == None \notin Thread

ASSUME BlockAssumption ==
    /\ IsFiniteSet(Slab) /\ IsFiniteSet(Slot)
    /\ Slot # {}
    /\ None \notin Block

ASSUME QuiescentAssumption == QuiescentTrim \in BOOLEAN

VARIABLES
    slab_class,       \* the class a slab serves, or Unmapped
    slabs,            \* allocator_state.slabs, the registry
    registry_mutex,   \* its holder, or None
    heads,            \* the transfer list of each class
    local,            \* the lists of each thread's cache
    counts,           \* the counts of each thread's cache
    total_slot_bytes, \* the slot bytes of each thread's cache
    current_state,    \* the lifecycle state of each thread
    descriptor,       \* each thread's cache mapping: "none", "mapped", "leaked"
    key_value,        \* the threads that have a value for cache_key
    cache_key,        \* "unset", "created" or "failed"
    thread,           \* "running", "exiting" (in destructors) or "exited"
    pc,               \* where in a call the thread is
    cls,              \* class_index of the call, or of its loop
    available,        \* the lists on the thread's stack, by class
    old,              \* the block a realloc replaces, or None
    scan,             \* the slabs a trim has not looked at
    live              \* the blocks callers hold

registryVars  == <<slab_class, slabs, registry_mutex>>
cacheVars     == <<local, counts, total_slot_bytes>>
lifecycleVars == <<current_state, descriptor, key_value, cache_key, thread>>
frameVars     == <<cls, available, old, scan>>
vars == <<registryVars, heads, cacheVars, lifecycleVars, pc, frameVars, live>>

CallPC == {"detach", "lock", "recheck", "create", "refill", "free", "evict",
           "flush", "destroy", "release"}
TrimPC == {"trim_detach", "trim_scan", "trim_publish"}

EmptyLists == [c \in Class |-> {}]

TypeOK ==
    /\ slab_class \in [Slab -> Class \cup {Unmapped}]
    /\ slabs \subseteq Slab
    /\ registry_mutex \in Thread \cup {None}
    /\ heads \in [Class -> SUBSET Block]
    /\ local \in [Thread -> [Class -> SUBSET Block]]
    /\ counts \in [Thread -> [Class -> Nat]]
    /\ total_slot_bytes \in [Thread -> Nat]
    /\ current_state \in [Thread -> {"uninitialized", "active", "uncached"}]
    /\ descriptor \in [Thread -> {"none", "mapped", "leaked"}]
    /\ key_value \subseteq Thread
    /\ cache_key \in {"unset", "created", "failed"}
    /\ thread \in [Thread -> {"running", "exiting", "exited"}]
    /\ pc \in [Thread -> {"idle"} \cup CallPC \cup TrimPC]
    /\ cls \in [Thread -> Class]
    /\ available \in [Thread -> [Class -> SUBSET Block]]
    /\ old \in [Thread -> Block \cup {None}]
    /\ scan \in [Thread -> SUBSET Slab]
    /\ live \subseteq Block

Init ==
    /\ slab_class = [s \in Slab |-> Unmapped]
    /\ slabs = {}
    /\ registry_mutex = None
    /\ heads = EmptyLists
    /\ local = [t \in Thread |-> EmptyLists]
    /\ counts = [t \in Thread |-> [c \in Class |-> 0]]
    /\ total_slot_bytes = [t \in Thread |-> 0]
    /\ current_state = [t \in Thread |-> "uninitialized"]
    /\ descriptor = [t \in Thread |-> "none"]
    /\ key_value = {}
    /\ cache_key = "unset"
    /\ thread = [t \in Thread |-> "running"]
    /\ pc = [t \in Thread |-> "idle"]
    /\ cls = [t \in Thread |-> 0]
    /\ available = [t \in Thread |-> EmptyLists]
    /\ old = [t \in Thread |-> None]
    /\ scan = [t \in Thread |-> {}]
    /\ live = {}

-----------------------------------------------------------------------------
(***************************************************************************)
(* Lists.                                                                  *)
(***************************************************************************)

\* What hplf_transfer_list_take_prefix can move out of a list.
Prefixes(list, n) ==
    {p \in SUBSET list : Cardinality(p) = prefix_count(Cardinality(list), n)}

\* Mutant: the list replaces what was published before.
publish_overwrites(c, list) == heads' = [heads EXCEPT ![c] = list]

transfer_mutex_publish(c, list) ==
    heads' = [heads EXCEPT ![c] = @ \cup list]

\* Mutant: the head is read but not cleared.
detach_keeps_head(t, c) ==
    /\ available' = [available EXCEPT ![t][c] = heads[c]]
    /\ UNCHANGED heads

transfer_mutex_detach(t, c) ==
    /\ available' = [available EXCEPT ![t][c] = heads[c]]
    /\ heads' = [heads EXCEPT ![c] = {}]

thread_cache_take(t, c, b) ==
    /\ b \in local[t][c]
    /\ local' = [local EXCEPT ![t][c] = @ \ {b}]
    /\ counts' = [counts EXCEPT ![t][c] = size_sub(@, 1)]
    /\ total_slot_bytes' =
           [total_slot_bytes EXCEPT ![t] = size_sub(@, Capacity[c])]

thread_cache_store(t, c, b) ==
    /\ local' = [local EXCEPT ![t][c] = @ \cup {b}]
    /\ counts' = [counts EXCEPT ![t][c] = @ + 1]
    /\ total_slot_bytes' = [total_slot_bytes EXCEPT ![t] = @ + Capacity[c]]

\* Mutant: the total keeps counting blocks that left the cache.
extract_keeps_bytes(t, c, list) ==
    /\ local' = [local EXCEPT ![t][c] = @ \ list]
    /\ counts' = [counts EXCEPT ![t][c] = size_sub(@, Cardinality(list))]
    /\ UNCHANGED total_slot_bytes

thread_cache_extract_class(t, c, list) ==
    /\ local' = [local EXCEPT ![t][c] = @ \ list]
    /\ counts' = [counts EXCEPT ![t][c] = size_sub(@, Cardinality(list))]
    /\ total_slot_bytes' =
           [total_slot_bytes EXCEPT
               ![t] = size_sub(@, Cardinality(list) * Capacity[c])]

-----------------------------------------------------------------------------
(***************************************************************************)
(* The life of a thread's cache.                                           *)
(***************************************************************************)

MayFail(what) == what \in OsFails

\* munmap of a cache descriptor returns 0 or fails and leaks the mapping.
unmap_descriptor(t) ==
    \/ descriptor' = [descriptor EXCEPT ![t] = "none"]
    \/ MayFail("unmap") /\ descriptor' = [descriptor EXCEPT ![t] = "leaked"]

\* pthread_once runs create_cache_key for the first thread that gets here.
create_cache_key ==
    IF cache_key = "unset"
    THEN \/ cache_key' = "created"
         \/ MayFail("key") /\ cache_key' = "failed"
    ELSE UNCHANGED cache_key

\* Mutant: the descriptor is never registered for destruction.
never_registered(t) == UNCHANGED key_value

pthread_setspecific(t) == key_value' = key_value \cup {t}

\* The calling thread has a cache afterwards iff current_state' is "active".
hplf_cache_acquire(t) ==
    \/ /\ current_state[t] # "uninitialized"
       /\ UNCHANGED lifecycleVars
    \/ /\ current_state[t] = "uninitialized"
       /\ create_cache_key
       /\ \/ \* no key, or no memory for the descriptor
             /\ cache_key' = "failed" \/ MayFail("descriptor")
             /\ current_state' = [current_state EXCEPT ![t] = "uncached"]
             /\ UNCHANGED <<descriptor, key_value>>
          \/ \* pthread_setspecific fails: the descriptor is released again
             /\ cache_key' = "created" /\ MayFail("register")
             /\ current_state' = [current_state EXCEPT ![t] = "uncached"]
             /\ unmap_descriptor(t)
             /\ UNCHANGED key_value
          \/ /\ cache_key' = "created"
             /\ current_state' = [current_state EXCEPT ![t] = "active"]
             /\ descriptor' = [descriptor EXCEPT ![t] = "mapped"]
             /\ pthread_setspecific(t)
       /\ UNCHANGED thread

\* The thread can start a call: a caller that keeps the precondition of
\* hplf_trim_quiescent has stopped all other activity during a trim.
CanCall(t) ==
    /\ pc[t] = "idle" /\ thread[t] # "exited"
    /\ QuiescentTrim => \A u \in Thread : pc[u] \notin TrimPC

-----------------------------------------------------------------------------
(***************************************************************************)
(* hplf_malloc of a small size, which hplf_calloc and hplf_realloc call.   *)
(***************************************************************************)

\* A call that allocated goes on, in hplf_realloc, to free the old block.
AllocationReturns(t) ==
    pc' = [pc EXCEPT ![t] = IF old'[t] = None THEN "idle" ELSE "free"]

\* Mutant: a failed realloc frees the old block.
fails_and_frees(t) ==
    /\ pc' = [pc EXCEPT ![t] = "idle"]
    /\ live' = live \ {old[t]}
    /\ old' = [old EXCEPT ![t] = None]

\* It returns NULL; hplf_realloc then leaves the old block to its caller.
AllocationFails(t) ==
    /\ pc' = [pc EXCEPT ![t] = "idle"]
    /\ old' = [old EXCEPT ![t] = None]
    /\ UNCHANGED live

AllocateSmall(t, c) ==
    /\ hplf_cache_acquire(t)
    /\ cls' = [cls EXCEPT ![t] = c]
    /\ \/ /\ current_state'[t] = "active"
          /\ \E b \in local[t][c] :
                /\ thread_cache_take(t, c, b)
                /\ live' = live \cup {b}
          /\ AllocationReturns(t)
       \/ /\ current_state'[t] = "active" => local[t][c] = {}
          /\ pc' = [pc EXCEPT ![t] = "detach"]
          /\ UNCHANGED <<cacheVars, live>>
    /\ UNCHANGED <<registryVars, heads, available, scan>>

MallocCall(t, c) ==
    /\ "malloc" \in Ops /\ CanCall(t)
    /\ UNCHANGED old
    /\ AllocateSmall(t, c)

\* Nobody else may use a block while its holder is inside hplf_realloc.
InRealloc(b) == \E u \in Thread : old[u] = b

\* A request of the block's own class retains the block and changes nothing
\* here; any other class allocates first.
ReallocCall(t, b, c) ==
    /\ "realloc" \in Ops /\ CanCall(t)
    /\ b \in live /\ ~InRealloc(b)
    /\ slab_class[SlabOf(b)] # c
    /\ old' = [old EXCEPT ![t] = b]
    /\ AllocateSmall(t, c)

\* Mutant: an empty list is taken for a list with blocks.
detach_trusts_list(t) ==
    /\ pc[t] = "detach"
    /\ transfer_mutex_detach(t, cls[t])
    /\ pc' = [pc EXCEPT ![t] = "refill"]
    /\ UNCHANGED <<registryVars, cacheVars, lifecycleVars, cls, old, scan, live>>

Detach(t) ==
    /\ pc[t] = "detach"
    /\ transfer_mutex_detach(t, cls[t])
    /\ pc' = [pc EXCEPT ![t] = IF heads[cls[t]] = {} THEN "lock" ELSE "refill"]
    /\ UNCHANGED <<registryVars, cacheVars, lifecycleVars, cls, old, scan, live>>

Lock(t) ==
    /\ pc[t] = "lock" /\ registry_mutex = None
    /\ registry_mutex' = t
    /\ pc' = [pc EXCEPT ![t] = "recheck"]
    /\ UNCHANGED <<slab_class, slabs, heads, cacheVars, lifecycleVars,
                   frameVars, live>>

LockFails(t) ==
    /\ pc[t] = "lock" /\ MayFail("lock")
    /\ AllocationFails(t)
    /\ UNCHANGED <<registryVars, heads, cacheVars, lifecycleVars, cls,
                   available, scan>>

\* The second look at the transfer list, with the registry mutex held; it is
\* released at once when there is something to take.
Recheck(t) ==
    /\ pc[t] = "recheck"
    /\ transfer_mutex_detach(t, cls[t])
    /\ \/ /\ heads[cls[t]] = {}
          /\ pc' = [pc EXCEPT ![t] = "create"]
          /\ UNCHANGED registry_mutex
       \/ /\ heads[cls[t]] # {}
          /\ pc' = [pc EXCEPT ![t] = "refill"]
          /\ registry_mutex' = None
    /\ UNCHANGED <<slab_class, slabs, cacheVars, lifecycleVars, cls, old, scan,
                   live>>

CreateSlab(t, s) ==
    /\ pc[t] = "create"
    /\ slab_class[s] = Unmapped
    /\ slab_class' = [slab_class EXCEPT ![s] = cls[t]]
    /\ slabs' = slabs \cup {s}
    /\ available' = [available EXCEPT ![t][cls[t]] = BlocksOf(s)]
    /\ registry_mutex' = None
    /\ pc' = [pc EXCEPT ![t] = "refill"]
    /\ UNCHANGED <<heads, cacheVars, lifecycleVars, cls, old, scan, live>>

\* Mutant: the error path leaves the mutex locked.
create_fails_locked(t) ==
    /\ pc[t] = "create"
    /\ \A s \in Slab : slab_class[s] # Unmapped
    /\ AllocationFails(t)
    /\ UNCHANGED <<registryVars, heads, cacheVars, lifecycleVars, cls, available,
                   scan>>

\* The system refuses a mapping, or has none left.
CreateFails(t) ==
    /\ pc[t] = "create"
    /\ MayFail("map") \/ \A s \in Slab : slab_class[s] # Unmapped
    /\ AllocationFails(t)
    /\ registry_mutex' = None
    /\ UNCHANGED <<slab_class, slabs, heads, cacheVars, lifecycleVars, cls,
                   available, scan>>

\* hplf_thread_cache_refill with the accepted part of the list, then
\* hplf_thread_cache_take.
refill_and_take(t, c, accepted, b) ==
    /\ b \in local[t][c] \cup accepted
    /\ local' = [local EXCEPT ![t][c] = (@ \cup accepted) \ {b}]
    /\ counts' = [counts EXCEPT
                     ![t][c] = size_sub(@ + Cardinality(accepted), 1)]
    /\ total_slot_bytes' =
          [total_slot_bytes EXCEPT
              ![t] = size_sub(@ + Cardinality(accepted) * Capacity[c], Capacity[c])]

\* What the cache does not accept is published.
RefillCache(t) ==
    LET c == cls[t] IN
    /\ pc[t] = "refill" /\ current_state[t] = "active"
    /\ \E accepted \in Prefixes(available[t][c],
                                refill_limit(counts[t], total_slot_bytes[t], c)) :
       \E b \in Block :
          /\ refill_and_take(t, c, accepted, b)
          /\ transfer_mutex_publish(c, available[t][c] \ accepted)
          /\ live' = live \cup {b}
    /\ available' = [available EXCEPT ![t][c] = {}]
    /\ UNCHANGED <<registryVars, lifecycleVars, cls, old, scan>>
    /\ AllocationReturns(t)

\* No cache, or a cache that neither holds nor accepts a block: the first
\* block of the list is the result.  The list is never empty here
\* (RefillHasBlock), so the code's last resort of returning NULL has no action.
RefillDirect(t) ==
    LET c == cls[t] IN
    /\ pc[t] = "refill"
    /\ current_state[t] = "active" =>
          /\ local[t][c] = {}
          /\ refill_limit(counts[t], total_slot_bytes[t], c) = 0
    /\ \E b \in available[t][c] :
          /\ transfer_mutex_publish(c, available[t][c] \ {b})
          /\ live' = live \cup {b}
    /\ available' = [available EXCEPT ![t][c] = {}]
    /\ UNCHANGED <<registryVars, cacheVars, lifecycleVars, cls, old, scan>>
    /\ AllocationReturns(t)

-----------------------------------------------------------------------------
(***************************************************************************)
(* hplf_free of a small block.                                             *)
(***************************************************************************)

FreeBlock(t, b) ==
    LET c == slab_class[SlabOf(b)] IN
    /\ live' = live \ {b}
    /\ hplf_cache_acquire(t)
    /\ \/ /\ current_state'[t] # "active"
          /\ transfer_mutex_publish(c, {b})
          /\ pc' = [pc EXCEPT ![t] = "idle"]
          /\ UNCHANGED <<cacheVars, cls>>
       \/ /\ current_state'[t] = "active"
          /\ thread_cache_store(t, c, b)
          /\ pc' = [pc EXCEPT ![t] = "evict"]
          /\ cls' = [cls EXCEPT ![t] = c]
          /\ UNCHANGED heads
    /\ UNCHANGED <<registryVars, available, scan>>

FreeCall(t, b) ==
    /\ "free" \in Ops /\ CanCall(t)
    /\ b \in live /\ ~InRealloc(b)
    /\ FreeBlock(t, b)
    /\ UNCHANGED old

\* The end of hplf_realloc: the bytes are copied, the old block is freed.
FreeOld(t) ==
    /\ pc[t] = "free"
    /\ FreeBlock(t, old[t])
    /\ old' = [old EXCEPT ![t] = None]

\* hplf_thread_cache_extract_eviction finds blocks of class c to evict.
HasEviction(t, c) ==
    /\ must_evict(counts[t], total_slot_bytes[t], cls[t])
    /\ evicts_from(counts[t], cls[t], c)
    /\ local[t][c] # {}

Evict(t, c) ==
    /\ pc[t] = "evict" /\ HasEviction(t, c)
    /\ \E list \in Prefixes(local[t][c], eviction_count(counts[t], cls[t], c)) :
          /\ thread_cache_extract_class(t, c, list)
          /\ transfer_mutex_publish(c, list)
    /\ UNCHANGED <<registryVars, lifecycleVars, pc, frameVars, live>>

FreeReturns(t) ==
    /\ pc[t] = "evict" /\ \A c \in Class : ~HasEviction(t, c)
    /\ pc' = [pc EXCEPT ![t] = "idle"]
    /\ UNCHANGED <<registryVars, heads, cacheVars, lifecycleVars, frameVars, live>>

-----------------------------------------------------------------------------
(***************************************************************************)
(* Flush, and the end of a thread.                                         *)
(***************************************************************************)

\* hplf_thread_flush; without an active cache it does nothing.
FlushCall(t) ==
    /\ "flush" \in Ops /\ CanCall(t)
    /\ current_state[t] = "active"
    /\ pc' = [pc EXCEPT ![t] = "flush"]
    /\ cls' = [cls EXCEPT ![t] = 0]
    /\ UNCHANGED <<registryVars, heads, cacheVars, lifecycleVars, available, old,
                   scan, live>>

\* Mutant: the loops run one class too far.
last_class_past_end == ClassCount

LastClass == ClassCount - 1

\* One turn of the loop of flush_descriptor.
FlushClass(t) ==
    /\ pc[t] \in {"flush", "destroy"}
    /\ thread_cache_extract_class(t, cls[t], local[t][cls[t]])
    /\ transfer_mutex_publish(cls[t], local[t][cls[t]])
    /\ \/ /\ cls[t] < LastClass
          /\ cls' = [cls EXCEPT ![t] = @ + 1]
          /\ UNCHANGED pc
       \/ /\ cls[t] >= LastClass
          /\ pc' = [pc EXCEPT ![t] = IF @ = "flush" THEN "idle" ELSE "release"]
          /\ UNCHANGED cls
    /\ UNCHANGED <<registryVars, lifecycleVars, available, old, scan, live>>

\* The thread returns from its start routine; the destructors of its
\* thread-specific values run, those of the callers' keys too, and these may
\* still allocate and free.
ThreadExit(t) ==
    /\ "exit" \in Ops /\ CanCall(t)
    /\ thread[t] = "running"
    /\ thread' = [thread EXCEPT ![t] = "exiting"]
    /\ UNCHANGED <<registryVars, heads, cacheVars, current_state, descriptor,
                   key_value, cache_key, pc, frameVars, live>>

\* Mutant: the state is left for the end of the destructor to change.
stays_active(t) == UNCHANGED current_state

BecomesUncached(t) ==
    current_state' = [current_state EXCEPT ![t] = "uncached"]

\* The system clears the value and calls destroy_descriptor with it.
DestroyDescriptor(t) ==
    /\ CanCall(t) /\ thread[t] = "exiting" /\ t \in key_value
    /\ key_value' = key_value \ {t}
    /\ BecomesUncached(t)
    /\ pc' = [pc EXCEPT ![t] = "destroy"]
    /\ cls' = [cls EXCEPT ![t] = 0]
    /\ UNCHANGED <<registryVars, heads, cacheVars, descriptor, cache_key, thread,
                   available, old, scan, live>>

\* The end of release_descriptor: what is still in the cache is out of reach.
ReleaseDescriptor(t) ==
    /\ pc[t] = "release"
    /\ unmap_descriptor(t)
    /\ local' = [local EXCEPT ![t] = EmptyLists]
    /\ counts' = [counts EXCEPT ![t] = [c \in Class |-> 0]]
    /\ total_slot_bytes' = [total_slot_bytes EXCEPT ![t] = 0]
    /\ pc' = [pc EXCEPT ![t] = "idle"]
    /\ UNCHANGED <<registryVars, heads, current_state, key_value, cache_key,
                   thread, frameVars, live>>

\* The system ends the thread once no thread-specific value is left.
ThreadGone(t) ==
    /\ pc[t] = "idle" /\ thread[t] = "exiting" /\ t \notin key_value
    /\ thread' = [thread EXCEPT ![t] = "exited"]
    /\ UNCHANGED <<registryVars, heads, cacheVars, current_state, descriptor,
                   key_value, cache_key, pc, frameVars, live>>

\* A new thread, with fresh thread-local variables.
ThreadStart(t) ==
    /\ thread[t] = "exited"
    /\ thread' = [thread EXCEPT ![t] = "running"]
    /\ current_state' = [current_state EXCEPT ![t] = "uninitialized"]
    /\ descriptor' = [descriptor EXCEPT ![t] = "none"]
    /\ UNCHANGED <<registryVars, heads, cacheVars, key_value, cache_key, pc,
                   frameVars, live>>

-----------------------------------------------------------------------------
(***************************************************************************)
(* hplf_trim_quiescent.                                                    *)
(***************************************************************************)

\* It returns 0 at once when the lock fails, which changes nothing.
TrimCall(t) ==
    /\ "trim" \in Ops /\ CanCall(t)
    /\ QuiescentTrim => \A u \in Thread : pc[u] = "idle"
    /\ registry_mutex = None
    /\ registry_mutex' = t
    /\ pc' = [pc EXCEPT ![t] = "trim_detach"]
    /\ cls' = [cls EXCEPT ![t] = 0]
    /\ UNCHANGED <<slab_class, slabs, heads, cacheVars, lifecycleVars, available,
                   old, scan, live>>

TrimDetach(t) ==
    /\ pc[t] = "trim_detach"
    /\ transfer_mutex_detach(t, cls[t])
    /\ \/ /\ cls[t] < LastClass
          /\ cls' = [cls EXCEPT ![t] = @ + 1]
          /\ UNCHANGED <<pc, scan>>
       \/ /\ cls[t] >= LastClass
          /\ pc' = [pc EXCEPT ![t] = "trim_scan"]
          /\ scan' = [scan EXCEPT ![t] = slabs]
          /\ UNCHANGED cls
    /\ UNCHANGED <<registryVars, cacheVars, lifecycleVars, old, live>>

\* Mutant: a slab with any free block counts as free.
some_block_free(t, s) ==
    BlocksOf(s) \cap available[t][slab_class[s]] # {}

\* Mutant: a slab is never found to be free when another slab shares its list.
list_holds_only(t, s) == available[t][slab_class[s]] = BlocksOf(s)

\* hplf_slab_free_count(slab, free_lists) == slab->slot_count
WhollyFree(t, s) ==
    Cardinality(BlocksOf(s) \cap available[t][slab_class[s]])
        = Cardinality(BlocksOf(s))

\* The slab is in use, or its unmapping fails and both structures are restored.
TrimKeep(t, s) ==
    /\ pc[t] = "trim_scan" /\ s \in scan[t]
    /\ WhollyFree(t, s) => MayFail("unmap")
    /\ scan' = [scan EXCEPT ![t] = @ \ {s}]
    /\ UNCHANGED <<registryVars, heads, cacheVars, lifecycleVars, pc, cls,
                   available, old, live>>

TrimUnmap(t, s) ==
    /\ pc[t] = "trim_scan" /\ s \in scan[t]
    /\ WhollyFree(t, s)
    /\ available' = [available EXCEPT ![t][slab_class[s]] = @ \ BlocksOf(s)]
    /\ slabs' = slabs \ {s}
    /\ slab_class' = [slab_class EXCEPT ![s] = Unmapped]
    /\ scan' = [scan EXCEPT ![t] = @ \ {s}]
    /\ UNCHANGED <<registry_mutex, heads, cacheVars, lifecycleVars, pc, cls, old,
                   live>>

TrimScanned(t) ==
    /\ pc[t] = "trim_scan" /\ scan[t] = {}
    /\ pc' = [pc EXCEPT ![t] = "trim_publish"]
    /\ cls' = [cls EXCEPT ![t] = 0]
    /\ UNCHANGED <<registryVars, heads, cacheVars, lifecycleVars, available, old,
                   scan, live>>

TrimPublish(t) ==
    /\ pc[t] = "trim_publish"
    /\ transfer_mutex_publish(cls[t], available[t][cls[t]])
    /\ available' = [available EXCEPT ![t][cls[t]] = {}]
    /\ \/ /\ cls[t] < LastClass
          /\ cls' = [cls EXCEPT ![t] = @ + 1]
          /\ UNCHANGED <<pc, registry_mutex>>
       \/ /\ cls[t] >= LastClass
          /\ pc' = [pc EXCEPT ![t] = "idle"]
          /\ registry_mutex' = None
          /\ UNCHANGED cls
    /\ UNCHANGED <<slab_class, slabs, cacheVars, lifecycleVars, old, scan, live>>

-----------------------------------------------------------------------------

\* What a thread inside a call does without its caller.
Step(t) ==
    \/ Detach(t) \/ LockFails(t) \/ Recheck(t)
    \/ (\E s \in Slab : CreateSlab(t, s)) \/ CreateFails(t)
    \/ RefillCache(t) \/ RefillDirect(t)
    \/ FreeOld(t) \/ (\E c \in Class : Evict(t, c)) \/ FreeReturns(t)
    \/ FlushClass(t) \/ ReleaseDescriptor(t)
    \/ TrimDetach(t) \/ (\E s \in Slab : TrimKeep(t, s) \/ TrimUnmap(t, s))
    \/ TrimScanned(t) \/ TrimPublish(t)

Call(t) ==
    \/ \E c \in Class : MallocCall(t, c)
    \/ \E b \in Block : FreeCall(t, b) \/ \E c \in Class : ReallocCall(t, b, c)
    \/ FlushCall(t) \/ TrimCall(t)

Lifetime(t) ==
    ThreadExit(t) \/ DestroyDescriptor(t) \/ ThreadGone(t) \/ ThreadStart(t)

Next == \E t \in Thread : Step(t) \/ Lock(t) \/ Call(t) \/ Lifetime(t)

Spec == Init /\ [][Next]_vars

\* Threads keep running; a thread that waits for the registry mutex is not
\* passed over forever; the system runs the destructor of every value an
\* exiting thread has left.
Fairness ==
    \A t \in Thread :
        WF_vars(Step(t)) /\ SF_vars(Lock(t)) /\ SF_vars(DestroyDescriptor(t))

FairSpec == Spec /\ Fairness

-----------------------------------------------------------------------------
(***************************************************************************)
(* Safety.                                                                 *)
(***************************************************************************)

\* The blocks that thread t keeps to itself, in its cache or on its stack.
Private(t, c) == local[t][c] \cup available[t][c]

\* No block has two owners: what a caller holds is on no free list, and no
\* block is on two lists, whatever publications, detachments, refills, flushes,
\* destructors and trims of several threads overlap.
OneOwner ==
    \A c \in Class :
        /\ live \cap heads[c] = {}
        /\ \A t \in Thread :
              /\ Private(t, c) \cap live = {}
              /\ Private(t, c) \cap heads[c] = {}
              /\ local[t][c] \cap available[t][c] = {}
              /\ \A u \in Thread \ {t} : Private(t, c) \cap Private(u, c) = {}

\* No block is lost: every block of a mapped slab is held by a caller or is on
\* a list from which some thread will hand it out again, also after failures,
\* thread exits and restored trims.
NoBlockLost ==
    \A b \in Block :
        slab_class[SlabOf(b)] # Unmapped =>
            \/ b \in live
            \/ \E c \in Class :
                  b \in heads[c] \/ \E t \in Thread : b \in Private(t, c)

\* A list holds only blocks of its own class, and no list and no caller holds
\* a block of a slab that was returned to the system.
ClassSegregated ==
    /\ \A c \in Class :
          /\ \A b \in heads[c] : slab_class[SlabOf(b)] = c
          /\ \A t \in Thread : \A b \in Private(t, c) : slab_class[SlabOf(b)] = c
    /\ \A b \in live : slab_class[SlabOf(b)] # Unmapped

\* The slot bytes of the blocks in the cache of t.
CachedBytes(t) ==
    Total([n \in 1..ClassCount |-> Cardinality(local[t][n - 1]) * Capacity[n - 1]], ClassCount)

\* The counters a cache decides by agree with its lists
\* (hplf_thread_cache_snapshot).
CacheAccounting ==
    \A t \in Thread :
        /\ \A c \in Class : counts[t][c] = Cardinality(local[t][c])
        /\ total_slot_bytes[t] = CachedBytes(t)

\* Between calls, and whenever a refill subtracts from its limits, a cache is
\* within both limits: the size_t subtractions of a refill never wrap.
CacheWithinLimits ==
    \A t \in Thread : pc[t] # "evict" =>
        /\ \A c \in Class : counts[t][c] <= CLASS_BLOCK_LIMIT
        /\ total_slot_bytes[t] <= TOTAL_BYTES_LIMIT

\* A thread uses a cache only while its descriptor is mapped and registered
\* for destruction, and a thread that has ended leaves behind no cached block,
\* no descriptor and no mutex, even if a late destructor of its caller
\* allocated or freed.
CacheLifecycle ==
    \A t \in Thread :
        /\ current_state[t] = "active" =>
              descriptor[t] = "mapped" /\ t \in key_value /\ thread[t] # "exited"
        /\ thread[t] = "exited" =>
              /\ descriptor[t] # "mapped"
              /\ registry_mutex # t
              /\ \A c \in Class : Private(t, c) = {}

\* A refill always has a block to return: the branch of hplf_allocate_small
\* marked "Defensive only" is never needed.
RefillHasBlock ==
    \A t \in Thread : pc[t] = "refill" => available[t][cls[t]] # {}

\* The block that a realloc replaces stays with its caller until the call
\* holds a replacement; a call that fails leaves it live.
ReallocAllocatesFirst ==
    [][\A t \in Thread :
          old[t] # None /\ pc[t] # "free" => old[t] \in live']_vars

\* When a trim returns, every thread was flushed and every call of munmap
\* succeeded, each slab that is still mapped holds a live block.
TrimReleasesFreeSlabs ==
    [][\A t \in Thread :
          /\ pc[t] = "trim_publish" /\ pc'[t] = "idle"
          /\ QuiescentTrim /\ ~MayFail("unmap")
          /\ \A u \in Thread, c \in Class : local[u][c] = {}
          => \A s \in Slab :
                slab_class'[s] # Unmapped => BlocksOf(s) \cap live # {}]_vars

Ownership == INSTANCE BlockOwnership

\* The allocator keeps the promise of BlockOwnership.
ImplementsOwnership == Ownership!Spec

\* Blocks of the list that t has detached or created and is about to publish.
Surplus(t) ==
    LET c == cls[t]
        wanted == IF current_state[t] = "active"
                  THEN refill_limit(counts[t], total_slot_bytes[t], c) ELSE 0
    IN  IF pc[t] = "refill"
        THEN Cardinality(available[t][c]) - wanted - (IF wanted = 0 THEN 1 ELSE 0)
        ELSE 0

\* "Serialize the empty recheck with slab creation to avoid excess maps":
\* no slab is mapped for a class of which another thread is about to publish
\* blocks.
NoExcessMap ==
    [][\A t, u \in Thread, s \in Slab :
          CreateSlab(t, s) /\ u # t /\ cls[u] = cls[t] => Surplus(u) <= 0]_vars

-----------------------------------------------------------------------------
(***************************************************************************)
(* Liveness, under FairSpec.                                               *)
(***************************************************************************)

\* Every call returns: the eviction loop ends, the registry mutex is always
\* released again, no thread is stuck between two lists.
CallsReturn == \A t \in Thread : pc[t] # "idle" ~> pc[t] = "idle"

\* What an exiting thread has cached is published, and its descriptor is
\* unregistered.
ExitPublishesCache ==
    \A t \in Thread :
        thread[t] = "exiting" ~>
            t \notin key_value /\ \A c \in Class : local[t][c] = {}
=============================================================================
