# TLA+ models of hplf-malloc

hplf-malloc is a thread-caching memory allocator in C. This directory holds TLA+
models of the allocator, of its worker pool example and of the coordination in its
benchmark, TLC configurations that check them on small instances, and TLAPS proofs of
the main results for every value of the constants.

## The system

| Part | Source | State | Operations |
|---|---|---|---|
| Public API, cached build | `src/allocator.c` (`HPLF_VARIANT_CACHED_MUTEX`) | registry of slabs, registry mutex | `hplf_malloc`, `hplf_free`, `hplf_calloc`, `hplf_realloc`, `hplf_thread_flush`, `hplf_trim_quiescent` |
| Public API, locked build | `src/allocator.c` | the same, and one free list per class | the same, every one under the mutex |
| Thread cache | `src/thread_cache.c` | per class a list and a count, one total of slot bytes | take, store, refill, extract, restore, evict |
| Cache lifecycle | `src/thread_cache_lifecycle.c` | `pthread_once` key; per thread a state and a mapped descriptor | acquire, flush, destructor |
| Mutex transfer list | `src/transfer_mutex.c` | one mutex, a head per class | publish, detach |
| Atomic transfer list | `src/transfer_atomic.c` | an atomic head per class | publish, detach (lock-free) |
| List descriptors | `src/transfer_list.h` | first, last, count | clear, from_chain, take_prefix |
| Slabs, size classes, checked arithmetic | `src/slab.[ch]`, `src/size_class.c`, `src/checked_math.h`, `src/block.h` | layout of a mapping | create, layout, class search |
| System memory | `src/os_memory.c` | page size, counters | map, unmap |
| Worker pool example | `examples/worker_pool.c` | bounded queue with two condition variables, results per worker | push, pop, close, release; create, produce, join, trim |
| Benchmark harness | `benchmarks/workloads.c` | phase and counters, ring barrier and mailboxes, queue | phases of main and workers |

How they interact. An allocation asks the lifecycle for the thread's cache, which
is created on first use, and takes a block from it. On a miss it detaches the whole
transfer list of the class; if that is empty it locks the registry, looks again, maps
a slab if need be and unlocks. The cache accepts a part of the list, one block is
returned and the rest is published. A free stores into the cache and publishes
what exceeds the limits. A thread that exits runs the destructor of the cache key,
which publishes everything and unmaps the descriptor; from then on the thread,
whose other destructors may still allocate and free, goes through the transfer lists.
A trim takes all transfer lists, unmaps every slab whose blocks it has all got, and
publishes the rest.

What is hard to test: interleavings of detach and publish; failure of any one of six
system calls at any point; destructors in any order; limits reached by class and by
bytes at once; ABA and memory order in the lock-free list; arithmetic at `SIZE_MAX`;
contents through chains of reallocs; lost wakeups and failures in the middle of a phase
in the two programs that use the allocator. `PROJECT.json` lists these
hazards with their lines and the properties that cover them.

What makes each part correct:

- allocator: a block has one owner, is never lost, never belongs to an unmapped slab;
  calls return; a failed realloc keeps the old block;
- cache: counters agree with the lists; limits hold between calls; no subtraction wraps;
- lifecycle: a cache is used only while mapped and registered; exit publishes it;
- trim: with its precondition, all free slabs go back to the system;
- transfer lists: publish and detach are atomic exchanges of whole batches, without
  data races; the atomic one is lock-free;
- sizes and layouts: exact or refused, never wrapped; slots and payloads lie apart, aligned
  and within the mapping;
- API on bytes: callers' bytes survive, calloc clears, errno and the result of a trim are
  what the header promises, nothing leaks when a call fails;
- worker pool: each job is freed once, the queue is FIFO, the trim's precondition holds,
  the reported status is true, the pool ends;
- benchmark: phases do not mix, handed-over blocks are live, slots and live blocks agree, a run
  ends also after a failure.

## Modules

`BlockOwnership` is the abstract promise to callers: the set of live blocks and the
class of each mapped slab, with allocate, release, map and unmap.

`Sums` has the loops that add up counters: the results of the pool's workers and the bytes
of a cache.

`ThreadCache` has the decisions of `thread_cache.c` (how much a refill accepts, what an
eviction takes) as operators on counts and bytes. `size_t` subtraction wraps at
`SIZE_MAX + 1`.

`CachedAllocator` extends `ThreadCache` and models the cached build. The correspondence:

| Variable | Code |
|---|---|
| `slab_class`, `slabs`, `registry_mutex` | the mappings, `allocator_state.slabs`, `allocator_state.registry_mutex` |
| `heads` | `transfers.heads` |
| `local`, `counts`, `total_slot_bytes` | `struct hplf_thread_cache` of each thread |
| `current_state`, `descriptor`, `key_value`, `cache_key` | thread-local state, descriptor mapping, thread-specific value, `pthread_once` key |
| `thread` | the thread's own life, destructor phase included |
| `pc`, `cls`, `available`, `old`, `scan` | the frame of the call: position, class, lists on the stack, realloc's old block, rest of a trim's scan |
| `live` | the blocks callers hold |

| Action | Code |
|---|---|
| `MallocCall`, `ReallocCall` | call up to the first shared access; a cache hit returns at once |
| `Detach`, `Lock`, `LockFails`, `Recheck`, `CreateSlab`, `CreateFails` | the miss path of `hplf_allocate_small` |
| `RefillCache`, `RefillDirect` | refill, take, publication of the rest |
| `FreeCall`, `FreeOld`, `Evict`, `FreeReturns` | `hplf_free`, also as the end of `hplf_realloc`; one step per turn of the eviction loop |
| `FlushCall`, `FlushClass` | `hplf_thread_flush`; one step per class |
| `ThreadExit`, `DestroyDescriptor`, `ReleaseDescriptor`, `ThreadGone`, `ThreadStart` | end and restart of a thread |
| `TrimCall`, `TrimDetach`, `TrimKeep`, `TrimUnmap`, `TrimScanned`, `TrimPublish` | `hplf_trim_quiescent`, one step per class and per slab |

A free list is the set of its blocks. Which block a list hands out is then left open,
which allows more behaviours than the code's LIFO order. `hplf_calloc` is
`hplf_malloc` followed by writes to the caller's own block. A realloc within the class
changes nothing here. Each critical section of the transfer mutex is one step, whose
lock succeeds (see "Not modelled"); the registry mutex is a variable because it is held across steps. `hplf_trim_quiescent`
demands that all other activity has stopped; with `QuiescentTrim = FALSE` the model does
not grant this, so the safety results do not depend on it.

`LockedAllocator` models the baseline build, in which the same public functions work on
one free list per class under the registry mutex. It shares nothing with
`CachedAllocator` but the promise, `BlockOwnership`. Its extra variable `dropped` holds
the blocks that two error paths of the code put out of reach: `hplf_free` when the lock
fails (`src/allocator.c:272`), and `hplf_malloc` when the unlock reports an error after
the block was taken (line 166). An unlock that reports an error is taken to have released
the mutex.

`FreeChain` has chains of blocks in linked memory and the list descriptors of
`transfer_list.h`. `TransferExchange` is the abstract promise of a transfer list: a
sequence of shared blocks and the sets of private ones. `TransferAtomic` models
`transfer_atomic.c` access by access. The relaxed load may yield any address, the weak
exchange may fail for no reason. Data races: for each block `ordered_before` is the set
of threads that happen after every access to its link so far, and `released` tells whether
a thread that acquires the head would. All writes of the head are
read-modify-writes, so a release sequence is never broken. The failing exchange
observes the current head.

`SizeMath` has `checked_math.h`, `size_class.c` and the layouts of `slab.h` and `block.h`
as operators at any word size. A function that returns false yields `Invalid`; results wrap
as `size_t` does. `x & ~mask` for a power of two is subtraction of the remainder. It also
states, in unbounded arithmetic, what each result has to be. `SizeCalls` is one call of one
of these functions with any arguments and an output object, which is written on
success only.

`BlockAPI` extends `SizeMath` with the public functions on an address space of bytes.
`heap` is one record: `mem` (mapped bytes: zero, metadata or what a caller wrote),
`prefix` (the fields of `struct hplf_block`), `slabs`, `free_lists`, `errno`, and `lost`,
the blocks that a failed lock, unlock or munmap puts out of reach. A function of the code maps a
heap to the set of its outcomes, one for each answer of the system; the mapping goes to any
free pages. `live` is what each caller knows of its payload. Calls are sequential, in the
build without caches: the interleavings are those of the other modules, and what is new
here (bytes, large blocks, errno) is private to a call. A null pointer is accepted by
`free` and `realloc` as in the code.

`JobQueue` is the abstract promise of a bounded FIFO queue. `WorkerPool` models
`examples/worker_pool.c`:

| Variable | Code |
|---|---|
| `slots`, `head`, `count`, `closed` | `struct job_queue` |
| `pc`, `job` | where a thread is, asleep in `pthread_cond_wait` included, and the job it has |
| `seen`, `consumed`, `duplicate_jobs`, `queue_error` | `seen[]` and `struct worker_result` |
| `workers_started`, `jobs_produced`, `joined`, `all_joined`, `status` | locals of `main` |
| `storage`, `failed` | the allocator's view of each job; which calls have failed (history) |

A critical section of the queue mutex is one step (`Pop`, `PopWaits`, `PopDrained`, `Push`,
`PushWaits`, `PushRejected`, `WorkerCloses`, `MainCloses`). `Consume` marks the job, counts it
and frees it. `AllJoined` is the evaluation of the results with `queue_release_remaining`.
Payload bytes and checksums are left out; a job is its id. An unlock that reports an error
has released the mutex.

`BenchPhases` models `benchmarks/workloads.c`: `run_worker` (`ReportReady` to `Flush`), the
ring (`RingSend`, `RingRead`, `RingDecide`, `RingNext`, each up to its barrier), the handoff
queue (`ProduceItem` to `ConsumeItem`), the workloads in which workers keep to themselves
(`run_general_phase`) and `benchmark_run` (`CreateWorker` to `FlushAndTrim`). `stage` tells the warmup from the
measurement, `expired` whether the deadline has passed. A block is named by the worker that
allocated it and `storage` counts the live ones. `slots` counts the slots of a worker that have
a pointer, `held` of which a mixed workload fills beforehand. `execute_entry` is an entry of the
trace that succeeds and `EntryFails` one that does not, each in what it does to slots and live
blocks; which entry comes next is left open. `mixed` stands for the random workload too (mixed
without held slots) and `fixed` for large. The `"check"` fault is a payload that is not what was
written, `"join"` a `pthread_join` that returns at once with an error. Mailboxes keep their old pointers, as in
the code. The condition variable `phase_changed` is broadcast after every change, so a wait
for it is a guard; sleepers on the queue are explicit.

The proofs are in modules of their own, one per component: `CachedAllocatorProofs`,
`LockedAllocatorProofs`, `TransferAtomicProofs`, `SizeMathProofs`, `BlockAPIProofs`,
`WorkerPoolProofs` and `BenchPhasesProofs`. `DataInduction` holds the lemmas that several of
them share. `BlockAPIProofs` extends `SizeMathProofs` for its lemmas on layouts; the variables of
`SizeCalls` that come with it play no part there.

## Runs

| Run | Instance | Shows |
|---|---|---|
| `cached_concurrent` | 2 threads, 2 classes, 2 slabs of 2 slots, all operations, all failures that the code handles | ownership, no loss, lifecycle, realloc, refinement of `BlockOwnership` |
| `cached_limits` | 2 threads, capacities 1 and 2, class limit 2, byte limit 3, 2 slabs of 3 slots; trims keep their precondition, munmap succeeds | exact counters, limits between calls, a refill always has a block, a trim is complete |
| `cached_liveness` | 2 threads, 2 classes, 1 slab, with fairness | calls return, exits publish |
| `cached_excess_map` | 2 threads, 1 class, only malloc | violated: see below |
| `locked_failures` | 2 threads, 2 classes, 3 slabs of 2 slots, all failures | every block in one place or dropped by a lock error; refinement of `BlockOwnership` |
| `transfer_atomic` | 2 threads, 3 blocks, with fairness | no data race, exact descriptors, refinement of `TransferExchange`, lock freedom |
| `size_calls` | every pair of arguments of a 5-bit `size_t`, 3 classes | exact arithmetic and rounding, tight classes, layouts that fit |
| `block_contents` | 24 bytes of memory in pages of 4, capacities 2 and 4, large blocks of 3 pages, products that overflow, all failures | blocks apart, heap accounted, contents kept, errno, bytes released by a trim |
| `block_calloc_errno` | the same memory, locks fail | violated: see below |
| `pool_failures` | 2 workers, 4 jobs, ring of 2 slots, all failures, with fairness | jobs in one place, quiescent trim, true report, refinement of `JobQueue`, termination |
| `bench_phases` | 3 workers, 8 slots each and in the queue, all five workloads, all failures, with fairness | handed-over blocks live, slots and live blocks agree, quiescent trim, phases apart, the benchmark ends |
| `bench_ring_hang` | 2 workers in the ring, allocations fail, with fairness | violated: see below |

Why the bounds are enough. Two threads of two roles give every pair of overlapping
calls; each thread's other calls are sequential. Two classes
share the byte limit of a cache, with slots of different sizes, and let a block end up on the
list of the wrong class, which is what `ClassSegregated` looks for. (They are not there for an
eviction from another class than the current one, `src/thread_cache.c:128-136`: the
bytes were within the limit before the free stored its block, so emptying the current class
is always enough and that branch is not reached.) Two slots let a slab be partly
free, three exceed what a refill accepts. The limits are small enough that a single
free exceeds either or both. In the transfer list three blocks let a head be detached,
rebuilt and published again while another thread still holds its address, and a batch of two
be published on top of a third. A detacher that depends on the releases of two other threads
takes a third thread, for which `LinksNeverRace` is proved. Five bits
are enough for every relation between an argument, a page, an alignment and `SIZE_MAX`. 24 bytes
hold two slabs, so that a trim can unmap one and fail on the other, or a slab and a large
block, so that a realloc moves both ways. In the pool two workers can both be asleep, which
tells a signal from a broadcast, and four jobs go twice around the ring. In the benchmark
three workers make a producer and two consumers, who can both be asleep; eight slots, two of
them held, let a preparation stop halfway and a burst fill some of its slots. Two producers
asleep at once take a fourth worker, which only the proofs have. For everything but the
liveness properties the proofs remove the bounds.

`cached_excess_map` is expected to fail. The comment at `src/allocator.c:76` says
"Serialize the empty recheck with slab creation to avoid excess maps", but the mutex is
released at line 98, before the surplus of the new slab is published at line 129. A
second thread that missed the list then maps a second slab while blocks of its class are
about to be published. No block is harmed; memory use is higher than intended.

`bench_ring_hang` is expected to fail too. The comment at `benchmarks/workloads.c:749-751`
describes three barriers that every worker passes in each round, the third of which
"publishes the stop choice", and line 1147 reports a failed worker. But `run_worker`
skips the phase altogether when `failed` is set already (lines 899 and 916). If the
allocation of one worker fails before another one has entered the phase, the first waits at
its barrier forever, and so does main. `BenchmarkEnds` in `bench_phases` excepts every
failure in the ring; it shows that the other workloads end after any failure, and that the ring
ends without one.

`block_calloc_errno` is expected to fail. `include/hplf/allocator.h:26` says of calloc that
"other failures set errno to ENOMEM", but a calloc of a size class whose registry mutex cannot be
locked or unlocked leaves the error of the mutex (`src/allocator.c:137` and `:168`).
`ErrnoContract` says what the code does instead: a free never changes errno, a request
without a class, whose product overflows for instance, leaves ENOMEM, one of a class leaves
ENOMEM only if the list of the class was empty, and an error of the mutex only where a mutex
is taken and may fail.

Two more observations without an expected violation. In the benchmark, if the contents of a
resized block are wrong, `execute_entry` frees the replacement (`benchmarks/workloads.c:451`) but
the slot keeps the pointer from before the resize, and `cleanup_slots` frees that too (line
473), although `include/hplf/allocator.h:20` asks that a block "must be freed exactly once".
The model has this double free: `SlotsAccounted` states how far it goes, at most one block of
the worker whose check failed, in the mixed and random workloads only. It also states the leak
of a pair whose payload is wrong (line 402), and that no other failure costs or doubles a
block. Hence `NoUseAfterFree` claims single frees of blocks that are handed over, in the ring
and the handoff, and not of those in slots. Both paths need an allocator that does not
keep contents, which is what the benchmark looks for; `ContentsKept` says that this one does.

And a `queue_close` of the worker pool whose lock fails
(`examples/worker_pool.c:207`) leaves sleeping workers asleep while main joins them, which is
why `PoolTerminates` excepts failed locks and wakeups and `pool_failures` does not look for
deadlocks.

Fairness. `CachedAllocator!Fairness`: a thread inside a call keeps running (weak); a
thread that waits for the registry mutex is not passed over forever (strong, what a
pthread mutex gives on a fair scheduler); an exiting thread's destructor is eventually
run (strong, POSIX destructor rounds). Calls themselves are not fair: nobody has to
call. A trim waits for the registry mutex before its first step, so its wait is not
covered by `CallsReturn`. `TransferAtomic!Fairness`: threads inside an operation keep
running, and weak exchanges that could succeed do not all fail for no reason forever; no
single thread is promised success. `WorkerPool!Fairness` and `BenchPhases!FairSpec`: every
thread that can take a step keeps running (weak; a sleeper can take none until it is
signalled), and the deadline of a benchmark phase passes. A spurious wakeup may happen and
is never counted on.

## Proofs

`CachedAllocatorProofs` proves for any sets of threads, slabs and slots (slabs and slots
finite), any number of classes, any limits, any choice of operations and failures:

- `TypeCorrect`, `BlocksHaveOneOwner`, `BlocksAreNotLost`, `ListsAreSegregated`,
  `RefillNeverEmpty`, `CachesAreReclaimed`: the invariants of the same runs;
- `Refinement`: `CachedAllocator` implements `BlockOwnership`;
- `ReallocKeepsOldBlock`: the action property `ReallocAllocatesFirst`;
- `CountersAgree`, `CachesStayWithinLimits`: exact counters, and limits that hold outside of
  the eviction loop;
- `TrimReleasesAll`: the action property `TrimReleasesFreeSlabs`.

`LockedAllocatorProofs` proves `Refinement` and `EveryBlockAccounted` for the baseline
build in the same generality; its invariant needs the mutex, realloc and registry parts
only.

The assumptions are the named ones of the modules: at least one class with positive
capacities and limits, a `None` that is no thread and no block, at least one slot.

`SizeMathProofs` proves `ArithmeticIsExact`, `RoundingIsExact`, `ClassesAreTight` and
`LayoutsAlwaysFit`, the four properties of `size_calls`, for every `SIZE_MAX`, page size,
alignment and ascending table of capacities, from `SizeAssumption` (sizes fit in
`size_t`), `WordAssumption` (a power of two divides `SIZE_MAX + 1`, without which aligning
near `SIZE_MAX` could refuse a multiple that exists) and `ClassAssumption` (the table
ascends to `HPLF_MAX_SMALL_SIZE`). The specification takes one step, so the invariant is that
a returned result is the operator's; the work is in lemmas about division with remainder
and products, and in the existence of a least class that is large enough, which is an
induction on the naturals in the form of a least element.

None of the ownership invariants is inductive alone. `OneOwner` could be broken by a detach that
overwrites a list on the stack, so `StackInv` says where such lists are empty;
`NoBlockLost` by a descriptor released with blocks in it, so `CacheInv` says which
classes of a dying cache are flushed; an unmapping is justified by `RegistryInv`, the
stack lists of a trim by `MutexInv` (who holds the registry mutex), and the block a
realloc replaces by `ReallocInv`. `Inv` is their conjunction. Its step is proved per
conjunct with one case per action. The ownership part is proved once for the common
shape of most actions (`Transfers`: blocks of one class move between four places) and
separately for the creation and the unmapping of a slab. The refinement sorts steps by
what they do to `live` and `slab_class` (`StepKinds`).

The counters rest on `CountInv`, which holds beside `Inv`: `CacheAccounting` and `LimitInv`,
by which a cache is over a limit only while it evicts, and over the class limit only in the
class of the call. Every step is one of a few kinds for a cache (`CacheKind`: store, take,
refill, evict, flush, or nothing), and each kind changes one term of the sum over the classes.
`TrimReleasesAll` needs `TrimInv` for trims that keep their precondition: the trimming thread
is alone, the transfer lists of the classes it has passed stay empty, and each slab it has
kept has a block in use.

`BlockAPIProofs` proves the five properties of `block_contents` (`BlocksStayApart`,
`HeapAlwaysAccounted`, `CallersBytesKept`, `ErrnoAsPromised`, `TrimCountsBytes`) for an address
space, pages, an alignment and size classes of any sizes, any requests and any failures. Beyond the
assumptions of `SizeMathProofs` it needs `HeapAssumption`: a page is a multiple of the alignment,
the address space fits in `size_t`, and NULL, metadata and callers' bytes differ. `IInv`
(`BlockInvariant`) is `Sound(heap, held)` for the blocks callers hold, and `KnownOK`. `Sound` has
three parts. `Structure`: mappings lie apart and cover the mapped bytes, a slab has the blocks
that name it as owner, a block lies within its mapping and behind the slab's header.
`Accounted`: a block is held, free or lost, and a free one is on the list of its slab's class,
without which a trim would not know that it removes all blocks of a slab. `Intact`: prefixes and
headers have not been written over. None of the three is enough: the prefix of a block tells
where to unmap, and it tells the truth only while the blocks lie apart.

A function of the code is a set of outcomes, so each is one lemma about heaps, independent of
the variables: `MallocOutcome`, `CallocOutcome`, `FreeOutcome`, `ReallocIs`. They come down to
four kinds of change, each proved once to keep `Sound` and the bytes of the other held blocks
(`Keeps`): a new mapping (`NewMapping`, for a slab and for a large block), mappings that go
(`RemovedMappings`, for a free and for a trim), a block that changes place or size, and a write
within a payload. The layouts of `SizeMathProofs` give the premises of `NewMapping`. For
`TrimCountsBytes` the recursion of `released_total` is shown to have one solution, the number of
bytes in the slabs, which lie apart and within the address space, so that the sum never
saturates.

`WorkerPoolProofs` proves for any number of workers, jobs and slots and any failures
`TypeCorrect`, `JobsInOnePlace`, `TrimIsQuiescent`, `ReportIsTruthful`, the four invariants of
`pool_failures`, and `RingImplementsQueue`. `IInv` adds to `JobsHaveOnePlace`: who can be
where and who holds a job (`Control`), that jobs beyond `jobs_produced` are unallocated and
those in flight were accepted (`Fresh`, `Accepted`), that workers are joined in order
(`Joining`), that the counters of the workers sum up to the size of `seen` (`Marked`), and which
failures each status allows (`Errors`, `Undisturbed`, `Verdict`, `Reported`). The last are
needed because main reads the errors of the workers only after the join. The ring is handled
by lemmas on the window of used slots when it wraps.

`TransferAtomicProofs` proves for any number of threads and blocks `TypeCorrect`,
`LinksNeverRace`, `DescriptorsStayExact` and `ListImplementsExchange`. `Steps` and `Contents`
are recursive functions of the links, so the proofs go through paths. `IInv` says that there
are a published path, one path per thread and an owner of every block that fit the state
(`Shape`): the chain behind the head is the published path, each thread's batch is its own, a
block lies on the path of its owner only, the owner is ordered after all accesses to the link,
and the release on the head covers every published block. The link of a batch's last block may
point anywhere until the exchange succeeds, which is why a stale or reused address in the
relaxed load does no harm.

`BenchPhasesProofs` proves for any number of workers from two on and any capacity of the
queue `PhasesStayApart`, `HandedOverBlocksLive`, `SlotsStayAccounted` and `TrimIsQuiescent`.
`HandedOverBlocksLive` is about the ring and the handoff. `Course` says where main
and the workers can be in each phase; it is inductive only with `Counted`, by which each
counter that main waits for is the number of workers that have passed that point. `Apart`
keeps the workloads from each other. In the ring, a round is in one of three parts
(`Sending`, `Reading`, `Deciding`), which the barrier separates, and a block is live exactly
from the send to the read although mailboxes keep the pointer. In the handoff, hands and
queue entries together are the live blocks of each worker (`Carried`, `Stored`), and without a
failure the queue is empty when its first consumer leaves (`LeftEmpty`), so no phase begins
with blocks in it (`EmptyBetween`). In the other workloads `SlotsInv` says for each worker
that its slots are its live blocks, or that it is past its one failed check (`Mismatched`),
after which it executes no entry any more; this is why the difference never exceeds one
block.

Induction over the naturals is used for sets (`SetInduction` in `DataInduction`: a set with 0
and all successors is everything, because there is no least natural outside), which
suffices for sums and for the chains of links.

Only model-checked: liveness under fairness (`CallsReturn`, `ExitPublishesCache`, `LockFree`,
`PoolTerminates`, `BenchmarkEnds`), which is out of the provers' reach.

## Not modelled

- `PTHREAD_DESTRUCTOR_ITERATIONS`: a first allocator call in the very last round of
  destructors registers a value that the system never destroys; the model assumes that
  every registered value is destroyed, and the code cannot detect the last round;
- failures of `pthread_mutex_lock` that the code ignores: in `hplf_transfer_mutex_publish` and
  `hplf_transfer_mutex_detach` (`src/transfer_mutex.c:23` and `:37`) a list would be changed
  without the mutex, and likewise with the phase mutex and, outside of `queue_push` and
  `queue_pop`, the queue mutex of the benchmark. What then happens is a data race that no
  property survives. "All failures" means those that the code tests for;
- in the benchmark: the order of the entries in a trace, the churn workload (a thread that
  creates and joins one child at a time), the handoff of a single thread to itself,
  statistics, the rejection of an invalid timer interval after the join, locks of the queue
  mutex that fail in `queue_push` and `queue_pop`; after a join
  that fails main destroys the run while the worker may still use it, and the model lets the
  worker go on as if it were intact, so it shows only that main does not trim;
- in the worker pool: parsing of arguments, payload bytes and checksums, the report's text, and the
  setup that fails before any thread exists;
- null output pointers of the internal functions, which no caller passes;
- test hooks, statistics, snapshots, fault counters, output: no behaviour of their own.

## Plan

Done: ownership, counters, limits and trims in the cached build and ownership in the
baseline build, the lock-free list, size arithmetic and layouts, the API on bytes, the worker
pool and the benchmark's phases and slots, all with proofs of their safety properties.

Left, with little to be gained: `TransferMutex`, `transfer_mutex.c` on linked memory as a
refinement of `TransferExchange` (its critical sections are a few assignments under one mutex,
and steps of `CachedAllocator` already), and the list surgery of a trim on `FreeChain`.
