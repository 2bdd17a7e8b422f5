----------------------------- MODULE WorkerPool -----------------------------
(***************************************************************************)
(* examples/worker_pool.c: main starts workers, allocates jobs and pushes  *)
(* them on a bounded ring; workers pop, check and free them; main closes   *)
(* the queue, joins the workers, frees what is left and trims.             *)
(*                                                                         *)
(* A critical section of the queue mutex is one step.  A thread in         *)
(* pthread_cond_wait is asleep; a signal wakes one sleeper, a broadcast    *)
(* all, and any may wake for no reason.  Payloads and checksums are left   *)
(* out: what main compares is which jobs were seen, and how often.         *)
(***************************************************************************)
EXTENDS FiniteSets, Sums

CONSTANTS
    workers, jobs, capacity,
    None,
    Faults    \* calls that may fail: "lock", "wait", "wake", "create", "allocate", "join"

ASSUME PoolAssumption ==
    /\ workers \in Nat \ {0}
    /\ jobs \in Nat
    /\ capacity \in Nat \ {0}
    /\ None \notin Int

Main == 0

Worker == 1..workers

Thread == {Main} \cup Worker

Job == 0..(jobs - 1)

Slot == 0..(capacity - 1)

Status == {"RUN_OK", "RUN_ALLOCATION_FAILURE", "RUN_THREAD_FAILURE",
           "RUN_DATA_FAILURE", "RUN_INTERNAL_ERROR"}

Place == {"absent", "create", "produce", "push", "pop", "sleep", "woken", "work", "close",
          "flush", "ended", "join", "trim", "done"}

VARIABLES
    slots, head, count, closed,     \* struct job_queue
    pc,                             \* where each thread is
    job,                            \* the job a thread has in hand
    seen,                           \* the jobs marked in seen[]
    consumed, duplicate_jobs, queue_error,   \* struct worker_result
    storage,                        \* the allocator's view of each job's memory
    workers_started, jobs_produced, joined, all_joined, status,   \* of main
    failed                          \* the calls that have failed so far

queueVars == <<slots, head, count, closed>>
resultVars == <<seen, consumed, duplicate_jobs, queue_error>>
mainVars == <<workers_started, jobs_produced, joined, all_joined, status>>
vars == <<queueVars, pc, job, resultVars, storage, mainVars, failed>>

\* Every variable has its type.  The count of the ring must not pass its capacity
\* (examples/worker_pool.c:151, :163).
TypeOK ==
    /\ slots \in [Slot -> Job \cup {None}]
    /\ head \in Slot
    /\ count \in 0..capacity
    /\ closed \in BOOLEAN
    /\ pc \in [Thread -> Place]
    /\ job \in [Thread -> Job \cup {None}]
    /\ seen \subseteq Job
    /\ consumed \in [Worker -> Nat]
    /\ duplicate_jobs \in [Worker -> Nat]
    /\ queue_error \in [Worker -> BOOLEAN]
    /\ storage \in [Job -> {"unallocated", "allocated", "freed", "freed twice"}]
    /\ workers_started \in 0..workers
    /\ jobs_produced \in 0..jobs
    /\ joined \in 0..workers
    /\ all_joined \in BOOLEAN
    /\ status \in Status
    /\ failed \subseteq Faults

Init ==
    /\ slots = [i \in Slot |-> None]
    /\ head = 0 /\ count = 0 /\ closed = FALSE
    /\ pc = [t \in Thread |-> IF t = Main THEN "create" ELSE "absent"]
    /\ job = [t \in Thread |-> None]
    /\ seen = {}
    /\ consumed = [w \in Worker |-> 0]
    /\ duplicate_jobs = [w \in Worker |-> 0]
    /\ queue_error = [w \in Worker |-> FALSE]
    /\ storage = [j \in Job |-> "unallocated"]
    /\ workers_started = 0 /\ jobs_produced = 0 /\ joined = 0
    /\ all_joined = TRUE
    /\ status = "RUN_OK"
    /\ failed = {}

Fails(call) ==
    /\ call \in Faults
    /\ failed' = failed \cup {call}

Goto(t, place) == pc' = [pc EXCEPT ![t] = place]

\* worker_deallocate
Deallocate(freed) ==
    storage' = [j \in Job |->
        IF j \notin freed THEN storage[j]
        ELSE IF storage[j] = "allocated" THEN "freed" ELSE "freed twice"]

-----------------------------------------------------------------------------
(***************************************************************************)
(* Condition variables.  Only main waits for not_full, only workers wait   *)
(* for not_empty.                                                          *)
(***************************************************************************)

NotEmptySleepers == {w \in Worker : pc[w] = "sleep"}

NotFullSleepers == {t \in {Main} : pc[t] = "sleep"}

WakeAndGoto(woken, t, place) ==
    pc' = [u \in Thread |-> IF u = t THEN place ELSE IF u \in woken THEN "woken" ELSE pc[u]]

\* pthread_cond_signal as the last call of an operation that takes t to place.
signal(sleepers, t, place) ==
    \/ /\ sleepers = {}
       /\ WakeAndGoto({}, t, place)
       /\ UNCHANGED failed
    \/ \E u \in sleepers : WakeAndGoto({u}, t, place) /\ UNCHANGED failed
    \/ Fails("wake") /\ WakeAndGoto({}, t, place)

\* Mutant: closing signals instead of broadcasting.
close_signals(t, place) ==
    /\ \/ NotEmptySleepers = {} /\ WakeAndGoto(NotFullSleepers, t, place)
       \/ \E u \in NotEmptySleepers : WakeAndGoto({u} \cup NotFullSleepers, t, place)
    /\ UNCHANGED failed

\* The two broadcasts of queue_close.  Each may fail by itself, and so may the unlock,
\* which has released the mutex all the same.
broadcast(t, place) ==
    /\ WakeAndGoto(NotEmptySleepers \cup NotFullSleepers, t, place)
    /\ UNCHANGED failed

broadcast_fails(t, place) ==
    /\ Fails("wake")
    /\ \E woken \in {{}, NotEmptySleepers, NotFullSleepers, NotEmptySleepers \cup NotFullSleepers} :
           WakeAndGoto(woken, t, place)

SpuriousWakeup(t) ==
    /\ pc[t] = "sleep"
    /\ Goto(t, "woken")
    /\ UNCHANGED <<queueVars, job, resultVars, storage, mainVars, failed>>

-----------------------------------------------------------------------------
(***************************************************************************)
(* The workers.                                                            *)
(***************************************************************************)

IsEmpty == count = 0

\* Mutant: the bound is one too high.
full_past_end == count = capacity + 1

IsFull == count = capacity

MustWaitForJob == IsEmpty /\ ~closed

MustWaitForRoom == IsFull /\ ~closed

\* An operation's mutex lock fails, or its wait does, before or after it slept.
OperationFails(t, operation, mustWait) ==
    \/ pc[t] = operation /\ Fails("lock")
    \/ (pc[t] = "woken" \/ (pc[t] = operation /\ mustWait)) /\ Fails("wait")

InPop(w) == pc[w] \in {"pop", "woken"}

TakeHead(w) ==
    /\ job' = [job EXCEPT ![w] = slots[head]]
    /\ slots' = [slots EXCEPT ![head] = None]
    /\ head' = (head + 1) % capacity
    /\ count' = count - 1

Pop(w) ==
    /\ InPop(w) /\ ~IsEmpty
    /\ TakeHead(w)
    /\ signal(NotFullSleepers, w, "work")
    /\ UNCHANGED <<closed, resultVars, storage, mainVars>>

PopWaits(w) ==
    /\ InPop(w) /\ MustWaitForJob
    /\ Goto(w, "sleep")
    /\ UNCHANGED <<queueVars, job, resultVars, storage, mainVars, failed>>

PopDrained(w) ==
    /\ InPop(w) /\ ~MustWaitForJob /\ IsEmpty
    /\ Goto(w, "flush")
    /\ UNCHANGED <<queueVars, job, resultVars, storage, mainVars, failed>>

PopFails(w) ==
    /\ OperationFails(w, "pop", MustWaitForJob)
    /\ queue_error' = [queue_error EXCEPT ![w] = TRUE]
    /\ Goto(w, "close")
    /\ UNCHANGED <<queueVars, job, seen, consumed, duplicate_jobs, storage, mainVars>>

Consume(w) ==
    LET j == job[w] IN
    /\ pc[w] = "work"
    /\ seen' = seen \cup {j}
    /\ duplicate_jobs' = [duplicate_jobs EXCEPT ![w] = IF j \in seen THEN @ + 1 ELSE @]
    /\ consumed' = [consumed EXCEPT ![w] = @ + 1]
    /\ Deallocate({j})
    /\ job' = [job EXCEPT ![w] = None]
    /\ Goto(w, "pop")
    /\ UNCHANGED <<queueVars, queue_error, mainVars, failed>>

\* The result of queue_close is ignored here.
WorkerCloses(w) ==
    /\ pc[w] = "close"
    /\ \/ closed' = TRUE /\ (broadcast(w, "flush") \/ broadcast_fails(w, "flush"))
       \/ Fails("lock") /\ Goto(w, "flush") /\ UNCHANGED closed
    /\ UNCHANGED <<slots, head, count, job, resultVars, storage, mainVars>>

ThreadFlush(w) ==
    /\ pc[w] = "flush"
    /\ Goto(w, "ended")
    /\ UNCHANGED <<queueVars, job, resultVars, storage, mainVars, failed>>

-----------------------------------------------------------------------------
(***************************************************************************)
(* main.                                                                   *)
(***************************************************************************)

CreateWorker ==
    /\ pc[Main] = "create" /\ workers_started < workers
    /\ workers_started' = workers_started + 1
    /\ Goto(workers_started + 1, "pop")
    /\ UNCHANGED <<queueVars, job, resultVars, storage, jobs_produced, joined,
                   all_joined, status, failed>>

CreateFails ==
    /\ pc[Main] = "create" /\ workers_started < workers
    /\ Fails("create")
    /\ status' = "RUN_THREAD_FAILURE"
    /\ Goto(Main, "close")
    /\ UNCHANGED <<queueVars, job, resultVars, storage, workers_started, jobs_produced,
                   joined, all_joined>>

AllStarted ==
    /\ pc[Main] = "create" /\ workers_started = workers
    /\ Goto(Main, "produce")
    /\ UNCHANGED <<queueVars, job, resultVars, storage, mainVars, failed>>

AllocateJob ==
    /\ pc[Main] = "produce" /\ jobs_produced < jobs
    /\ job' = [job EXCEPT ![Main] = jobs_produced]
    /\ storage' = [storage EXCEPT ![jobs_produced] = "allocated"]
    /\ Goto(Main, "push")
    /\ UNCHANGED <<queueVars, resultVars, mainVars, failed>>

AllocateFails ==
    /\ pc[Main] = "produce" /\ jobs_produced < jobs
    /\ Fails("allocate")
    /\ status' = "RUN_ALLOCATION_FAILURE"
    /\ Goto(Main, "close")
    /\ UNCHANGED <<queueVars, job, resultVars, storage, workers_started, jobs_produced,
                   joined, all_joined>>

AllProduced ==
    /\ pc[Main] = "produce" /\ jobs_produced = jobs
    /\ Goto(Main, "close")
    /\ UNCHANGED <<queueVars, job, resultVars, storage, mainVars, failed>>

InPush == pc[Main] \in {"push", "woken"}

\* Mutant: the tail index forgets the head.
append_at_count ==
    /\ slots' = [slots EXCEPT ![count % capacity] = job[Main]]
    /\ count' = count + 1
    /\ job' = [job EXCEPT ![Main] = None]

AppendJob ==
    /\ slots' = [slots EXCEPT ![(head + count) % capacity] = job[Main]]
    /\ count' = count + 1
    /\ job' = [job EXCEPT ![Main] = None]

Push ==
    /\ InPush /\ ~IsFull /\ ~closed
    /\ AppendJob
    /\ jobs_produced' = jobs_produced + 1
    /\ signal(NotEmptySleepers, Main, "produce")
    /\ UNCHANGED <<head, closed, resultVars, storage, workers_started, joined,
                   all_joined, status>>

PushWaits ==
    /\ InPush /\ MustWaitForRoom
    /\ Goto(Main, "sleep")
    /\ UNCHANGED <<queueVars, job, resultVars, storage, mainVars, failed>>

\* Mutant: a push that failed is taken for accepted.
forget_job ==
    /\ job' = [job EXCEPT ![Main] = None]
    /\ UNCHANGED storage

\* The job that was not accepted still belongs to main.
KeepJob ==
    /\ Deallocate({job[Main]})
    /\ job' = [job EXCEPT ![Main] = None]

PushRejected ==
    /\ \/ InPush /\ closed /\ UNCHANGED failed
       \/ OperationFails(Main, "push", MustWaitForRoom)
    /\ KeepJob
    /\ status' = "RUN_INTERNAL_ERROR"
    /\ Goto(Main, "close")
    /\ UNCHANGED <<queueVars, resultVars, workers_started, jobs_produced, joined, all_joined>>

IfOk(error) == IF status = "RUN_OK" THEN error ELSE status

MainCloses ==
    /\ pc[Main] = "close"
    /\ \/ closed' = TRUE /\ broadcast(Main, "join") /\ UNCHANGED status
       \/ /\ \/ closed' = TRUE /\ broadcast_fails(Main, "join")
             \/ UNCHANGED closed /\ Fails("lock") /\ Goto(Main, "join")
          /\ status' = IfOk("RUN_INTERNAL_ERROR")
    /\ UNCHANGED <<slots, head, count, job, resultVars, storage, workers_started,
                   jobs_produced, joined, all_joined>>

Join ==
    /\ pc[Main] = "join" /\ joined < workers_started
    /\ pc[joined + 1] = "ended"
    /\ joined' = joined + 1
    /\ UNCHANGED <<queueVars, pc, job, resultVars, storage, workers_started,
                   jobs_produced, all_joined, status, failed>>

JoinFails ==
    /\ pc[Main] = "join" /\ joined < workers_started
    /\ Fails("join")
    /\ joined' = joined + 1
    /\ all_joined' = FALSE
    /\ status' = "RUN_INTERNAL_ERROR"
    /\ UNCHANGED <<queueVars, pc, job, resultVars, storage, workers_started, jobs_produced>>

Remaining == {slots[(head + i) % capacity] : i \in 0..(count - 1)}

ReleaseRemaining ==
    /\ Deallocate(Remaining)
    /\ slots' = [i \in Slot |-> None]
    /\ head' = (head + count) % capacity
    /\ count' = 0

DataFailure ==
    \/ Total(consumed, workers_started) # jobs_produced
    \/ \E w \in 1..workers_started : duplicate_jobs[w] # 0
    \/ \E j \in 0..(jobs_produced - 1) : j \notin seen
    \/ count # 0

\* Mutant: the workers' queue errors are not collected.
final_status_without_errors == IF DataFailure THEN "RUN_DATA_FAILURE" ELSE status

FinalStatus ==
    IF DataFailure THEN "RUN_DATA_FAILURE"
    ELSE IF \E w \in 1..workers_started : queue_error[w] THEN "RUN_INTERNAL_ERROR"
    ELSE status

AllJoined ==
    /\ pc[Main] = "join" /\ joined = workers_started
    /\ all_joined
    /\ status' = FinalStatus
    /\ ReleaseRemaining
    /\ Goto(Main, "trim")
    /\ UNCHANGED <<closed, job, resultVars, workers_started, jobs_produced, joined,
                   all_joined, failed>>

\* Mutant: the cleanup does not depend on all_joined.
trim_although_not_joined ==
    /\ pc[Main] = "join" /\ joined = workers_started
    /\ ~all_joined
    /\ Goto(Main, "trim")
    /\ UNCHANGED <<queueVars, job, resultVars, storage, mainVars, failed>>

\* Nothing is released while a worker may still run.
NotAllJoined ==
    /\ pc[Main] = "join" /\ joined = workers_started
    /\ ~all_joined
    /\ Goto(Main, "done")
    /\ UNCHANGED <<queueVars, job, resultVars, storage, mainVars, failed>>

FlushAndTrim ==
    /\ pc[Main] = "trim"
    /\ Goto(Main, "done")
    /\ UNCHANGED <<queueVars, job, resultVars, storage, mainVars, failed>>

Finished ==
    /\ pc[Main] = "done"
    /\ UNCHANGED vars

WorkerStep(w) ==
    \/ Pop(w) \/ PopWaits(w) \/ PopDrained(w) \/ PopFails(w)
    \/ Consume(w) \/ WorkerCloses(w) \/ ThreadFlush(w)

MainStep ==
    \/ CreateWorker \/ CreateFails \/ AllStarted
    \/ AllocateJob \/ AllocateFails \/ AllProduced
    \/ Push \/ PushWaits \/ PushRejected
    \/ MainCloses \/ Join \/ JoinFails \/ AllJoined \/ NotAllJoined \/ FlushAndTrim

Next ==
    \/ \E w \in Worker : WorkerStep(w)
    \/ MainStep
    \/ \E t \in Thread : SpuriousWakeup(t)
    \/ Finished

Spec == Init /\ [][Next]_vars

(***************************************************************************)
(* Threads that are awake keep running.  A sleeper may count on a signal   *)
(* only, never on a spurious wakeup.                                       *)
(***************************************************************************)
Fairness ==
    /\ WF_vars(MainStep)
    /\ \A w \in Worker : WF_vars(WorkerStep(w))

FairSpec == Spec /\ Fairness

-----------------------------------------------------------------------------
(***************************************************************************)
(* Properties.                                                             *)
(***************************************************************************)

Offset(i) == IF i >= head THEN i - head ELSE i + capacity - head

Window == {i \in Slot : Offset(i) < count}

Held == {t \in Thread : job[t] # None}

\* Every job is in exactly one place from its allocation to its only deallocation: with
\* one thread or in one slot of the ring between head and head + count, whatever calls
\* fail (the ownership comments at examples/worker_pool.c:165 and :195).
JobsHaveOnePlace ==
    /\ \A i \in Slot : slots[i] # None <=> i \in Window
    /\ \A i, k \in Window : slots[i] = slots[k] => i = k
    /\ \A t, u \in Held : job[t] = job[u] => t = u
    /\ \A t \in Held, i \in Window : job[t] # slots[i]
    /\ \A t \in Held : storage[job[t]] = "allocated"
    /\ \A i \in Window : storage[slots[i]] = "allocated"
    /\ \A j \in Job :
           /\ storage[j] # "freed twice"
           /\ storage[j] = "allocated" =>
                  (\E t \in Held : job[t] = j) \/ (\E i \in Window : slots[i] = j)

\* main trims, and destroys the queue, only when every worker it started has flushed its
\* cache and ended and every job has been deallocated, as hplf_trim_quiescent demands
\* (include/hplf/allocator.h:41, examples/worker_pool.c:566-590).
TrimsWhenQuiescent ==
    pc[Main] = "trim" =>
        /\ \A w \in Worker : pc[w] = IF w <= workers_started THEN "ended" ELSE "absent"
        /\ \A j \in Job : storage[j] \in {"unallocated", "freed"}

\* The status main reports is true: ok means that every job was consumed once and that
\* no call but a wakeup failed, a run without failures is ok, and a data failure means
\* that some accepted job was abandoned (examples/worker_pool.c:566-586).
ReportIsTrue ==
    pc[Main] = "done" =>
        /\ status = "RUN_OK" => seen = Job /\ failed \subseteq {"wake"}
        /\ failed = {} => status = "RUN_OK"
        /\ all_joined => (status = "RUN_DATA_FAILURE" <=> seen # 0..(jobs_produced - 1))

Queue == INSTANCE JobQueue WITH
    queue <- [i \in 1..count |-> slots[(head + i - 1) % capacity]],
    held <- job

\* The ring, its indices and its condition variables implement a bounded FIFO queue
\* that hands each job to one thread (queue_push, queue_pop, queue_close).
ImplementsQueue == Queue!Spec

\* The pool ends: no wakeup is lost, closing wakes both sides, and the failure of a
\* wait, a creation, an allocation or a join leaves nobody behind.  Only a lock or a
\* wakeup that fails can (examples/worker_pool.c:151, :179, :211).
PoolTerminates ==
    <>(\/ failed \cap {"lock", "wake"} # {}
       \/ pc[Main] = "done" /\ \A w \in Worker : pc[w] \in {"absent", "ended"})
=============================================================================
