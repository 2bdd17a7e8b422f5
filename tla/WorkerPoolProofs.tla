-------------------------- MODULE WorkerPoolProofs --------------------------
(***************************************************************************)
(* Proofs about WorkerPool, for any number of workers, jobs and slots and  *)
(* any choice of failing calls: the inductive invariant IInv, the pool's   *)
(* safety invariants, and that its ring implements JobQueue.               *)
(***************************************************************************)
EXTENDS WorkerPool, DataInduction, Sequences, SequenceTheorems, FiniteSetTheorems, TLAPS

Producing == pc[Main] \in {"create", "produce", "push", "sleep", "woken"}

\* Who can be where; a worker is absent until it is created, in the order of the ids.
Places ==
    /\ pc[Main] \in {"create", "produce", "push", "sleep", "woken", "close", "join", "trim", "done"}
    /\ \A w \in Worker :
           /\ pc[w] \in {"absent", "pop", "sleep", "woken", "work", "close", "flush", "ended"}
           /\ pc[w] = "absent" <=> w > workers_started

\* A worker has a job exactly while it works on it, main while it is in queue_push; what
\* main pushes is the job it produced last.
Hands ==
    /\ \A w \in Worker : job[w] # None <=> pc[w] = "work"
    /\ job[Main] # None <=> pc[Main] \in {"push", "sleep", "woken"}
    /\ job[Main] # None => job[Main] = jobs_produced

\* The slots between head and tail hold jobs, the others are cleared.
RingFilled == \A i \in Slot : slots[i] # None <=> i \in Window

\* The part of the invariant that needs no other part.
Control == TypeOK /\ Places /\ Hands /\ RingFilled

\* A job is allocated from its production on; jobs_produced counts the accepted ones.
Fresh ==
    \A j \in Job :
        /\ j < jobs_produced => storage[j] # "unallocated"
        /\ j > jobs_produced => storage[j] = "unallocated"
        /\ j = jobs_produced /\ pc[Main] \in {"create", "produce"} => storage[j] = "unallocated"

\* Everything that workers have or find in the ring was accepted.
Accepted ==
    /\ \A w \in Worker : job[w] # None => job[w] < jobs_produced
    /\ \A i \in Window : slots[i] < jobs_produced

\* run_pool has evaluated the results and released what remained in the queue.
Cleaned == all_joined /\ pc[Main] \in {"trim", "done"}

\* Workers are joined in order, and the cleanup follows the last join.
Joining ==
    /\ joined <= workers_started
    /\ Producing \/ pc[Main] = "close" => joined = 0 /\ all_joined
    /\ all_joined => \A w \in 1..joined : pc[w] = "ended"
    /\ pc[Main] = "trim" => all_joined
    /\ pc[Main] \in {"trim", "done"} => joined = workers_started
    /\ Cleaned => /\ count = 0
                  /\ \A j \in Job : storage[j] \in {"unallocated", "freed"}

\* seen[] marks the jobs that workers freed, each counted once by one worker; only the
\* rejected job and those left for the cleanup are freed unmarked.
Marked ==
    /\ \A j \in seen : storage[j] = "freed" /\ j < jobs_produced
    /\ ~Cleaned => \A j \in Job : j < jobs_produced /\ storage[j] = "freed" => j \in seen
    /\ \A w \in Worker : duplicate_jobs[w] = 0
    /\ \A w \in Worker : w > workers_started => consumed[w] = 0
    /\ Total(consumed, workers_started) = Cardinality(seen)

\* A worker closes the queue only after an error of its own.
Errors ==
    \A w \in Worker :
        /\ pc[w] = "close" => queue_error[w]
        /\ queue_error[w] => failed # {} /\ w <= workers_started

\* What can have gone wrong so far, by where main is; without any failure workers end only
\* when the queue is closed and drained.
Undisturbed ==
    /\ Producing => status = "RUN_OK"
    /\ Producing /\ closed => failed # {}
    /\ failed = {} => /\ pc[Main] # "create" => workers_started = workers
                      /\ \A w \in Worker : pc[w] \in {"flush", "ended"} => closed /\ count = 0

\* The failures that leave main with RUN_OK until it reads the results.
ExcusedBy == {"wake"} \cup (IF \E w \in Worker : queue_error[w] THEN {"lock", "wait"} ELSE {})

\* The status until the results are evaluated.
Verdict ==
    /\ ~all_joined => status = "RUN_INTERNAL_ERROR"
    /\ status = "RUN_OK" /\ ~Producing => jobs_produced = jobs
    /\ ~Cleaned => /\ status # "RUN_DATA_FAILURE"
                   /\ failed = {} => status = "RUN_OK"
                   /\ status = "RUN_OK" => failed \subseteq ExcusedBy

\* The status from then on.
Reported ==
    Cleaned =>
        /\ status = "RUN_OK" => seen = Job /\ failed \subseteq {"wake"}
        /\ failed = {} => status = "RUN_OK"
        /\ status = "RUN_DATA_FAILURE" <=> seen # 0..(jobs_produced - 1)

\* The inductive invariant.
IInv ==
    /\ Control /\ JobsHaveOnePlace /\ Fresh /\ Accepted /\ Joining
    /\ Marked /\ Errors /\ Undisturbed /\ Verdict /\ Reported

-----------------------------------------------------------------------------

\* Main and the workers are different threads.
LEMMA ThreadFacts ==
    /\ Main = 0 /\ Main \notin Worker /\ Thread = Worker \cup {Main}
    /\ Worker \subseteq Nat /\ None \notin Job
    /\ \A w \in Worker : w # Main
BY PoolAssumption DEF Main, Worker, Thread, Job

\* The slots of a ring of c jobs whose first is at h.
SlotsFrom(h, c) == {i \in Slot : (IF i >= h THEN i - h ELSE i + capacity - h) < c}

\* The window is that of the current head and count.
LEMMA WindowIs ==
    /\ Window = SlotsFrom(head, count)
    /\ Window' = SlotsFrom(head', count')
BY DEF Window, Offset, SlotsFrom

\* Taking the head leaves the other slots, also across the end of the array.
LEMMA SlotsPop ==
    ASSUME NEW h \in Slot, NEW c \in 1..capacity
    PROVE  /\ h \in SlotsFrom(h, c)
           /\ (h + 1) % capacity \in Slot
           /\ SlotsFrom((h + 1) % capacity, c - 1) = SlotsFrom(h, c) \ {h}
<1>1. h + 1 \in Nat /\ h + 1 < 2 * capacity /\ capacity \in Nat \ {0}
  BY PoolAssumption DEF Slot
<1>2. (h + 1) % capacity = IF h + 1 < capacity THEN h + 1 ELSE (h + 1) - capacity
  BY <1>1, RemainderBelowTwice
<1> QED BY <1>1, <1>2 DEF SlotsFrom, Slot

\* Appending takes one more slot, which was free.
LEMMA SlotsPush ==
    ASSUME NEW h \in Slot, NEW c \in 0..(capacity - 1)
    PROVE  /\ (h + c) % capacity \in Slot
           /\ (h + c) % capacity \notin SlotsFrom(h, c)
           /\ SlotsFrom(h, c + 1) = SlotsFrom(h, c) \cup {(h + c) % capacity}
<1>1. h + c \in Nat /\ h + c < 2 * capacity /\ capacity \in Nat \ {0}
  BY PoolAssumption DEF Slot
<1>2. (h + c) % capacity = IF h + c < capacity THEN h + c ELSE (h + c) - capacity
  BY <1>1, RemainderBelowTwice
<1> QED BY <1>1, <1>2 DEF SlotsFrom, Slot

\* queue_release_remaining finds exactly the jobs in the ring.
LEMMA RemainingIsWindow ==
    ASSUME TypeOK
    PROVE  Remaining = {slots[i] : i \in Window}
<1> DEFINE at(i) == (head + i) % capacity
<1>0. head \in 0..(capacity - 1) /\ count \in 0..capacity /\ capacity \in Nat \ {0}
  BY PoolAssumption DEF TypeOK, Slot
<1>1. ASSUME NEW i \in 0..(count - 1) PROVE at(i) \in Window
  <2>1. head + i \in Nat /\ head + i < 2 * capacity /\ capacity \in Nat \ {0} /\ i < count
        /\ count <= capacity /\ i \in Nat
    BY <1>0
  <2>2. at(i) = IF head + i < capacity THEN head + i ELSE (head + i) - capacity
    BY <1>0, <2>1, RemainderBelowTwice
  <2> QED BY <1>0, <2>1, <2>2 DEF Window, Offset, Slot
<1>2. ASSUME NEW k \in Window PROVE \E i \in 0..(count - 1) : k = at(i)
  <2>1. k \in 0..(capacity - 1) /\ Offset(k) \in 0..(count - 1)
    BY <1>0 DEF Window, Offset, Slot
  <2>2. head + Offset(k) \in Nat /\ head + Offset(k) < 2 * capacity
    BY <1>0, <2>1
  <2>3. at(Offset(k)) = IF head + Offset(k) < capacity THEN head + Offset(k)
                        ELSE (head + Offset(k)) - capacity
    BY <1>0, <2>2, RemainderBelowTwice
  <2>4. k = at(Offset(k))
    BY <1>0, <2>1, <2>3 DEF Offset
  <2> QED BY <2>1, <2>4
<1> QED BY <1>1, <1>2 DEF Remaining

\* Numbers within their bounds, apart from the other types.
LEMMA TypeFacts ==
    ASSUME TypeOK
    PROVE  /\ head \in 0..(capacity - 1) /\ count \in 0..capacity
           /\ workers_started \in 0..workers /\ joined \in 0..workers
           /\ jobs_produced \in 0..jobs
BY DEF TypeOK, Slot

-----------------------------------------------------------------------------
(***************************************************************************)
(* Where an action takes the threads: one to a place, and sleepers awake.  *)
(***************************************************************************)

Moves(t, place) ==
    /\ pc' \in [Thread -> Place]
    /\ pc'[t] = place
    /\ \A u \in Thread : u # t => pc'[u] = pc[u] \/ (pc[u] = "sleep" /\ pc'[u] = "woken")

Charges(calls) == \E c \in calls : c \in Faults /\ failed' = failed \cup {c}

\* The ways to move: alone, with woken sleepers, with a signal, with a broadcast.
LEMMA GotoMoves ==
    ASSUME pc \in [Thread -> Place], NEW t \in Thread, NEW place \in Place, Goto(t, place)
    PROVE  Moves(t, place)
BY DEF Goto, Moves

LEMMA WakeMoves ==
    ASSUME pc \in [Thread -> Place], NEW t \in Thread, NEW place \in Place, NEW woken,
           \A u \in woken : pc[u] = "sleep", WakeAndGoto(woken, t, place)
    PROVE  Moves(t, place)
<1>1. "woken" \in Place
  BY DEF Place
<1> QED BY <1>1 DEF WakeAndGoto, Moves

LEMMA SignalMoves ==
    ASSUME pc \in [Thread -> Place], NEW t \in Thread, NEW place \in Place, NEW sleepers,
           \A u \in sleepers : pc[u] = "sleep", signal(sleepers, t, place)
    PROVE  Moves(t, place) /\ (UNCHANGED failed \/ Charges({"wake"}))
<1>1. CASE sleepers = {} /\ WakeAndGoto({}, t, place) /\ UNCHANGED failed
  BY <1>1, WakeMoves
<1>2. ASSUME NEW u \in sleepers, WakeAndGoto({u}, t, place), UNCHANGED failed
      PROVE  Moves(t, place)
  BY <1>2, WakeMoves
<1>3. CASE Fails("wake") /\ WakeAndGoto({}, t, place)
  BY <1>3, WakeMoves DEF Fails, Charges
<1> QED BY <1>1, <1>2, <1>3 DEF signal

LEMMA BroadcastMoves ==
    ASSUME pc \in [Thread -> Place], NEW t \in Thread, NEW place \in Place
    PROVE  /\ broadcast(t, place) => Moves(t, place) /\ UNCHANGED failed
           /\ broadcast_fails(t, place) => Moves(t, place) /\ Charges({"wake"})
<1>1. \A u \in NotEmptySleepers \cup NotFullSleepers : pc[u] = "sleep"
  BY DEF NotEmptySleepers, NotFullSleepers
<1>2. ASSUME broadcast(t, place) PROVE Moves(t, place) /\ UNCHANGED failed
  BY <1>1, <1>2, WakeMoves DEF broadcast
<1>3. ASSUME broadcast_fails(t, place) PROVE Moves(t, place) /\ Charges({"wake"})
  <2>1. PICK woken : /\ \A u \in woken : pc[u] = "sleep"
                     /\ WakeAndGoto(woken, t, place)
    BY <1>1, <1>3 DEF broadcast_fails
  <2>2. Charges({"wake"})
    BY <1>3 DEF broadcast_fails, Fails, Charges
  <2> QED BY <2>1, <2>2, WakeMoves
<1> QED BY <1>2, <1>3

\* Where each action of a worker takes it, and what failure it stands for.
LEMMA WorkerMoves ==
    ASSUME TypeOK, NEW w \in Worker
    PROVE  /\ Pop(w) => Moves(w, "work") /\ (UNCHANGED failed \/ Charges({"wake"}))
           /\ PopWaits(w) => Moves(w, "sleep")
           /\ PopDrained(w) => Moves(w, "flush")
           /\ PopFails(w) => Moves(w, "close") /\ Charges({"lock", "wait"})
           /\ Consume(w) => Moves(w, "pop")
           /\ WorkerCloses(w) =>
                  Moves(w, "flush") /\ (UNCHANGED failed \/ Charges({"lock", "wake"}))
           /\ ThreadFlush(w) => Moves(w, "ended")
<1>1. pc \in [Thread -> Place] /\ w \in Thread
  BY ThreadFacts DEF TypeOK
<1>2. "work" \in Place /\ "sleep" \in Place /\ "flush" \in Place /\ "close" \in Place
      /\ "pop" \in Place /\ "ended" \in Place
  BY DEF Place
<1>3. Pop(w) => Moves(w, "work") /\ (UNCHANGED failed \/ Charges({"wake"}))
  <2>1. \A u \in NotFullSleepers : pc[u] = "sleep"
    BY DEF NotFullSleepers
  <2> QED BY <1>1, <1>2, <2>1, SignalMoves DEF Pop
<1>4. PopWaits(w) => Moves(w, "sleep")
  BY <1>1, <1>2, GotoMoves DEF PopWaits
<1>5. PopDrained(w) => Moves(w, "flush")
  BY <1>1, <1>2, GotoMoves DEF PopDrained
<1>6. PopFails(w) => Moves(w, "close") /\ Charges({"lock", "wait"})
  BY <1>1, <1>2, GotoMoves DEF PopFails, OperationFails, Fails, Charges
<1>7. Consume(w) => Moves(w, "pop")
  BY <1>1, <1>2, GotoMoves DEF Consume
<1>8. WorkerCloses(w) => Moves(w, "flush") /\ (UNCHANGED failed \/ Charges({"lock", "wake"}))
  <2>1. Charges({"wake"}) => Charges({"lock", "wake"})
    BY DEF Charges
  <2>2. Fails("lock") => Charges({"lock", "wake"})
    BY DEF Charges, Fails
  <2> QED BY <1>1, <1>2, <2>1, <2>2, GotoMoves, BroadcastMoves DEF WorkerCloses
<1>9. ThreadFlush(w) => Moves(w, "ended")
  BY <1>1, <1>2, GotoMoves DEF ThreadFlush
<1> QED BY <1>3, <1>4, <1>5, <1>6, <1>7, <1>8, <1>9

\* Where each action of main takes it.
LEMMA MainMoves ==
    ASSUME TypeOK
    PROVE  /\ CreateWorker => Moves(workers_started + 1, "pop") /\ workers_started + 1 \in Worker
           /\ CreateFails => Moves(Main, "close") /\ Charges({"create"})
           /\ AllStarted => Moves(Main, "produce")
           /\ AllocateJob => Moves(Main, "push")
           /\ AllocateFails => Moves(Main, "close") /\ Charges({"allocate"})
           /\ AllProduced => Moves(Main, "close")
           /\ Push => Moves(Main, "produce") /\ (UNCHANGED failed \/ Charges({"wake"}))
           /\ PushWaits => Moves(Main, "sleep")
           /\ PushRejected =>
                  /\ Moves(Main, "close")
                  /\ (closed /\ UNCHANGED failed) \/ Charges({"lock", "wait"})
           /\ MainCloses =>
                  /\ Moves(Main, "join")
                  /\ \/ UNCHANGED <<failed, status>>
                     \/ Charges({"lock", "wake"}) /\ status' = IfOk("RUN_INTERNAL_ERROR")
           /\ AllJoined => Moves(Main, "trim")
           /\ NotAllJoined => Moves(Main, "done")
           /\ FlushAndTrim => Moves(Main, "done")
<1>1. pc \in [Thread -> Place] /\ Main \in Thread
  BY ThreadFacts DEF TypeOK
<1>2. "pop" \in Place /\ "produce" \in Place /\ "push" \in Place /\ "close" \in Place
      /\ "sleep" \in Place /\ "join" \in Place /\ "trim" \in Place /\ "done" \in Place
  BY DEF Place
<1>3. CreateWorker => Moves(workers_started + 1, "pop") /\ workers_started + 1 \in Worker
  <2> HAVE CreateWorker
  <2>1. workers_started \in 0..workers /\ workers_started < workers
    BY TypeFacts DEF CreateWorker
  <2>2. workers_started + 1 \in Worker
    BY <2>1, PoolAssumption DEF Worker
  <2> QED BY <1>1, <1>2, <2>2, ThreadFacts, GotoMoves DEF CreateWorker
<1>4. /\ CreateFails => Moves(Main, "close") /\ Charges({"create"})
      /\ AllStarted => Moves(Main, "produce")
      /\ AllocateJob => Moves(Main, "push")
      /\ AllocateFails => Moves(Main, "close") /\ Charges({"allocate"})
      /\ AllProduced => Moves(Main, "close")
  BY <1>1, <1>2, GotoMoves
  DEF CreateFails, AllStarted, AllocateJob, AllocateFails, AllProduced, Fails, Charges
<1>5. Push => Moves(Main, "produce") /\ (UNCHANGED failed \/ Charges({"wake"}))
  <2>1. \A u \in NotEmptySleepers : pc[u] = "sleep"
    BY DEF NotEmptySleepers
  <2> QED BY <1>1, <1>2, <2>1, SignalMoves DEF Push
<1>6. PushWaits => Moves(Main, "sleep")
  BY <1>1, <1>2, GotoMoves DEF PushWaits
<1>7. PushRejected =>
          Moves(Main, "close") /\ ((closed /\ UNCHANGED failed) \/ Charges({"lock", "wait"}))
  BY <1>1, <1>2, GotoMoves DEF PushRejected, OperationFails, Fails, Charges
<1>8. MainCloses => /\ Moves(Main, "join")
                    /\ \/ UNCHANGED <<failed, status>>
                       \/ Charges({"lock", "wake"}) /\ status' = IfOk("RUN_INTERNAL_ERROR")
  <2>1. Charges({"wake"}) => Charges({"lock", "wake"})
    BY DEF Charges
  <2>2. Fails("lock") => Charges({"lock", "wake"})
    BY DEF Charges, Fails
  <2> QED BY <1>1, <1>2, <2>1, <2>2, GotoMoves, BroadcastMoves DEF MainCloses
<1>9. /\ AllJoined => Moves(Main, "trim")
      /\ NotAllJoined => Moves(Main, "done")
      /\ FlushAndTrim => Moves(Main, "done")
  BY <1>1, <1>2, GotoMoves DEF AllJoined, NotAllJoined, FlushAndTrim
<1> QED BY <1>3, <1>4, <1>5, <1>6, <1>7, <1>8, <1>9

\* A spurious wakeup moves the sleeper only.
LEMMA WakeupMoves ==
    ASSUME TypeOK, NEW t \in Thread, SpuriousWakeup(t)
    PROVE  Moves(t, "woken") /\ pc[t] = "sleep"
<1>1. "woken" \in Place
  BY DEF Place
<1> QED BY <1>1, GotoMoves DEF TypeOK, SpuriousWakeup

-----------------------------------------------------------------------------

\* A step keeps every variable in its type.
LEMMA TypeStep ==
    ASSUME Control, [Next]_vars
    PROVE  TypeOK'
<1> USE DEF Control
<1>1. ASSUME NEW w \in Worker, Pop(w) PROVE TypeOK'
  <2>1. pc' \in [Thread -> Place] /\ failed' \subseteq Faults
    BY <1>1, WorkerMoves DEF Pop, Moves, Charges, TypeOK
  <2>2. head' \in Slot /\ count' \in 0..capacity
    <3>1. count \in 1..capacity /\ head \in Slot
      BY <1>1, TypeFacts, PoolAssumption DEF Pop, IsEmpty, Slot
    <3> QED BY <1>1, <3>1, SlotsPop, PoolAssumption DEF Pop, TakeHead
  <2>3. slots' \in [Slot -> Job \cup {None}] /\ job' \in [Thread -> Job \cup {None}]
    BY <1>1 DEF Pop, TakeHead, TypeOK
  <2> QED BY <1>1, <2>1, <2>2, <2>3 DEF Pop, TypeOK, queueVars, resultVars, mainVars, vars
<1>2. ASSUME NEW w \in Worker, PopWaits(w) PROVE TypeOK'
  <2>1. pc' \in [Thread -> Place] /\ failed' \subseteq Faults
    BY <1>2, WorkerMoves DEF PopWaits, Moves, Charges, TypeOK
  <2> QED BY <1>2, <2>1 DEF PopWaits, TypeOK, queueVars, resultVars, mainVars, vars
<1>3. ASSUME NEW w \in Worker, PopDrained(w) PROVE TypeOK'
  <2>1. pc' \in [Thread -> Place] /\ failed' \subseteq Faults
    BY <1>3, WorkerMoves DEF PopDrained, Moves, Charges, TypeOK
  <2> QED BY <1>3, <2>1 DEF PopDrained, TypeOK, queueVars, resultVars, mainVars, vars
<1>4. ASSUME NEW w \in Worker, PopFails(w) PROVE TypeOK'
  <2>1. pc' \in [Thread -> Place] /\ failed' \subseteq Faults
    BY <1>4, WorkerMoves DEF PopFails, Moves, Charges, TypeOK
  <2>2. queue_error' \in [Worker -> BOOLEAN]
    BY <1>4 DEF PopFails, TypeOK
  <2> QED BY <1>4, <2>1, <2>2 DEF PopFails, TypeOK, queueVars, resultVars, mainVars, vars
<1>5. ASSUME NEW w \in Worker, Consume(w) PROVE TypeOK'
  <2>1. pc' \in [Thread -> Place] /\ failed' \subseteq Faults
    BY <1>5, WorkerMoves DEF Consume, Moves, Charges, TypeOK
  <2>2. job[w] \in Job
    BY <1>5, ThreadFacts DEF Consume, Hands, TypeOK
  <2>3. consumed' \in [Worker -> Nat] /\ duplicate_jobs' \in [Worker -> Nat]
    <3>1. consumed \in [Worker -> Nat] /\ duplicate_jobs \in [Worker -> Nat]
      BY DEF TypeOK
    <3> QED BY <1>5, <3>1 DEF Consume
  <2>4. storage' \in [Job -> {"unallocated", "allocated", "freed", "freed twice"}]
    BY <1>5 DEF Consume, Deallocate, TypeOK
  <2> QED BY <1>5, <2>1, <2>2, <2>3, <2>4 DEF Consume, TypeOK, queueVars, resultVars, mainVars, vars
<1>6. ASSUME NEW w \in Worker, WorkerCloses(w) PROVE TypeOK'
  <2>1. pc' \in [Thread -> Place] /\ failed' \subseteq Faults
    BY <1>6, WorkerMoves DEF WorkerCloses, Moves, Charges, TypeOK
  <2>2. closed' \in BOOLEAN
    BY <1>6 DEF WorkerCloses, TypeOK
  <2> QED BY <1>6, <2>1, <2>2 DEF WorkerCloses, TypeOK, queueVars, resultVars, mainVars, vars
<1>7. ASSUME NEW w \in Worker, ThreadFlush(w) PROVE TypeOK'
  <2>1. pc' \in [Thread -> Place] /\ failed' \subseteq Faults
    BY <1>7, WorkerMoves DEF ThreadFlush, Moves, Charges, TypeOK
  <2> QED BY <1>7, <2>1 DEF ThreadFlush, TypeOK, queueVars, resultVars, mainVars, vars
<1>8. ASSUME NEW t \in Thread, SpuriousWakeup(t) PROVE TypeOK'
  <2>1. pc' \in [Thread -> Place] /\ failed' \subseteq Faults
    BY <1>8, WakeupMoves DEF SpuriousWakeup, Moves, Charges, TypeOK
  <2> QED BY <1>8, <2>1 DEF SpuriousWakeup, TypeOK, queueVars, resultVars, mainVars, vars
<1>9. CASE CreateWorker
  <2>1. pc' \in [Thread -> Place] /\ failed' \subseteq Faults
    BY <1>9, MainMoves DEF CreateWorker, Moves, Charges, TypeOK
  <2>2. workers_started' \in 0..workers
    <3>1. workers_started \in 0..workers
      BY TypeFacts
    <3> QED BY <1>9, <3>1, PoolAssumption DEF CreateWorker
  <2> QED BY <1>9, <2>1, <2>2 DEF CreateWorker, TypeOK, queueVars, resultVars, mainVars, vars
<1>10. CASE CreateFails
  <2>1. pc' \in [Thread -> Place] /\ failed' \subseteq Faults
    BY <1>10, MainMoves DEF CreateFails, Moves, Charges, TypeOK
  <2>2. status' \in Status
    BY <1>10 DEF CreateFails, Status
  <2> QED BY <1>10, <2>1, <2>2 DEF CreateFails, TypeOK, queueVars, resultVars, mainVars, vars
<1>11. CASE AllStarted
  <2>1. pc' \in [Thread -> Place] /\ failed' \subseteq Faults
    BY <1>11, MainMoves DEF AllStarted, Moves, Charges, TypeOK
  <2> QED BY <1>11, <2>1 DEF AllStarted, TypeOK, queueVars, resultVars, mainVars, vars
<1>12. CASE AllocateJob
  <2>1. pc' \in [Thread -> Place] /\ failed' \subseteq Faults
    BY <1>12, MainMoves DEF AllocateJob, Moves, Charges, TypeOK
  <2>2. jobs_produced \in Job
    <3>1. jobs_produced \in 0..jobs
      BY TypeFacts
    <3> QED BY <1>12, <3>1, PoolAssumption DEF AllocateJob, Job
  <2> QED BY <1>12, <2>1, <2>2 DEF AllocateJob, TypeOK, queueVars, resultVars, mainVars, vars
<1>13. CASE AllocateFails
  <2>1. pc' \in [Thread -> Place] /\ failed' \subseteq Faults
    BY <1>13, MainMoves DEF AllocateFails, Moves, Charges, TypeOK
  <2>2. status' \in Status
    BY <1>13 DEF AllocateFails, Status
  <2> QED BY <1>13, <2>1, <2>2 DEF AllocateFails, TypeOK, queueVars, resultVars, mainVars, vars
<1>14. CASE AllProduced
  <2>1. pc' \in [Thread -> Place] /\ failed' \subseteq Faults
    BY <1>14, MainMoves DEF AllProduced, Moves, Charges, TypeOK
  <2> QED BY <1>14, <2>1 DEF AllProduced, TypeOK, queueVars, resultVars, mainVars, vars
<1>15. CASE Push
  <2>1. pc' \in [Thread -> Place] /\ failed' \subseteq Faults
    BY <1>15, MainMoves DEF Push, Moves, Charges, TypeOK
  <2>2. count' \in 0..capacity /\ (head + count) % capacity \in Slot
    <3>1. count \in 0..(capacity - 1) /\ head \in Slot
      BY <1>15, TypeFacts, PoolAssumption DEF Push, IsFull, Slot
    <3> QED BY <1>15, <3>1, SlotsPush, PoolAssumption DEF Push, AppendJob
  <2>3. job[Main] = jobs_produced /\ jobs_produced \in Job
    BY <1>15, ThreadFacts DEF Push, InPush, Hands, TypeOK
  <2>4. jobs_produced' \in 0..jobs
    BY <1>15, <2>3, PoolAssumption DEF Push, Job
  <2>5. slots' \in [Slot -> Job \cup {None}] /\ job' \in [Thread -> Job \cup {None}]
    BY <1>15, <2>2, ThreadFacts DEF Push, AppendJob, TypeOK
  <2> QED BY <1>15, <2>1, <2>2, <2>4, <2>5
          DEF Push, TypeOK, queueVars, resultVars, mainVars, vars, AppendJob
<1>16. CASE PushWaits
  <2>1. pc' \in [Thread -> Place] /\ failed' \subseteq Faults
    BY <1>16, MainMoves DEF PushWaits, Moves, Charges, TypeOK
  <2> QED BY <1>16, <2>1 DEF PushWaits, TypeOK, queueVars, resultVars, mainVars, vars
<1>17. CASE PushRejected
  <2>1. pc' \in [Thread -> Place] /\ failed' \subseteq Faults
    BY <1>17, MainMoves DEF PushRejected, Moves, Charges, TypeOK
  <2>2. storage' \in [Job -> {"unallocated", "allocated", "freed", "freed twice"}]
    BY <1>17 DEF PushRejected, KeepJob, Deallocate, TypeOK
  <2> QED BY <1>17, <2>1, <2>2
          DEF PushRejected, TypeOK, queueVars, resultVars, mainVars, vars, KeepJob, Status
<1>18. CASE MainCloses
  <2>1. pc' \in [Thread -> Place] /\ failed' \subseteq Faults
    BY <1>18, MainMoves DEF MainCloses, Moves, Charges, TypeOK
  <2>2. closed' \in BOOLEAN
    BY <1>18 DEF MainCloses, TypeOK
  <2>3. status' \in Status
    BY <1>18 DEF MainCloses, TypeOK, IfOk, Status
  <2> QED BY <1>18, <2>1, <2>2, <2>3 DEF MainCloses, TypeOK, queueVars, resultVars, mainVars, vars
<1>19. CASE Join
  <2>1. joined \in 0..workers /\ workers_started \in 0..workers
    BY TypeFacts
  <2>2. joined' \in 0..workers
    BY <1>19, <2>1, PoolAssumption DEF Join
  <2> QED BY <1>19, <2>2 DEF Join, TypeOK, queueVars, resultVars, Fails, Status
<1>20. CASE JoinFails
  <2>1. joined \in 0..workers /\ workers_started \in 0..workers
    BY TypeFacts
  <2>2. joined' \in 0..workers
    BY <1>20, <2>1, PoolAssumption DEF JoinFails
  <2> QED BY <1>20, <2>2 DEF JoinFails, TypeOK, queueVars, resultVars, Fails, Status
<1>21. CASE AllJoined
  <2>1. pc' \in [Thread -> Place] /\ failed' \subseteq Faults
    BY <1>21, MainMoves DEF AllJoined, Moves, Charges, TypeOK
  <2>2. storage' \in [Job -> {"unallocated", "allocated", "freed", "freed twice"}]
    BY <1>21 DEF AllJoined, ReleaseRemaining, Deallocate, TypeOK
  <2>3. status' \in Status
    BY <1>21 DEF AllJoined, FinalStatus, TypeOK, Status
  <2>4. slots' \in [Slot -> Job \cup {None}] /\ head' \in Slot /\ count' \in 0..capacity
    <3>1. head \in 0..(capacity - 1) /\ count \in 0..capacity
      BY TypeFacts
    <3>2. (head + count) % capacity \in 0..(capacity - 1)
      BY <3>1, PoolAssumption
    <3> QED BY <1>21, <3>2, PoolAssumption DEF AllJoined, ReleaseRemaining, Slot
  <2> QED BY <1>21, <2>1, <2>2, <2>3, <2>4
          DEF AllJoined, TypeOK, queueVars, resultVars, mainVars, vars
<1>22. CASE NotAllJoined
  <2>1. pc' \in [Thread -> Place] /\ failed' \subseteq Faults
    BY <1>22, MainMoves DEF NotAllJoined, Moves, Charges, TypeOK
  <2> QED BY <1>22, <2>1 DEF NotAllJoined, TypeOK, queueVars, resultVars, mainVars, vars
<1>23. CASE FlushAndTrim
  <2>1. pc' \in [Thread -> Place] /\ failed' \subseteq Faults
    BY <1>23, MainMoves DEF FlushAndTrim, Moves, Charges, TypeOK
  <2> QED BY <1>23, <2>1 DEF FlushAndTrim, TypeOK, queueVars, resultVars, mainVars, vars
<1>24. CASE UNCHANGED vars
  BY <1>24 DEF TypeOK, queueVars, resultVars, mainVars, vars
<1> QED
  BY <1>1, <1>2, <1>3, <1>4, <1>5, <1>6, <1>7, <1>8, <1>9, <1>10, <1>11, <1>12,
         <1>13, <1>14, <1>15, <1>16, <1>17, <1>18, <1>19, <1>20, <1>21, <1>22,
         <1>23, <1>24
  DEF Next, WorkerStep, MainStep, Finished

\* Main and workers stay in their own places, and the absent workers are those not started.
LEMMA PlacesStep ==
    ASSUME Control, [Next]_vars
    PROVE  Places'
<1> USE DEF Control
<1>1. ASSUME NEW w \in Worker, Pop(w) PROVE Places'
  <2>1. Moves(w, "work")
    BY <1>1, WorkerMoves
  <2>2. pc[w] # "absent" /\ UNCHANGED workers_started
    BY <1>1 DEF Pop, InPop, OperationFails, mainVars
  <2> QED BY <2>1, <2>2, ThreadFacts DEF Moves, Places
<1>2. ASSUME NEW w \in Worker, PopWaits(w) PROVE Places'
  <2>1. Moves(w, "sleep")
    BY <1>2, WorkerMoves
  <2>2. pc[w] # "absent" /\ UNCHANGED workers_started
    BY <1>2 DEF PopWaits, InPop, OperationFails, mainVars
  <2> QED BY <2>1, <2>2, ThreadFacts DEF Moves, Places
<1>3. ASSUME NEW w \in Worker, PopDrained(w) PROVE Places'
  <2>1. Moves(w, "flush")
    BY <1>3, WorkerMoves
  <2>2. pc[w] # "absent" /\ UNCHANGED workers_started
    BY <1>3 DEF PopDrained, InPop, OperationFails, mainVars
  <2> QED BY <2>1, <2>2, ThreadFacts DEF Moves, Places
<1>4. ASSUME NEW w \in Worker, PopFails(w) PROVE Places'
  <2>1. Moves(w, "close")
    BY <1>4, WorkerMoves
  <2>2. pc[w] # "absent" /\ UNCHANGED workers_started
    BY <1>4 DEF PopFails, InPop, OperationFails, mainVars
  <2> QED BY <2>1, <2>2, ThreadFacts DEF Moves, Places
<1>5. ASSUME NEW w \in Worker, Consume(w) PROVE Places'
  <2>1. Moves(w, "pop")
    BY <1>5, WorkerMoves
  <2>2. pc[w] # "absent" /\ UNCHANGED workers_started
    BY <1>5 DEF Consume, InPop, OperationFails, mainVars
  <2> QED BY <2>1, <2>2, ThreadFacts DEF Moves, Places
<1>6. ASSUME NEW w \in Worker, WorkerCloses(w) PROVE Places'
  <2>1. Moves(w, "flush")
    BY <1>6, WorkerMoves
  <2>2. pc[w] # "absent" /\ UNCHANGED workers_started
    BY <1>6 DEF WorkerCloses, InPop, OperationFails, mainVars
  <2> QED BY <2>1, <2>2, ThreadFacts DEF Moves, Places
<1>7. ASSUME NEW w \in Worker, ThreadFlush(w) PROVE Places'
  <2>1. Moves(w, "ended")
    BY <1>7, WorkerMoves
  <2>2. pc[w] # "absent" /\ UNCHANGED workers_started
    BY <1>7 DEF ThreadFlush, InPop, OperationFails, mainVars
  <2> QED BY <2>1, <2>2, ThreadFacts DEF Moves, Places
<1>8. ASSUME NEW t \in Thread, SpuriousWakeup(t) PROVE Places'
  <2>1. UNCHANGED workers_started
    BY <1>8 DEF SpuriousWakeup, mainVars
  <2> QED BY <1>8, <2>1, WakeupMoves, ThreadFacts DEF Moves, Places
<1>9. CASE CreateWorker
  <2> DEFINE new == workers_started + 1
  <2>1. Moves(new, "pop") /\ new \in Worker /\ workers_started' = new /\ workers_started \in Nat
    BY <1>9, MainMoves, TypeFacts DEF CreateWorker
  <2>2. pc[Main] = "create"
    BY <1>9 DEF CreateWorker
  <2>3. ASSUME NEW u \in Worker PROVE pc'[u] = "absent" <=> u > new
    <3>1. u \in Nat /\ (u > new <=> u > workers_started /\ u # new)
      BY <2>1, ThreadFacts
    <3> HIDE DEF new
    <3> QED BY <2>1, <3>1, ThreadFacts DEF Moves, Places
  <2> HIDE DEF new
  <2> QED BY <2>1, <2>2, <2>3, ThreadFacts DEF Moves, Places
<1>10. CASE CreateFails
  <2>1. Moves(Main, "close") /\ UNCHANGED workers_started
    BY <1>10, MainMoves DEF CreateFails, mainVars
  <2> QED BY <2>1, ThreadFacts DEF Moves, Places
<1>11. CASE AllStarted
  <2>1. Moves(Main, "produce") /\ UNCHANGED workers_started
    BY <1>11, MainMoves DEF AllStarted, mainVars
  <2> QED BY <2>1, ThreadFacts DEF Moves, Places
<1>12. CASE AllocateJob
  <2>1. Moves(Main, "push") /\ UNCHANGED workers_started
    BY <1>12, MainMoves DEF AllocateJob, mainVars
  <2> QED BY <2>1, ThreadFacts DEF Moves, Places
<1>13. CASE AllocateFails
  <2>1. Moves(Main, "close") /\ UNCHANGED workers_started
    BY <1>13, MainMoves DEF AllocateFails, mainVars
  <2> QED BY <2>1, ThreadFacts DEF Moves, Places
<1>14. CASE AllProduced
  <2>1. Moves(Main, "close") /\ UNCHANGED workers_started
    BY <1>14, MainMoves DEF AllProduced, mainVars
  <2> QED BY <2>1, ThreadFacts DEF Moves, Places
<1>15. CASE Push
  <2>1. Moves(Main, "produce") /\ UNCHANGED workers_started
    BY <1>15, MainMoves DEF Push, mainVars
  <2> QED BY <2>1, ThreadFacts DEF Moves, Places
<1>16. CASE PushWaits
  <2>1. Moves(Main, "sleep") /\ UNCHANGED workers_started
    BY <1>16, MainMoves DEF PushWaits, mainVars
  <2> QED BY <2>1, ThreadFacts DEF Moves, Places
<1>17. CASE PushRejected
  <2>1. Moves(Main, "close") /\ UNCHANGED workers_started
    BY <1>17, MainMoves DEF PushRejected, mainVars
  <2> QED BY <2>1, ThreadFacts DEF Moves, Places
<1>18. CASE MainCloses
  <2>1. Moves(Main, "join") /\ UNCHANGED workers_started
    BY <1>18, MainMoves DEF MainCloses, mainVars
  <2> QED BY <2>1, ThreadFacts DEF Moves, Places
<1>19. CASE Join
  BY <1>19 DEF Join, Places
<1>20. CASE JoinFails
  BY <1>20 DEF JoinFails, Places
<1>21. CASE AllJoined
  <2>1. Moves(Main, "trim") /\ UNCHANGED workers_started
    BY <1>21, MainMoves DEF AllJoined, mainVars
  <2> QED BY <2>1, ThreadFacts DEF Moves, Places
<1>22. CASE NotAllJoined
  <2>1. Moves(Main, "done") /\ UNCHANGED workers_started
    BY <1>22, MainMoves DEF NotAllJoined, mainVars
  <2> QED BY <2>1, ThreadFacts DEF Moves, Places
<1>23. CASE FlushAndTrim
  <2>1. Moves(Main, "done") /\ UNCHANGED workers_started
    BY <1>23, MainMoves DEF FlushAndTrim, mainVars
  <2> QED BY <2>1, ThreadFacts DEF Moves, Places
<1>24. CASE UNCHANGED vars
  BY <1>24 DEF Places, vars, mainVars
<1> QED
  BY <1>1, <1>2, <1>3, <1>4, <1>5, <1>6, <1>7, <1>8, <1>9, <1>10, <1>11, <1>12,
         <1>13, <1>14, <1>15, <1>16, <1>17, <1>18, <1>19, <1>20, <1>21, <1>22,
         <1>23, <1>24
  DEF Next, WorkerStep, MainStep, Finished

\* A worker has a job in hand exactly while it works on it, main while it pushes it.
LEMMA HandsStep ==
    ASSUME Control, [Next]_vars
    PROVE  Hands'
<1> USE DEF Control
<1>1. ASSUME NEW w \in Worker, Pop(w) PROVE Hands'
  <2>1. Moves(w, "work") /\ UNCHANGED jobs_produced
    BY <1>1, WorkerMoves DEF Pop, mainVars
  <2>2. pc[w] # "work" /\ job' = [job EXCEPT ![w] = slots[head]]
    BY <1>1 DEF Pop, InPop, TakeHead
  <2>3. slots[head] # None
    <3>1. count \in 1..capacity /\ head \in Slot
      BY <1>1, TypeFacts, PoolAssumption DEF Pop, IsEmpty, Slot
    <3> QED BY <3>1, SlotsPop, WindowIs DEF RingFilled
  <2>4. job \in [Thread -> Job \cup {None}]
    BY DEF TypeOK
  <2> QED BY <2>1, <2>2, <2>3, <2>4, ThreadFacts DEF Moves, Hands
<1>2. ASSUME NEW w \in Worker, PopWaits(w) PROVE Hands'
  <2>1. Moves(w, "sleep") /\ UNCHANGED jobs_produced
    BY <1>2, WorkerMoves DEF PopWaits, mainVars
  <2>2. pc[w] # "work" /\ UNCHANGED job
    BY <1>2 DEF PopWaits, InPop, OperationFails
  <2> QED BY <2>1, <2>2, ThreadFacts DEF Moves, Hands, Places
<1>3. ASSUME NEW w \in Worker, PopDrained(w) PROVE Hands'
  <2>1. Moves(w, "flush") /\ UNCHANGED jobs_produced
    BY <1>3, WorkerMoves DEF PopDrained, mainVars
  <2>2. pc[w] # "work" /\ UNCHANGED job
    BY <1>3 DEF PopDrained, InPop, OperationFails
  <2> QED BY <2>1, <2>2, ThreadFacts DEF Moves, Hands, Places
<1>4. ASSUME NEW w \in Worker, PopFails(w) PROVE Hands'
  <2>1. Moves(w, "close") /\ UNCHANGED jobs_produced
    BY <1>4, WorkerMoves DEF PopFails, mainVars
  <2>2. pc[w] # "work" /\ UNCHANGED job
    BY <1>4 DEF PopFails, InPop, OperationFails
  <2> QED BY <2>1, <2>2, ThreadFacts DEF Moves, Hands, Places
<1>5. ASSUME NEW w \in Worker, Consume(w) PROVE Hands'
  <2>1. Moves(w, "pop") /\ UNCHANGED jobs_produced
    BY <1>5, WorkerMoves DEF Consume, mainVars
  <2>2. pc[w] = "work" /\ job' = [job EXCEPT ![w] = None] /\ job \in [Thread -> Job \cup {None}]
    BY <1>5 DEF Consume, TypeOK
  <2> QED BY <2>1, <2>2, ThreadFacts DEF Moves, Hands
<1>6. ASSUME NEW w \in Worker, WorkerCloses(w) PROVE Hands'
  <2>1. Moves(w, "flush") /\ UNCHANGED jobs_produced
    BY <1>6, WorkerMoves DEF WorkerCloses, mainVars
  <2>2. pc[w] # "work" /\ UNCHANGED job
    BY <1>6 DEF WorkerCloses, InPop, OperationFails
  <2> QED BY <2>1, <2>2, ThreadFacts DEF Moves, Hands, Places
<1>7. ASSUME NEW w \in Worker, ThreadFlush(w) PROVE Hands'
  <2>1. Moves(w, "ended") /\ UNCHANGED jobs_produced
    BY <1>7, WorkerMoves DEF ThreadFlush, mainVars
  <2>2. pc[w] # "work" /\ UNCHANGED job
    BY <1>7 DEF ThreadFlush, InPop, OperationFails
  <2> QED BY <2>1, <2>2, ThreadFacts DEF Moves, Hands, Places
<1>8. ASSUME NEW t \in Thread, SpuriousWakeup(t) PROVE Hands'
  <2>1. UNCHANGED <<jobs_produced, job>>
    BY <1>8 DEF SpuriousWakeup, mainVars
  <2> QED BY <1>8, <2>1, WakeupMoves, ThreadFacts DEF Moves, Hands
<1>9. CASE CreateWorker
  <2> DEFINE new == workers_started + 1
  <2>1. Moves(new, "pop") /\ new \in Worker /\ workers_started \in Nat
    BY <1>9, MainMoves, TypeFacts DEF CreateWorker
  <2>2. UNCHANGED <<job, jobs_produced>>
    BY <1>9 DEF CreateWorker
  <2>3. new > workers_started
    BY <2>1
  <2> HIDE DEF new
  <2>4. pc[new] = "absent"
    BY <2>1, <2>3 DEF Places
  <2> QED BY <2>1, <2>2, <2>4, ThreadFacts DEF Moves, Hands
<1>10. CASE CreateFails
  <2>1. Moves(Main, "close") /\ UNCHANGED <<job, jobs_produced>>
    BY <1>10, MainMoves DEF CreateFails, mainVars
  <2>2. pc[Main] \notin {"push", "sleep", "woken"}
    BY <1>10 DEF CreateFails
  <2> QED BY <2>1, <2>2, ThreadFacts DEF Moves, Hands
<1>11. CASE AllStarted
  <2>1. Moves(Main, "produce") /\ UNCHANGED <<job, jobs_produced>>
    BY <1>11, MainMoves DEF AllStarted, mainVars
  <2>2. pc[Main] \notin {"push", "sleep", "woken"}
    BY <1>11 DEF AllStarted
  <2> QED BY <2>1, <2>2, ThreadFacts DEF Moves, Hands
<1>12. CASE AllocateJob
  <2>1. Moves(Main, "push") /\ UNCHANGED jobs_produced
    BY <1>12, MainMoves DEF AllocateJob, mainVars
  <2>2. job' = [job EXCEPT ![Main] = jobs_produced] /\ job \in [Thread -> Job \cup {None}]
    BY <1>12 DEF AllocateJob, TypeOK
  <2>3. jobs_produced \in Int
    BY TypeFacts
  <2>4. jobs_produced # None
    BY <2>3, PoolAssumption
  <2> QED BY <2>1, <2>2, <2>4, ThreadFacts DEF Moves, Hands
<1>13. CASE AllocateFails
  <2>1. Moves(Main, "close") /\ UNCHANGED <<job, jobs_produced>>
    BY <1>13, MainMoves DEF AllocateFails, mainVars
  <2>2. pc[Main] \notin {"push", "sleep", "woken"}
    BY <1>13 DEF AllocateFails
  <2> QED BY <2>1, <2>2, ThreadFacts DEF Moves, Hands
<1>14. CASE AllProduced
  <2>1. Moves(Main, "close") /\ UNCHANGED <<job, jobs_produced>>
    BY <1>14, MainMoves DEF AllProduced, mainVars
  <2>2. pc[Main] \notin {"push", "sleep", "woken"}
    BY <1>14 DEF AllProduced
  <2> QED BY <2>1, <2>2, ThreadFacts DEF Moves, Hands
<1>15. CASE Push
  <2>1. Moves(Main, "produce")
    BY <1>15, MainMoves
  <2>2. job' = [job EXCEPT ![Main] = None] /\ job \in [Thread -> Job \cup {None}]
    BY <1>15 DEF Push, AppendJob, KeepJob, TypeOK
  <2> QED BY <2>1, <2>2, ThreadFacts DEF Moves, Hands
<1>16. CASE PushWaits
  <2>1. Moves(Main, "sleep") /\ UNCHANGED <<job, jobs_produced>>
    BY <1>16, MainMoves DEF PushWaits, mainVars
  <2>2. pc[Main] \in {"push", "woken"}
    BY <1>16 DEF PushWaits, InPush
  <2> QED BY <2>1, <2>2, ThreadFacts DEF Moves, Hands
<1>17. CASE PushRejected
  <2>1. Moves(Main, "close")
    BY <1>17, MainMoves
  <2>2. job' = [job EXCEPT ![Main] = None] /\ job \in [Thread -> Job \cup {None}]
    BY <1>17 DEF PushRejected, AppendJob, KeepJob, TypeOK
  <2> QED BY <2>1, <2>2, ThreadFacts DEF Moves, Hands
<1>18. CASE MainCloses
  <2>1. Moves(Main, "join") /\ UNCHANGED <<job, jobs_produced>>
    BY <1>18, MainMoves DEF MainCloses, mainVars
  <2>2. pc[Main] \notin {"push", "sleep", "woken"}
    BY <1>18 DEF MainCloses
  <2> QED BY <2>1, <2>2, ThreadFacts DEF Moves, Hands
<1>19. CASE Join
  BY <1>19 DEF Join, Hands
<1>20. CASE JoinFails
  BY <1>20 DEF JoinFails, Hands
<1>21. CASE AllJoined
  <2>1. Moves(Main, "trim") /\ UNCHANGED <<job, jobs_produced>>
    BY <1>21, MainMoves DEF AllJoined, mainVars
  <2>2. pc[Main] \notin {"push", "sleep", "woken"}
    BY <1>21 DEF AllJoined
  <2> QED BY <2>1, <2>2, ThreadFacts DEF Moves, Hands
<1>22. CASE NotAllJoined
  <2>1. Moves(Main, "done") /\ UNCHANGED <<job, jobs_produced>>
    BY <1>22, MainMoves DEF NotAllJoined, mainVars
  <2>2. pc[Main] \notin {"push", "sleep", "woken"}
    BY <1>22 DEF NotAllJoined
  <2> QED BY <2>1, <2>2, ThreadFacts DEF Moves, Hands
<1>23. CASE FlushAndTrim
  <2>1. Moves(Main, "done") /\ UNCHANGED <<job, jobs_produced>>
    BY <1>23, MainMoves DEF FlushAndTrim, mainVars
  <2>2. pc[Main] \notin {"push", "sleep", "woken"}
    BY <1>23 DEF FlushAndTrim
  <2> QED BY <2>1, <2>2, ThreadFacts DEF Moves, Hands
<1>24. CASE UNCHANGED vars
  BY <1>24 DEF Hands, vars, mainVars
<1> QED
  BY <1>1, <1>2, <1>3, <1>4, <1>5, <1>6, <1>7, <1>8, <1>9, <1>10, <1>11, <1>12,
         <1>13, <1>14, <1>15, <1>16, <1>17, <1>18, <1>19, <1>20, <1>21, <1>22,
         <1>23, <1>24
  DEF Next, WorkerStep, MainStep, Finished

\* The steps that move a job, and no other step does.
LEMMA JobsMoveBy ==
    ASSUME [Next]_vars
    PROVE  \/ \E w \in Worker : Pop(w) \/ Consume(w)
           \/ AllocateJob \/ Push \/ PushRejected \/ AllJoined
           \/ UNCHANGED <<slots, head, count, job, storage>>
BY DEF Next, WorkerStep, MainStep, Finished, vars, queueVars, PopWaits, PopDrained, PopFails,
       WorkerCloses, ThreadFlush, SpuriousWakeup, CreateWorker, CreateFails, AllStarted,
       AllocateFails, AllProduced, PushWaits, MainCloses, Join, JoinFails, NotAllJoined,
       FlushAndTrim

\* The slots in use are those between head and head + count.
LEMMA RingStep ==
    ASSUME Control, [Next]_vars
    PROVE  RingFilled'
<1> USE DEF Control
<1>1. ASSUME NEW w \in Worker, Pop(w) PROVE RingFilled'
  <2>1. count \in 1..capacity /\ head \in Slot
    BY <1>1, TypeFacts, PoolAssumption DEF Pop, IsEmpty, Slot
  <2>2. Window' = Window \ {head} /\ head \in Window
    BY <1>1, <2>1, SlotsPop, WindowIs DEF Pop, TakeHead
  <2>3. slots' = [slots EXCEPT ![head] = None] /\ slots \in [Slot -> Job \cup {None}]
    BY <1>1 DEF Pop, TakeHead, TypeOK
  <2> QED BY <2>1, <2>2, <2>3 DEF RingFilled
<1>2. CASE Push
  <2> DEFINE tail == (head + count) % capacity
  <2>1. count \in 0..(capacity - 1) /\ head \in Slot
    BY <1>2, TypeFacts, PoolAssumption DEF Push, IsFull, Slot
  <2>2. Window' = Window \cup {tail} /\ tail \in Slot
    BY <1>2, <2>1, SlotsPush, WindowIs DEF Push, AppendJob
  <2>3. slots' = [slots EXCEPT ![tail] = job[Main]] /\ slots \in [Slot -> Job \cup {None}]
    BY <1>2 DEF Push, AppendJob, TypeOK
  <2>4. job[Main] # None
    BY <1>2 DEF Push, InPush, Hands
  <2> HIDE DEF tail
  <2> QED BY <2>2, <2>3, <2>4 DEF RingFilled
<1>3. CASE AllJoined
  <2>1. Window' = {}
    <3>1. count' = 0 /\ head' \in Slot
      BY <1>3, TypeStep DEF AllJoined, ReleaseRemaining, TypeOK
    <3> QED BY <3>1, PoolAssumption DEF Window, Offset, Slot
  <2> QED BY <1>3, <2>1 DEF AllJoined, ReleaseRemaining, RingFilled
<1>4. ASSUME UNCHANGED <<slots, head, count>> PROVE RingFilled'
  BY <1>4 DEF RingFilled, Window, Offset
<1> QED
  BY <1>1, <1>2, <1>3, <1>4, JobsMoveBy DEF Consume, AllocateJob, PushRejected, queueVars

\* What every step preserves of the threads' places, their hands and the ring.
LEMMA ControlStep ==
    ASSUME Control, [Next]_vars
    PROVE  Control'
BY TypeStep, PlacesStep, HandsStep, RingStep DEF Control

-----------------------------------------------------------------------------

Apart ==
    /\ \A i, k \in Window : slots[i] = slots[k] => i = k
    /\ \A t, u \in Held : job[t] = job[u] => t = u
    /\ \A t \in Held, i \in Window : job[t] # slots[i]

Live ==
    /\ \A t \in Held : storage[job[t]] = "allocated"
    /\ \A i \in Window : storage[slots[i]] = "allocated"

Found ==
    \A j \in Job :
        /\ storage[j] # "freed twice"
        /\ storage[j] = "allocated" =>
               (\E t \in Held : job[t] = j) \/ (\E i \in Window : slots[i] = j)

\* JobsHaveOnePlace in its parts.
LEMMA PlaceParts ==
    /\ JobsHaveOnePlace <=> RingFilled /\ Apart /\ Live /\ Found
    /\ JobsHaveOnePlace' <=> RingFilled' /\ Apart' /\ Live' /\ Found'
BY DEF JobsHaveOnePlace, RingFilled, Apart, Live, Found

\* Before the cleanup every worker that was started has ended, and nobody has a job.
LEMMA CleanupIsQuiet ==
    ASSUME Control, Joining, AllJoined
    PROVE  /\ \A w \in Worker : pc[w] = IF w <= workers_started THEN "ended" ELSE "absent"
           /\ Held = {}
<1>1. ASSUME NEW w \in Worker
      PROVE  pc[w] = IF w <= workers_started THEN "ended" ELSE "absent"
  <2>1. workers_started \in Nat /\ w \in Nat \ {0}
    BY TypeFacts DEF Control, Worker
  <2>2. IF w <= workers_started THEN w \in 1..joined ELSE w > workers_started
    BY <2>1 DEF AllJoined
  <2> QED BY <2>2 DEF AllJoined, Joining, Control, Places
<1>2. ASSUME NEW t \in Thread PROVE job[t] = None
  BY <1>1, ThreadFacts DEF AllJoined, Control, Hands
<1> QED BY <1>1, <1>2 DEF Held

\* What a consumed, a rejected and an abandoned job becomes.
LEMMA ConsumeFrees ==
    ASSUME Control, JobsHaveOnePlace, NEW w \in Worker, Consume(w)
    PROVE  /\ job[w] \in Job /\ w \in Held /\ storage[job[w]] = "allocated"
           /\ storage' = [storage EXCEPT ![job[w]] = "freed"]
<1>1. /\ job \in [Thread -> Job \cup {None}]
      /\ storage \in [Job -> {"unallocated", "allocated", "freed", "freed twice"}]
  BY DEF Control, TypeOK
<1>2. job[w] \in Job /\ w \in Held
  BY <1>1, ThreadFacts DEF Consume, Held, Control, Hands
<1>3. storage[job[w]] = "allocated"
  BY <1>2, PlaceParts DEF Live
<1> QED BY <1>1, <1>2, <1>3 DEF Consume, Deallocate

LEMMA RejectionFrees ==
    ASSUME Control, JobsHaveOnePlace, PushRejected
    PROVE  /\ job[Main] = jobs_produced /\ job[Main] \in Job /\ Main \in Held
           /\ storage[job[Main]] = "allocated"
           /\ storage' = [storage EXCEPT ![job[Main]] = "freed"]
<1>1. /\ job \in [Thread -> Job \cup {None}]
      /\ storage \in [Job -> {"unallocated", "allocated", "freed", "freed twice"}]
  BY DEF Control, TypeOK
<1>2. job[Main] \in Job /\ Main \in Held /\ job[Main] = jobs_produced
  BY <1>1, ThreadFacts DEF PushRejected, OperationFails, InPush, Held, Control, Hands
<1>3. storage[job[Main]] = "allocated"
  BY <1>2, PlaceParts DEF Live
<1> QED BY <1>1, <1>2, <1>3 DEF PushRejected, KeepJob, Deallocate

LEMMA CleanupFrees ==
    ASSUME Control, JobsHaveOnePlace, Joining, AllJoined
    PROVE  storage' = [j \in Job |-> IF storage[j] = "allocated" THEN "freed" ELSE storage[j]]
<1>1. Remaining = {slots[i] : i \in Window}
  BY RemainingIsWindow DEF Control
<1>2. ASSUME NEW j \in Job PROVE j \in Remaining <=> storage[j] = "allocated"
  <2>1. ASSUME j \in Remaining PROVE storage[j] = "allocated"
    BY <1>1, <2>1, PlaceParts DEF Live
  <2>2. ASSUME storage[j] = "allocated" PROVE j \in Remaining
    <3>1. PICK i \in Window : slots[i] = j
      BY <2>2, CleanupIsQuiet, PlaceParts DEF Found
    <3> QED BY <1>1, <3>1
  <2> QED BY <2>1, <2>2
<1> QED BY <1>2 DEF AllJoined, ReleaseRemaining, Deallocate

\* The places of a job: a hand or a slot.
LEMMA JobsStep ==
    ASSUME Control, JobsHaveOnePlace, Fresh, Joining, [Next]_vars
    PROVE  JobsHaveOnePlace'
<1>0. /\ slots \in [Slot -> Job \cup {None}] /\ job \in [Thread -> Job \cup {None}]
      /\ storage \in [Job -> {"unallocated", "allocated", "freed", "freed twice"}]
      /\ Control' /\ head \in Slot /\ Window \subseteq Slot
  BY ControlStep DEF Control, TypeOK, Window
<1>a. RingFilled /\ Apart /\ Live /\ Found
  BY PlaceParts
<1>b. /\ \A t \in Held : t \in Thread /\ job[t] \in Job
      /\ \A i \in Window : i \in Slot /\ slots[i] \in Job
  BY <1>0, <1>a DEF Held, RingFilled
<1>1. ASSUME NEW w \in Worker, Pop(w) PROVE JobsHaveOnePlace'
  <2>1. count \in 1..capacity
    BY <1>1, TypeFacts, PoolAssumption DEF Control, Pop, IsEmpty
  <2>2. Window' = Window \ {head} /\ head \in Window
    BY <1>0, <1>1, <2>1, SlotsPop, WindowIs DEF Pop, TakeHead
  <2>3. job[w] = None
    BY <1>1 DEF Pop, InPop, Control, Hands
  <2>4. /\ slots' = [slots EXCEPT ![head] = None] /\ job' = [job EXCEPT ![w] = slots[head]]
        /\ UNCHANGED storage
    BY <1>1 DEF Pop, TakeHead
  <2>5. Held' = Held \cup {w} /\ w \notin Held /\ slots[head] # None /\ w \in Thread
    BY <1>0, <2>2, <2>3, <2>4, ThreadFacts, PlaceParts DEF Held, RingFilled
  <2>6. /\ job'[w] = slots[head] /\ \A t \in Held : t # w /\ job'[t] = job[t]
        /\ \A i \in Window' : i \in Window /\ i # head /\ slots'[i] = slots[i]
    BY <1>0, <1>b, <2>2, <2>4, <2>5
  <2>7. Apart'
    BY <1>a, <1>b, <2>2, <2>4, <2>5, <2>6 DEF Apart
  <2>8. Live'
    BY <1>a, <1>b, <2>2, <2>4, <2>5, <2>6 DEF Live, Apart
  <2>9. Found'
    <3> SUFFICES ASSUME NEW j \in Job
                 PROVE  /\ storage'[j] # "freed twice"
                        /\ storage'[j] = "allocated" =>
                               \/ \E t \in Held' : job'[t] = j
                               \/ \E i \in Window' : slots'[i] = j
      BY DEF Found
    <3>1. storage'[j] # "freed twice"
      BY <1>a, <1>b, <2>2, <2>4, <2>5, <2>6 DEF Found
    <3>2. ASSUME NEW t \in Held, job[t] = j, storage'[j] = "allocated"
          PROVE  (\E u \in Held' : job'[u] = j) \/ (\E i \in Window' : slots'[i] = j)
      BY <1>a, <1>b, <2>2, <2>4, <2>5, <2>6, <3>2
    <3>3. ASSUME NEW i \in Window, slots[i] = j, storage'[j] = "allocated"
          PROVE  (\E u \in Held' : job'[u] = j) \/ (\E k \in Window' : slots'[k] = j)
      BY <1>a, <1>b, <2>2, <2>4, <2>5, <2>6, <3>3
    <3>4. CASE storage'[j] = "allocated" /\ storage[j] = "allocated"
      BY <1>a, <3>1, <3>2, <3>3, <3>4 DEF Found
    <3>5. CASE storage'[j] = "allocated" /\ storage[j] # "allocated"
      BY <1>a, <1>b, <2>2, <2>4, <2>5, <2>6, <3>5
    <3> QED BY <3>1, <3>4, <3>5
  <2> QED BY <1>0, <2>7, <2>8, <2>9, PlaceParts DEF Control
<1>2. ASSUME NEW w \in Worker, Consume(w) PROVE JobsHaveOnePlace'
  <2>1. /\ job' = [job EXCEPT ![w] = None] /\ UNCHANGED <<slots, head, count>>
        /\ w \in Held /\ w \in Thread
    BY <1>0, <1>2, ThreadFacts DEF Consume, queueVars, Held, Control, Hands
  <2>2. Window' = Window /\ Held' = Held \ {w}
    BY <1>0, <2>1 DEF Window, Offset, Held
  <2>3. storage' = [storage EXCEPT ![job[w]] = "freed"]
    BY <1>2, ConsumeFrees
  <2>4. \A t \in Held' : t \in Held /\ t # w /\ job'[t] = job[t]
    BY <1>0, <1>b, <2>1, <2>2
  <2>5. storage'[job[w]] = "freed" /\ \A j \in Job : j # job[w] => storage'[j] = storage[j]
    BY <1>0, <1>b, <2>1, <2>3
  <2>7. Apart'
    BY <1>a, <1>b, <2>1, <2>2, <2>4, <2>5 DEF Apart
  <2>8. Live'
    BY <1>a, <1>b, <2>1, <2>2, <2>4, <2>5 DEF Live, Apart
  <2>9. Found'
    <3> SUFFICES ASSUME NEW j \in Job
                 PROVE  /\ storage'[j] # "freed twice"
                        /\ storage'[j] = "allocated" =>
                               \/ \E t \in Held' : job'[t] = j
                               \/ \E i \in Window' : slots'[i] = j
      BY DEF Found
    <3>1. storage'[j] # "freed twice"
      BY <1>a, <1>b, <2>1, <2>2, <2>4, <2>5 DEF Found
    <3>2. ASSUME NEW t \in Held, job[t] = j, storage'[j] = "allocated"
          PROVE  (\E u \in Held' : job'[u] = j) \/ (\E i \in Window' : slots'[i] = j)
      BY <1>a, <1>b, <2>1, <2>2, <2>4, <2>5, <3>2
    <3>3. ASSUME NEW i \in Window, slots[i] = j, storage'[j] = "allocated"
          PROVE  (\E u \in Held' : job'[u] = j) \/ (\E k \in Window' : slots'[k] = j)
      BY <1>a, <1>b, <2>1, <2>2, <2>4, <2>5, <3>3
    <3>4. CASE storage'[j] = "allocated" /\ storage[j] = "allocated"
      BY <1>a, <3>1, <3>2, <3>3, <3>4 DEF Found
    <3>5. CASE storage'[j] = "allocated" /\ storage[j] # "allocated"
      BY <1>a, <1>b, <2>1, <2>2, <2>4, <2>5, <3>5
    <3> QED BY <3>1, <3>4, <3>5
  <2> QED BY <1>0, <2>7, <2>8, <2>9, PlaceParts DEF Control
<1>3. CASE AllocateJob
  <2>1. /\ job' = [job EXCEPT ![Main] = jobs_produced] /\ UNCHANGED <<slots, head, count>>
        /\ storage' = [storage EXCEPT ![jobs_produced] = "allocated"]
        /\ Main \in Thread /\ job[Main] = None
    BY <1>3, ThreadFacts DEF AllocateJob, queueVars, Control, Hands
  <2>2. jobs_produced \in Job
    <3>1. jobs_produced \in 0..jobs
      BY TypeFacts DEF Control
    <3> QED BY <1>3, <3>1, PoolAssumption DEF AllocateJob, Job
  <2>3. storage[jobs_produced] = "unallocated"
    BY <1>3, <2>2 DEF AllocateJob, Fresh
  <2>4. Window' = Window /\ Held' = Held \cup {Main} /\ Main \notin Held
    BY <1>0, <2>1, <2>2, ThreadFacts DEF Window, Offset, Held
  <2>5. job'[Main] = jobs_produced /\ \A t \in Held : t # Main /\ job'[t] = job[t]
    BY <1>0, <1>b, <2>1, <2>4
  <2>6. /\ storage'[jobs_produced] = "allocated"
        /\ \A j \in Job : j # jobs_produced => storage'[j] = storage[j]
    BY <1>0, <2>1, <2>2
  <2>7. Apart'
    BY <1>a, <1>b, <2>1, <2>2, <2>3, <2>4, <2>5, <2>6 DEF Apart, Live
  <2>8. Live'
    BY <1>a, <1>b, <2>1, <2>2, <2>3, <2>4, <2>5, <2>6 DEF Live, Apart
  <2>9. Found'
    <3> SUFFICES ASSUME NEW j \in Job
                 PROVE  /\ storage'[j] # "freed twice"
                        /\ storage'[j] = "allocated" =>
                               \/ \E t \in Held' : job'[t] = j
                               \/ \E i \in Window' : slots'[i] = j
      BY DEF Found
    <3>1. storage'[j] # "freed twice"
      BY <1>a, <1>b, <2>1, <2>2, <2>3, <2>4, <2>5, <2>6 DEF Found
    <3>2. ASSUME NEW t \in Held, job[t] = j, storage'[j] = "allocated"
          PROVE  (\E u \in Held' : job'[u] = j) \/ (\E i \in Window' : slots'[i] = j)
      BY <1>a, <1>b, <2>1, <2>2, <2>3, <2>4, <2>5, <2>6, <3>2
    <3>3. ASSUME NEW i \in Window, slots[i] = j, storage'[j] = "allocated"
          PROVE  (\E u \in Held' : job'[u] = j) \/ (\E k \in Window' : slots'[k] = j)
      BY <1>a, <1>b, <2>1, <2>2, <2>3, <2>4, <2>5, <2>6, <3>3
    <3>4. CASE storage'[j] = "allocated" /\ storage[j] = "allocated"
      BY <1>a, <3>1, <3>2, <3>3, <3>4 DEF Found
    <3>5. CASE storage'[j] = "allocated" /\ storage[j] # "allocated"
      BY <1>a, <1>b, <2>1, <2>2, <2>3, <2>4, <2>5, <2>6, <3>5
    <3> QED BY <3>1, <3>4, <3>5
  <2> QED BY <1>0, <2>7, <2>8, <2>9, PlaceParts DEF Control
<1>4. CASE Push
  <2> DEFINE tail == (head + count) % capacity
  <2>1. count \in 0..(capacity - 1)
    BY <1>4, TypeFacts, PoolAssumption DEF Push, IsFull, Control
  <2>2. Window' = Window \cup {tail} /\ tail \in Slot /\ tail \notin Window
    BY <1>0, <1>4, <2>1, SlotsPush, WindowIs DEF Push, AppendJob
  <2>3. /\ slots' = [slots EXCEPT ![tail] = job[Main]] /\ job' = [job EXCEPT ![Main] = None]
        /\ UNCHANGED storage
    BY <1>4 DEF Push, AppendJob
  <2>4. Held' = Held \ {Main} /\ Main \in Held /\ Main \in Thread
    BY <1>0, <1>4, <2>3, ThreadFacts DEF Push, InPush, Held, Control, Hands
  <2> HIDE DEF tail
  <2>5. \A t \in Held' : t \in Held /\ t # Main /\ job'[t] = job[t]
    BY <1>0, <1>b, <2>3, <2>4
  <2>6. slots'[tail] = job[Main] /\ \A i \in Window : i # tail /\ slots'[i] = slots[i]
    BY <1>0, <1>b, <2>2, <2>3
  <2>7. Apart'
    BY <1>a, <1>b, <2>2, <2>3, <2>4, <2>5, <2>6 DEF Apart
  <2>8. Live'
    BY <1>a, <1>b, <2>2, <2>3, <2>4, <2>5, <2>6 DEF Live, Apart
  <2>9. Found'
    <3> SUFFICES ASSUME NEW j \in Job
                 PROVE  /\ storage'[j] # "freed twice"
                        /\ storage'[j] = "allocated" =>
                               \/ \E t \in Held' : job'[t] = j
                               \/ \E i \in Window' : slots'[i] = j
      BY DEF Found
    <3>1. storage'[j] # "freed twice"
      BY <1>a, <1>b, <2>2, <2>3, <2>4, <2>5, <2>6 DEF Found
    <3>2. ASSUME NEW t \in Held, job[t] = j, storage'[j] = "allocated"
          PROVE  (\E u \in Held' : job'[u] = j) \/ (\E i \in Window' : slots'[i] = j)
      BY <1>a, <1>b, <2>2, <2>3, <2>4, <2>5, <2>6, <3>2
    <3>3. ASSUME NEW i \in Window, slots[i] = j, storage'[j] = "allocated"
          PROVE  (\E u \in Held' : job'[u] = j) \/ (\E k \in Window' : slots'[k] = j)
      BY <1>a, <1>b, <2>2, <2>3, <2>4, <2>5, <2>6, <3>3
    <3>4. CASE storage'[j] = "allocated" /\ storage[j] = "allocated"
      BY <1>a, <3>1, <3>2, <3>3, <3>4 DEF Found
    <3>5. CASE storage'[j] = "allocated" /\ storage[j] # "allocated"
      BY <1>a, <1>b, <2>2, <2>3, <2>4, <2>5, <2>6, <3>5
    <3> QED BY <3>1, <3>4, <3>5
  <2> QED BY <1>0, <2>7, <2>8, <2>9, PlaceParts DEF Control
<1>5. CASE PushRejected
  <2>1. /\ job' = [job EXCEPT ![Main] = None] /\ UNCHANGED <<slots, head, count>>
        /\ Main \in Held /\ Main \in Thread
    BY <1>0, <1>5, ThreadFacts
    DEF PushRejected, OperationFails, InPush, KeepJob, queueVars, Held, Control, Hands
  <2>2. Window' = Window /\ Held' = Held \ {Main}
    BY <1>0, <2>1 DEF Window, Offset, Held
  <2>3. storage' = [storage EXCEPT ![job[Main]] = "freed"]
    BY <1>5, RejectionFrees
  <2>4. \A t \in Held' : t \in Held /\ t # Main /\ job'[t] = job[t]
    BY <1>0, <1>b, <2>1, <2>2
  <2>5. storage'[job[Main]] = "freed" /\ \A j \in Job : j # job[Main] => storage'[j] = storage[j]
    BY <1>0, <1>b, <2>1, <2>3
  <2>7. Apart'
    BY <1>a, <1>b, <2>1, <2>2, <2>4, <2>5 DEF Apart
  <2>8. Live'
    BY <1>a, <1>b, <2>1, <2>2, <2>4, <2>5 DEF Live, Apart
  <2>9. Found'
    <3> SUFFICES ASSUME NEW j \in Job
                 PROVE  /\ storage'[j] # "freed twice"
                        /\ storage'[j] = "allocated" =>
                               \/ \E t \in Held' : job'[t] = j
                               \/ \E i \in Window' : slots'[i] = j
      BY DEF Found
    <3>1. storage'[j] # "freed twice"
      BY <1>a, <1>b, <2>1, <2>2, <2>4, <2>5 DEF Found
    <3>2. ASSUME NEW t \in Held, job[t] = j, storage'[j] = "allocated"
          PROVE  (\E u \in Held' : job'[u] = j) \/ (\E i \in Window' : slots'[i] = j)
      BY <1>a, <1>b, <2>1, <2>2, <2>4, <2>5, <3>2
    <3>3. ASSUME NEW i \in Window, slots[i] = j, storage'[j] = "allocated"
          PROVE  (\E u \in Held' : job'[u] = j) \/ (\E k \in Window' : slots'[k] = j)
      BY <1>a, <1>b, <2>1, <2>2, <2>4, <2>5, <3>3
    <3>4. CASE storage'[j] = "allocated" /\ storage[j] = "allocated"
      BY <1>a, <3>1, <3>2, <3>3, <3>4 DEF Found
    <3>5. CASE storage'[j] = "allocated" /\ storage[j] # "allocated"
      BY <1>a, <1>b, <2>1, <2>2, <2>4, <2>5, <3>5
    <3> QED BY <3>1, <3>4, <3>5
  <2> QED BY <1>0, <2>7, <2>8, <2>9, PlaceParts DEF Control
<1>6. CASE AllJoined
  <2>1. Held = {} /\ UNCHANGED job
    BY <1>6, CleanupIsQuiet DEF AllJoined
  <2>2. Window' = {}
    <3>1. count' = 0 /\ head' \in Slot
      BY <1>0, <1>6 DEF AllJoined, ReleaseRemaining, Control, TypeOK
    <3> QED BY <3>1, PoolAssumption DEF Window, Offset, Slot
  <2>3. storage' = [j \in Job |-> IF storage[j] = "allocated" THEN "freed" ELSE storage[j]]
    BY <1>6, CleanupFrees
  <2>4. Held' = {} /\ slots' = [i \in Slot |-> None]
    BY <1>6, <2>1 DEF AllJoined, ReleaseRemaining, Held
  <2> QED BY <1>0, <2>2, <2>3, <2>4 DEF JobsHaveOnePlace
<1>7. ASSUME UNCHANGED <<slots, head, count, job, storage>> PROVE JobsHaveOnePlace'
  BY <1>7 DEF JobsHaveOnePlace, Held, Window, Offset
<1> QED BY <1>1, <1>2, <1>3, <1>4, <1>5, <1>6, <1>7, JobsMoveBy

\* The jobs from jobs_produced on have not been allocated, but for the one main pushes.
LEMMA FreshStep ==
    ASSUME Control, JobsHaveOnePlace, Fresh, Joining, [Next]_vars
    PROVE  Fresh'
<1>0. /\ storage \in [Job -> {"unallocated", "allocated", "freed", "freed twice"}]
      /\ Job \subseteq Int /\ jobs_produced \in Int
  <2>1. storage \in [Job -> {"unallocated", "allocated", "freed", "freed twice"}]
    BY DEF Control, TypeOK
  <2>2. Job \subseteq Int
    BY DEF Job
  <2>3. jobs_produced \in Int
    BY TypeFacts DEF Control
  <2> QED BY <2>1, <2>2, <2>3
<1>1. ASSUME UNCHANGED <<storage, jobs_produced>>,
             pc'[Main] \in {"create", "produce"} => pc[Main] \in {"create", "produce"}
      PROVE  Fresh'
  BY <1>1 DEF Fresh
<1>2. ASSUME NEW w \in Worker, Consume(w) PROVE Fresh'
  <2>1. Moves(w, "pop") /\ w # Main /\ UNCHANGED jobs_produced
    BY <1>2, WorkerMoves, ThreadFacts DEF Control, Consume, mainVars
  <2>2. pc'[Main] \in {"create", "produce"} => pc[Main] \in {"create", "produce"}
    BY <2>1, ThreadFacts DEF Moves
  <2> QED BY <1>0, <1>2, <2>1, <2>2, ConsumeFrees DEF Fresh
<1>3. CASE AllocateJob
  <2>1. pc'[Main] = "push" /\ UNCHANGED jobs_produced
        /\ storage' = [storage EXCEPT ![jobs_produced] = "allocated"]
    BY <1>3, MainMoves DEF Control, AllocateJob, mainVars, Moves
  <2> QED BY <1>0, <2>1 DEF Fresh
<1>4. CASE Push
  <2>1. jobs_produced' = jobs_produced + 1 /\ UNCHANGED storage
    BY <1>4 DEF Push
  <2>2. Main \in Held /\ job[Main] = jobs_produced
    BY <1>4, ThreadFacts DEF Push, InPush, Control, Hands, Held
  <2>3. storage[jobs_produced] = "allocated"
    BY <2>2, PlaceParts DEF Live
  <2>4. ASSUME NEW j \in Job
        PROVE  /\ j < jobs_produced' <=> j < jobs_produced \/ j = jobs_produced
               /\ j > jobs_produced' => j > jobs_produced
               /\ j = jobs_produced' => j > jobs_produced
    <3>1. j \in Int /\ jobs_produced \in Int
      BY <1>0
    <3>2. jobs_produced' = jobs_produced + 1
      BY <2>1
    <3> QED BY <3>1, <3>2
  <2> QED BY <2>1, <2>3, <2>4 DEF Fresh
<1>5. CASE PushRejected
  <2>1. pc'[Main] = "close" /\ UNCHANGED jobs_produced
    BY <1>5, MainMoves DEF Control, PushRejected, Moves
  <2> QED BY <1>0, <1>5, <2>1, RejectionFrees DEF Fresh
<1>6. CASE AllJoined
  <2>1. pc'[Main] = "trim" /\ UNCHANGED jobs_produced
    BY <1>6, MainMoves DEF Control, AllJoined, Moves
  <2> QED BY <1>0, <1>6, <2>1, CleanupFrees DEF Fresh
<1>7. ASSUME NEW w \in Worker,
             \/ Pop(w) \/ PopWaits(w) \/ PopDrained(w) \/ PopFails(w)
             \/ WorkerCloses(w) \/ ThreadFlush(w)
      PROVE  Fresh'
  <2>1. pc'[Main] \in {"create", "produce"} => pc[Main] \in {"create", "produce"}
    BY <1>7, WorkerMoves, ThreadFacts DEF Control, Moves
  <2>2. UNCHANGED <<storage, jobs_produced>>
    BY <1>7 DEF Pop, PopWaits, PopDrained, PopFails, WorkerCloses, ThreadFlush, mainVars
  <2> QED BY <1>1, <2>1, <2>2
<1>8. ASSUME NEW t \in Thread, SpuriousWakeup(t) PROVE Fresh'
  <2>1. pc'[Main] \in {"create", "produce"} => pc[Main] \in {"create", "produce"}
    BY <1>8, WakeupMoves, ThreadFacts DEF Control, Moves
  <2>2. UNCHANGED <<storage, jobs_produced>>
    BY <1>8 DEF SpuriousWakeup, mainVars
  <2> QED BY <1>1, <2>1, <2>2
<1>9. CASE \/ CreateWorker \/ CreateFails \/ AllStarted \/ AllocateFails \/ AllProduced
           \/ PushWaits \/ MainCloses \/ Join \/ JoinFails \/ NotAllJoined \/ FlushAndTrim
  <2>1. pc'[Main] \in {"create", "produce"} => pc[Main] \in {"create", "produce"}
    BY <1>9, MainMoves, ThreadFacts DEF Control, Moves, CreateWorker, AllStarted, Join, JoinFails
  <2>2. UNCHANGED <<storage, jobs_produced>>
    BY <1>9 DEF CreateWorker, CreateFails, AllStarted, AllocateFails, AllProduced, PushWaits,
                MainCloses, Join, JoinFails, NotAllJoined, FlushAndTrim, mainVars
  <2> QED BY <1>1, <2>1, <2>2
<1>10. CASE UNCHANGED vars
  BY <1>1, <1>10 DEF vars, mainVars
<1> QED
  BY <1>2, <1>3, <1>4, <1>5, <1>6, <1>7, <1>8, <1>9, <1>10
  DEF Next, WorkerStep, MainStep, Finished

\* The joined workers have ended, and the cleanup leaves no job behind.
LEMMA JoiningStep ==
    ASSUME Control, JobsHaveOnePlace, Joining, [Next]_vars
    PROVE  Joining'
<1> DEFINE Same == /\ UNCHANGED <<joined, workers_started, all_joined>>
                   /\ \/ pc'[Main] = pc[Main]
                      \/ {pc[Main], pc'[Main]} \cap {"join", "trim", "done"} = {}
           Ended == \A w \in Worker : pc[w] = "ended" => pc'[w] = "ended"
<1>0. joined \in 0..workers /\ workers_started \in 0..workers /\ 1..joined \subseteq Worker
  BY TypeFacts, PoolAssumption DEF Control, Worker
<1>1. ASSUME Same, Ended, Cleaned => UNCHANGED <<count, storage>> PROVE Joining'
  <2>1. (Producing \/ pc[Main] = "close")' => Producing \/ pc[Main] = "close"
    BY <1>1, ControlStep DEF Control, Places, Producing
  <2>2. Cleaned' <=> Cleaned
    BY <1>1 DEF Cleaned
  <2> QED BY <1>0, <1>1, <2>1, <2>2 DEF Joining, Cleaned
<1>2. ASSUME NEW w \in Worker, WorkerStep(w) PROVE Joining'
  <2>1. Same
    BY <1>2, WorkerMoves, ThreadFacts
    DEF WorkerStep, Control, Moves, Pop, PopWaits, PopDrained, PopFails, Consume, WorkerCloses,
        ThreadFlush, mainVars
  <2>2. Ended /\ pc[w] \notin {"absent", "ended"}
    BY <1>2, WorkerMoves, ThreadFacts
    DEF WorkerStep, Control, Moves, Pop, PopWaits, PopDrained, PopFails, Consume, WorkerCloses,
        ThreadFlush, InPop, OperationFails
  <2>3. ~Cleaned
    <3>1. w \in Nat /\ workers_started \in Nat /\ (w <= workers_started => w \in 1..workers_started)
      BY <1>0 DEF Worker
    <3> QED BY <2>2, <3>1 DEF Cleaned, Joining, Control, Places
  <2> QED BY <1>1, <2>1, <2>2, <2>3
<1>3. ASSUME NEW t \in Thread, SpuriousWakeup(t) PROVE Joining'
  <2>1. Same /\ Ended /\ UNCHANGED <<count, storage>>
    BY <1>3, WakeupMoves, ThreadFacts
    DEF Control, Moves, SpuriousWakeup, mainVars, queueVars
  <2> QED BY <1>1, <2>1
<1>4. CASE \/ CreateFails \/ AllStarted \/ AllocateJob \/ AllocateFails \/ AllProduced
           \/ Push \/ PushWaits \/ PushRejected
  <2>1. UNCHANGED <<joined, workers_started, all_joined>>
    BY <1>4 DEF CreateFails, AllStarted, AllocateJob, AllocateFails, AllProduced, Push,
                PushWaits, PushRejected, mainVars
  <2>2. pc'[Main] \notin {"join", "trim", "done"} /\ Ended
    BY <1>4, MainMoves, ThreadFacts DEF Control, Moves
  <2>3. pc[Main] \notin {"join", "trim", "done"}
    BY <1>4 DEF CreateFails, AllStarted, AllocateJob, AllocateFails, AllProduced, Push,
                PushWaits, PushRejected, InPush, OperationFails
  <2>4. ~Cleaned
    BY <2>3 DEF Cleaned
  <2> QED BY <1>1, <2>1, <2>2, <2>3, <2>4
<1>5. CASE CreateWorker
  <2>1. /\ Moves(workers_started + 1, "pop") /\ workers_started + 1 \in Worker
        /\ workers_started' = workers_started + 1 /\ UNCHANGED <<joined, all_joined>>
        /\ pc[Main] = "create"
    BY <1>5, MainMoves DEF Control, CreateWorker
  <2>2. pc'[Main] = "create"
    BY <2>1, ThreadFacts DEF Moves
  <2>3. joined = 0 /\ all_joined
    BY <2>1 DEF Joining, Producing
  <2>4. joined' <= workers_started'
    BY <1>0, <2>1, <2>3
  <2> QED BY <2>1, <2>2, <2>3, <2>4 DEF Joining, Producing, Cleaned
<1>6. CASE MainCloses
  <2>1. pc'[Main] = "join" /\ UNCHANGED <<joined, workers_started, all_joined>>
        /\ pc[Main] = "close"
    BY <1>6, MainMoves DEF Control, Moves, MainCloses
  <2>2. joined = 0 /\ 1..joined = {}
    BY <2>1 DEF Joining
  <2> QED BY <2>1, <2>2 DEF Joining, Producing, Cleaned
<1>7. CASE Join \/ JoinFails
  <2>1. /\ joined' = joined + 1 /\ UNCHANGED <<pc, workers_started>> /\ pc[Main] = "join"
        /\ all_joined' => all_joined /\ pc[joined + 1] = "ended"
        /\ joined < workers_started
    BY <1>7 DEF Join, JoinFails
  <2>2. joined' <= workers_started' /\ 1..joined' = 1..joined \cup {joined + 1}
    BY <1>0, <2>1
  <2> QED BY <2>1, <2>2 DEF Joining, Producing, Cleaned
<1>8. CASE AllJoined
  <2>1. /\ pc'[Main] = "trim" /\ count' = 0
        /\ UNCHANGED <<joined, workers_started, all_joined>>
        /\ all_joined /\ joined = workers_started
    BY <1>8, MainMoves DEF Control, Moves, AllJoined, ReleaseRemaining
  <2>2. \A j \in Job : storage'[j] \in {"unallocated", "freed"}
    <3>1. storage \in [Job -> {"unallocated", "allocated", "freed", "freed twice"}]
      BY DEF Control, TypeOK
    <3>2. \A j \in Job : storage[j] # "freed twice"
      BY PlaceParts DEF Found
    <3> QED BY <1>8, <3>1, <3>2, CleanupFrees
  <2>3. Ended
    BY <1>8, MainMoves, ThreadFacts DEF Control, Moves
  <2> QED BY <1>0, <2>1, <2>2, <2>3 DEF Joining, Producing, Cleaned
<1>9. CASE NotAllJoined
  <2>1. /\ pc'[Main] = "done" /\ ~all_joined /\ joined = workers_started
        /\ UNCHANGED <<joined, workers_started, all_joined>>
    BY <1>9, MainMoves DEF Control, Moves, NotAllJoined, mainVars
  <2> QED BY <2>1 DEF Joining, Producing, Cleaned
<1>10. CASE FlushAndTrim
  <2>1. /\ pc[Main] = "trim" /\ pc'[Main] = "done"
        /\ UNCHANGED <<joined, workers_started, all_joined, count, storage>>
    BY <1>10, MainMoves DEF Control, Moves, FlushAndTrim, mainVars, queueVars
  <2>2. Ended
    BY <1>10, MainMoves, ThreadFacts DEF Control, Moves
  <2> QED BY <1>0, <2>1, <2>2 DEF Joining, Producing, Cleaned
<1>11. CASE UNCHANGED vars
  BY <1>1, <1>11 DEF vars, mainVars, queueVars
<1> QED
  BY <1>2, <1>3, <1>4, <1>5, <1>6, <1>7, <1>8, <1>9, <1>10, <1>11 DEF Next, MainStep, Finished

\* A job that was accepted has a number below jobs_produced.
LEMMA AcceptedStep ==
    ASSUME Control, JobsHaveOnePlace, Accepted, [Next]_vars
    PROVE  Accepted'
<1>0. /\ slots \in [Slot -> Job \cup {None}] /\ job \in [Thread -> Job \cup {None}]
      /\ head \in Slot /\ Window \subseteq Slot /\ Window' \subseteq Slot
  BY DEF Control, TypeOK, Window
<1>1. jobs_produced \in Int /\ Job \subseteq Int
  <2>1. Job \subseteq Int
    BY DEF Job
  <2> QED BY <2>1, TypeFacts DEF Control
<1>2. ASSUME NEW w \in Worker, Pop(w) PROVE Accepted'
  <2>1. count \in 1..capacity
    BY <1>2, TypeFacts, PoolAssumption DEF Control, Pop, IsEmpty
  <2>2. Window' = Window \ {head} /\ head \in Window
    BY <1>0, <1>2, <2>1, SlotsPop, WindowIs DEF Pop, TakeHead
  <2>3. /\ slots' = [slots EXCEPT ![head] = None] /\ job' = [job EXCEPT ![w] = slots[head]]
        /\ UNCHANGED jobs_produced
    BY <1>2 DEF Pop, TakeHead, mainVars
  <2> QED BY <1>0, <2>2, <2>3, ThreadFacts DEF Accepted
<1>3. CASE Push
  <2> DEFINE tail == (head + count) % capacity
  <2>1. count \in 0..(capacity - 1)
    BY <1>3, TypeFacts, PoolAssumption DEF Push, IsFull, Control
  <2>2. Window' = Window \cup {tail} /\ tail \in Slot
    BY <1>0, <1>3, <2>1, SlotsPush, WindowIs DEF Push, AppendJob
  <2>3. /\ slots' = [slots EXCEPT ![tail] = job[Main]] /\ job' = [job EXCEPT ![Main] = None]
        /\ jobs_produced' = jobs_produced + 1
    BY <1>3 DEF Push, AppendJob
  <2>4. job[Main] = jobs_produced
    BY <1>3 DEF Push, InPush, Control, Hands
  <2>5. ASSUME NEW j \in Job, j < jobs_produced \/ j = jobs_produced PROVE j < jobs_produced'
    <3>1. j \in Int /\ jobs_produced \in Int
      BY <1>1
    <3> QED BY <2>3, <2>5, <3>1
  <2>6. ASSUME NEW w \in Worker, job'[w] # None PROVE job'[w] < jobs_produced'
    BY <1>0, <2>3, <2>5, <2>6, ThreadFacts DEF Accepted
  <2>7. ASSUME NEW i \in Window' PROVE slots'[i] < jobs_produced'
    <3> HIDE DEF tail
    <3>1. job[Main] \in Job
      BY <1>0, <2>4, <1>3, ThreadFacts DEF Push, InPush, Control, Hands
    <3>2. CASE i = tail
      BY <1>0, <2>2, <2>3, <2>4, <2>5, <3>1, <3>2
    <3>3. CASE i \in Window /\ i # tail
      <4>1. slots[i] \in Job
        BY <1>0, <3>3, PlaceParts DEF RingFilled
      <4> QED BY <1>0, <2>3, <2>5, <3>3, <4>1 DEF Accepted
    <3> QED BY <2>2, <3>2, <3>3
  <2> QED BY <2>6, <2>7 DEF Accepted
<1>4. ASSUME NEW w \in Worker, Consume(w) PROVE Accepted'
  <2>1. /\ job' = [job EXCEPT ![w] = None] /\ UNCHANGED <<slots, head, count, jobs_produced>>
    BY <1>4 DEF Consume, queueVars, mainVars
  <2> QED BY <1>0, <2>1, ThreadFacts DEF Accepted, Window, Offset
<1>5. CASE AllocateJob \/ PushRejected
  <2>1. /\ UNCHANGED <<slots, head, count, jobs_produced>>
        /\ \E j : job' = [job EXCEPT ![Main] = j]
    BY <1>5 DEF AllocateJob, PushRejected, KeepJob, queueVars, mainVars
  <2> QED BY <1>0, <2>1, ThreadFacts DEF Accepted, Window, Offset
<1>6. CASE AllJoined
  <2>1. Window' = {}
    <3>1. count' = 0 /\ head' \in Slot
      BY <1>6, ControlStep DEF AllJoined, ReleaseRemaining, Control, TypeOK
    <3> QED BY <3>1, PoolAssumption DEF Window, Offset, Slot
  <2> QED BY <1>6, <2>1 DEF AllJoined, Accepted
<1>7. ASSUME UNCHANGED <<slots, head, count, job, storage>>, ~Push, ~AllJoined PROVE Accepted'
  <2>1. UNCHANGED jobs_produced
    BY <1>7 DEF Next, WorkerStep, MainStep, Finished, vars, mainVars, Pop, PopWaits, PopDrained,
       PopFails, Consume, WorkerCloses, ThreadFlush, SpuriousWakeup, CreateWorker, CreateFails,
       AllStarted, AllocateJob, AllocateFails, AllProduced, PushWaits, PushRejected, MainCloses,
       Join, JoinFails, NotAllJoined, FlushAndTrim
  <2> QED BY <1>7, <2>1 DEF Accepted, Window, Offset
<1> QED BY <1>2, <1>3, <1>4, <1>5, <1>6, <1>7, JobsMoveBy

\* After the cleanup only main moves, and nothing else changes.
LEMMA AfterCleanup ==
    ASSUME Control, Joining, Cleaned, [Next]_vars
    PROVE  /\ Cleaned'
           /\ UNCHANGED <<queueVars, job, resultVars, storage, mainVars, failed>>
<1>1. ASSUME NEW w \in Worker PROVE pc[w] \in {"ended", "absent"}
  <2>1. workers_started \in Nat /\ w \in Nat \ {0}
    BY TypeFacts DEF Control, Worker
  <2>2. w \in 1..joined \/ w > workers_started
    BY <2>1 DEF Joining, Cleaned
  <2> QED BY <2>2 DEF Joining, Cleaned, Control, Places
<1>2. pc[Main] \in {"trim", "done"}
  BY DEF Cleaned
<1>3. ASSUME NEW w \in Worker PROVE ~WorkerStep(w) /\ ~SpuriousWakeup(w)
  BY <1>1 DEF WorkerStep, Pop, PopWaits, PopDrained, PopFails, Consume, WorkerCloses,
              ThreadFlush, InPop, OperationFails, SpuriousWakeup
<1>4. CASE FlushAndTrim
  <2>1. pc'[Main] = "done"
    BY <1>4, MainMoves DEF Control, Moves
  <2> QED BY <1>4, <2>1 DEF FlushAndTrim, Cleaned, mainVars
<1>5. CASE UNCHANGED vars
  BY <1>5 DEF vars, mainVars, Cleaned
<1>6. ~SpuriousWakeup(Main) /\ (MainStep => FlushAndTrim)
  BY <1>2 DEF MainStep, SpuriousWakeup, CreateWorker, CreateFails, AllStarted, AllocateJob,
       AllocateFails, AllProduced, Push, PushWaits, PushRejected, MainCloses, Join, JoinFails,
       AllJoined, NotAllJoined, InPush, OperationFails
<1> QED BY <1>3, <1>4, <1>5, <1>6, ThreadFacts DEF Next, Finished

-----------------------------------------------------------------------------

\* One more for one worker is one more in all.
LEMMA TotalIncrement ==
    ASSUME NEW N \in Nat, NEW f \in [1..N -> Nat], NEW w \in 1..N, NEW n \in w..N
    PROVE  Total([f EXCEPT ![w] = @ + 1], n) = Total(f, n) + 1
<1>1. f[w] \in Nat /\ f[w] + 1 \in Nat
  OBVIOUS
<1>2. Total([f EXCEPT ![w] = f[w] + 1], n) = Total(f, n) - f[w] + (f[w] + 1)
  BY <1>1, TotalUpdate
<1>3. Total(f, n) \in Nat
  BY TotalType, n \in 0..N
<1> QED BY <1>1, <1>2, <1>3

\* The marks in seen[] and the workers' counts agree with the jobs that were freed.
LEMMA MarkedStep ==
    ASSUME Control, JobsHaveOnePlace, Fresh, Accepted, Joining, Marked, [Next]_vars
    PROVE  Marked'
<1>0. /\ storage \in [Job -> {"unallocated", "allocated", "freed", "freed twice"}]
      /\ seen \subseteq Job /\ consumed \in [Worker -> Nat] /\ duplicate_jobs \in [Worker -> Nat]
  BY DEF Control, TypeOK
<1>1. jobs_produced \in Int /\ Job \subseteq Int /\ workers_started \in Nat
      /\ workers_started <= workers
  <2>1. Job \subseteq Int
    BY DEF Job
  <2> QED BY <2>1, TypeFacts, PoolAssumption DEF Control
<1>2. CASE Cleaned
  BY <1>2, AfterCleanup DEF Marked, resultVars, mainVars
<1>3. ASSUME ~Cleaned, UNCHANGED <<seen, consumed, duplicate_jobs, storage, jobs_produced,
                                   workers_started>>
      PROVE  Marked'
  BY <1>3 DEF Marked
<1>4. ASSUME ~Cleaned, NEW w \in Worker, Consume(w) PROVE Marked'
  <2> DEFINE j == job[w]
  <2>1. /\ j \in Job /\ storage[j] = "allocated" /\ storage' = [storage EXCEPT ![j] = "freed"]
    BY <1>4, ConsumeFrees
  <2>2. j < jobs_produced
    BY <1>4, ConsumeFrees DEF Accepted, Held
  <2>3. /\ seen' = seen \cup {j} /\ consumed' = [consumed EXCEPT ![w] = @ + 1]
        /\ duplicate_jobs' = [duplicate_jobs EXCEPT ![w] = IF j \in seen THEN @ + 1 ELSE @]
        /\ UNCHANGED <<jobs_produced, workers_started>>
    BY <1>4 DEF Consume, mainVars
  <2>4. j \notin seen
    BY <2>1 DEF Marked
  <2>5. Cardinality(seen') = Cardinality(seen) + 1
    <3>1. IsFiniteSet(Job)
      BY FS_Interval, PoolAssumption DEF Job
    <3>2. IsFiniteSet(seen)
      BY <1>0, <3>1, FS_Subset
    <3> QED BY <2>3, <2>4, <3>2, FS_AddElement
  <2>6. w <= workers_started
    <3>1. pc[w] # "absent" /\ w \in Int
      BY <1>4 DEF Consume, Worker
    <3> QED BY <1>1, <3>1 DEF Control, Places
  <2>7. Total(consumed', workers_started') = Total(consumed, workers_started) + 1
    <3>1. workers \in Nat /\ w \in 1..workers /\ workers_started \in w..workers
      BY <1>1, <2>6, PoolAssumption DEF Worker
    <3> QED BY <1>0, <2>3, <3>1, TotalIncrement DEF Worker
  <2>8. \A u \in Worker : u > workers_started' => consumed'[u] = 0
    <3> SUFFICES ASSUME NEW u \in Worker, u > workers_started PROVE consumed'[u] = 0
      BY <2>3
    <3>1. u # w
      BY <1>1, <2>6 DEF Worker
    <3> QED BY <1>0, <2>3, <3>1 DEF Marked
  <2>9. \A u \in Worker : duplicate_jobs'[u] = 0
    BY <1>0, <2>3, <2>4 DEF Marked
  <2> HIDE DEF j
  <2>10. \A k \in seen' : storage'[k] = "freed" /\ k < jobs_produced'
    BY <1>0, <2>1, <2>2, <2>3 DEF Marked
  <2>11. \A k \in Job : k < jobs_produced' /\ storage'[k] = "freed" => k \in seen'
    BY <1>0, <1>4, <2>1, <2>3 DEF Marked
  <2> QED BY <2>5, <2>7, <2>8, <2>9, <2>10, <2>11 DEF Marked
<1>5. CASE ~Cleaned /\ CreateWorker
  <2>1. /\ workers_started' = workers_started + 1 /\ workers_started + 1 \in Worker
        /\ UNCHANGED <<seen, consumed, duplicate_jobs, storage, jobs_produced>>
    BY <1>5, MainMoves DEF Control, CreateWorker, resultVars
  <2>2. consumed[workers_started + 1] = 0
    BY <1>1, <2>1 DEF Marked
  <2>3. Total(consumed, workers_started + 1) = Total(consumed, workers_started)
    <3>1. Total(consumed, workers_started) \in Nat
      <4>1. workers \in Nat /\ workers_started \in 0..workers
        BY <1>1, PoolAssumption
      <4> QED BY <1>0, <4>1, TotalType DEF Worker
    <3> QED BY <1>1, <2>2, <3>1, TotalStep
  <2>4. \A u \in Worker : u > workers_started' => consumed[u] = 0
    <3>1. \A u \in Worker : u > workers_started' => u > workers_started
      BY <1>1, <2>1 DEF Worker
    <3> QED BY <3>1 DEF Marked
  <2> QED BY <1>5, <2>1, <2>3, <2>4 DEF Marked
<1>6. CASE ~Cleaned /\ Push
  <2>1. /\ jobs_produced' = jobs_produced + 1
        /\ UNCHANGED <<seen, consumed, duplicate_jobs, storage, workers_started>>
    BY <1>6 DEF Push, resultVars
  <2>2. Main \in Held /\ job[Main] = jobs_produced
    BY <1>6, ThreadFacts DEF Push, InPush, Control, Hands, Held
  <2>3. storage[jobs_produced] = "allocated"
    BY <2>2, PlaceParts DEF Live
  <2>4. ASSUME NEW k \in Job
        PROVE  k < jobs_produced' <=> k < jobs_produced \/ k = jobs_produced
    <3>1. k \in Int /\ jobs_produced \in Int
      BY <1>1
    <3> QED BY <2>1, <3>1
  <2> QED BY <1>0, <1>6, <2>1, <2>3, <2>4 DEF Marked
<1>7. CASE ~Cleaned /\ PushRejected
  <2>1. UNCHANGED <<seen, consumed, duplicate_jobs, workers_started, jobs_produced>>
    BY <1>7 DEF PushRejected, resultVars
  <2>2. /\ job[Main] = jobs_produced /\ storage[jobs_produced] = "allocated"
        /\ storage' = [storage EXCEPT ![jobs_produced] = "freed"]
    BY <1>7, RejectionFrees
  <2>3. ~(jobs_produced < jobs_produced)
    BY <1>1
  <2> QED BY <1>0, <1>7, <2>1, <2>2, <2>3 DEF Marked
<1>8. CASE ~Cleaned /\ AllJoined
  <2>1. UNCHANGED <<seen, consumed, duplicate_jobs, workers_started, jobs_produced>>
    BY <1>8 DEF AllJoined, resultVars
  <2>2. Cleaned'
    BY <1>8, MainMoves DEF Control, Moves, AllJoined, Cleaned
  <2>3. \A k \in seen : storage'[k] = "freed"
    BY <1>0, <1>8, CleanupFrees DEF Marked
  <2> QED BY <2>1, <2>2, <2>3 DEF Marked
<1>9. ASSUME ~Cleaned, NEW w \in Worker,
             \/ Pop(w) \/ PopWaits(w) \/ PopDrained(w) \/ PopFails(w)
             \/ WorkerCloses(w) \/ ThreadFlush(w)
      PROVE  Marked'
  BY <1>3, <1>9 DEF Pop, PopWaits, PopDrained, PopFails, WorkerCloses, ThreadFlush, resultVars,
                    mainVars
<1>10. CASE /\ ~Cleaned
            /\ \/ CreateFails \/ AllStarted \/ AllocateFails \/ AllProduced \/ PushWaits
               \/ MainCloses \/ Join \/ JoinFails \/ NotAllJoined \/ FlushAndTrim
  BY <1>3, <1>10 DEF CreateFails, AllStarted, AllocateFails, AllProduced, PushWaits, MainCloses,
                     Join, JoinFails, NotAllJoined, FlushAndTrim, resultVars, mainVars
<1>11. CASE ~Cleaned /\ AllocateJob
  <2>1. /\ UNCHANGED <<seen, consumed, duplicate_jobs, workers_started, jobs_produced>>
        /\ storage' = [storage EXCEPT ![jobs_produced] = "allocated"]
    BY <1>11 DEF AllocateJob, resultVars, mainVars
  <2>2. ~(jobs_produced < jobs_produced)
    BY <1>1
  <2> QED BY <1>0, <1>11, <2>1, <2>2 DEF Marked
<1>12. CASE ~Cleaned /\ ((\E t \in Thread : SpuriousWakeup(t)) \/ UNCHANGED vars)
  BY <1>3, <1>12 DEF SpuriousWakeup, vars, resultVars, mainVars
<1> QED
  BY <1>2, <1>4, <1>5, <1>6, <1>7, <1>8, <1>9, <1>10, <1>11, <1>12
  DEF Next, WorkerStep, MainStep, Finished

\* A worker closes the queue only after it recorded an error, and an error has a cause.
LEMMA ErrorsStep ==
    ASSUME Control, Errors, [Next]_vars
    PROVE  Errors'
<1>0. workers_started \in Nat /\ Worker \subseteq Nat /\ queue_error \in [Worker -> BOOLEAN]
  <2>1. queue_error \in [Worker -> BOOLEAN]
    BY DEF Control, TypeOK
  <2> QED BY <2>1, TypeFacts, PoolAssumption DEF Control, Worker
<1>1. ASSUME UNCHANGED queue_error, failed \subseteq failed',
             workers_started' \in {workers_started, workers_started + 1},
             \A w \in Worker : pc'[w] = "close" => pc[w] = "close"
      PROVE  Errors'
  <2>1. \A w \in Worker : w <= workers_started => w <= workers_started'
    BY <1>0, <1>1
  <2> QED BY <1>1, <2>1 DEF Errors
<1>2. ASSUME NEW w \in Worker, PopFails(w) PROVE Errors'
  <2>1. Moves(w, "close") /\ Charges({"lock", "wait"})
    BY <1>2, WorkerMoves DEF Control
  <2>2. failed' # {} /\ UNCHANGED workers_started /\ queue_error' = [queue_error EXCEPT ![w] = TRUE]
    BY <1>2, <2>1 DEF Charges, PopFails, mainVars
  <2>3. w <= workers_started
    <3>1. pc[w] # "absent" /\ w \in Nat
      BY <1>0, <1>2 DEF PopFails, OperationFails
    <3> QED BY <1>0, <3>1 DEF Control, Places
  <2>4. \A u \in Worker : u # w /\ pc'[u] = "close" => pc[u] = "close"
    BY <2>1, ThreadFacts DEF Moves
  <2> QED BY <1>0, <2>2, <2>3, <2>4 DEF Errors
<1>3. ASSUME NEW w \in Worker,
             \/ Pop(w) \/ PopWaits(w) \/ PopDrained(w) \/ Consume(w)
             \/ WorkerCloses(w) \/ ThreadFlush(w)
      PROVE  Errors'
  <2>1. \A u \in Worker : pc'[u] = "close" => pc[u] = "close"
    BY <1>3, WorkerMoves, ThreadFacts DEF Control, Moves
  <2>2. failed \subseteq failed'
    BY <1>3, WorkerMoves
    DEF Control, Charges, PopWaits, PopDrained, Consume, ThreadFlush
  <2>3. UNCHANGED <<queue_error, workers_started>>
    BY <1>3 DEF Pop, PopWaits, PopDrained, Consume, WorkerCloses, ThreadFlush, resultVars, mainVars
  <2> QED BY <1>1, <2>1, <2>2, <2>3
<1>4. CASE MainStep
  <2>1. \A u \in Worker : pc'[u] = "close" => pc[u] = "close"
    BY <1>4, MainMoves, ThreadFacts DEF Control, MainStep, Moves, Join, JoinFails
  <2>2. failed \subseteq failed'
    BY <1>4, MainMoves
    DEF Control, Charges, MainStep, CreateWorker, AllStarted, AllocateJob, AllProduced, PushWaits,
        Join, JoinFails, Fails, AllJoined, NotAllJoined, FlushAndTrim
  <2>3. UNCHANGED queue_error /\ workers_started' \in {workers_started, workers_started + 1}
    BY <1>4 DEF MainStep, CreateWorker, CreateFails, AllStarted, AllocateJob, AllocateFails,
       AllProduced, Push, PushWaits, PushRejected, MainCloses, Join, JoinFails, AllJoined,
       NotAllJoined, FlushAndTrim, resultVars, mainVars
  <2> QED BY <1>1, <2>1, <2>2, <2>3
<1>5. ASSUME NEW t \in Thread, SpuriousWakeup(t) PROVE Errors'
  <2>1. \A u \in Worker : pc'[u] = "close" => pc[u] = "close"
    BY <1>5, WakeupMoves, ThreadFacts DEF Control, Moves
  <2> QED BY <1>1, <1>5, <2>1 DEF SpuriousWakeup, resultVars, mainVars
<1>6. CASE UNCHANGED vars
  BY <1>1, <1>6 DEF vars, resultVars, mainVars
<1> QED BY <1>2, <1>3, <1>4, <1>5, <1>6 DEF Next, WorkerStep, Finished

\* As long as nothing fails, main starts all workers and closes the queue itself, and a
\* worker leaves only an empty queue.
LEMMA UndisturbedStep ==
    ASSUME Control, Errors, Undisturbed, [Next]_vars
    PROVE  Undisturbed'
<1>0. count \in Nat /\ workers_started \in Nat
  BY TypeFacts DEF Control
<1>1. ASSUME Producing' => Producing, UNCHANGED <<status, workers_started>>,
             failed \subseteq failed',
             pc'[Main] # "create" => pc[Main] # "create" \/ workers_started = workers,
             closed' = closed,
             failed' = {} => \A w \in Worker : pc'[w] \in {"flush", "ended"} => closed /\ count' = 0
      PROVE  Undisturbed'
  BY <1>1 DEF Undisturbed
<1>2. ASSUME failed' # {}, Producing' => Producing /\ UNCHANGED status PROVE Undisturbed'
  BY <1>2 DEF Undisturbed
<1>3. ASSUME NEW w \in Worker, WorkerStep(w) PROVE Undisturbed'
  <2>1. /\ pc'[Main] = pc[Main] \/ (pc[Main] = "sleep" /\ pc'[Main] = "woken")
        /\ \A u \in Worker : u # w => pc'[u] = pc[u] \/ pc'[u] = "woken"
    BY <1>3, WorkerMoves, ThreadFacts DEF Control, WorkerStep, Moves
  <2>2. (Producing' => Producing) /\ (pc'[Main] # "create" => pc[Main] # "create")
    BY <2>1 DEF Producing
  <2>3. UNCHANGED <<status, workers_started>>
    BY <1>3 DEF WorkerStep, Pop, PopWaits, PopDrained, PopFails, Consume, WorkerCloses,
                ThreadFlush, mainVars
  <2>4. CASE PopFails(w)
    <3>1. failed' # {}
      BY <2>4, WorkerMoves DEF Control, Charges
    <3> QED BY <1>2, <2>2, <2>3, <3>1
  <2>5. CASE WorkerCloses(w)
    <3>1. failed # {} /\ failed \subseteq failed'
      BY <2>5, WorkerMoves DEF Control, Charges, WorkerCloses, Errors
    <3>2. failed' # {}
      BY <3>1
    <3> QED BY <1>2, <2>2, <2>3, <3>2
  <2>6. CASE Pop(w)
    <3>1. failed \subseteq failed' /\ UNCHANGED closed /\ count # 0 /\ pc'[w] = "work"
      BY <2>6, WorkerMoves DEF Control, Charges, Pop, IsEmpty, Moves
    <3>2. failed' = {} => \A u \in Worker : pc'[u] \notin {"flush", "ended"}
      BY <2>1, <3>1 DEF Undisturbed
    <3> QED BY <1>1, <2>2, <2>3, <3>1, <3>2
  <2>7. CASE PopDrained(w)
    <3>1. UNCHANGED <<failed, closed, count>> /\ closed /\ count = 0
      BY <2>7 DEF PopDrained, queueVars, MustWaitForJob, IsEmpty
    <3> QED BY <1>1, <2>2, <2>3, <3>1
  <2>8. CASE PopWaits(w) \/ Consume(w) \/ ThreadFlush(w)
    <3>1. UNCHANGED <<failed, closed, count>>
      BY <2>8 DEF PopWaits, Consume, ThreadFlush, queueVars
    <3>2. pc'[w] \in {"flush", "ended"} => pc[w] \in {"flush", "ended"}
      BY <2>8, WorkerMoves DEF Control, Moves, ThreadFlush
    <3>3. \A u \in Worker : pc'[u] \in {"flush", "ended"} => pc[u] \in {"flush", "ended"}
      BY <2>1, <3>2
    <3> QED BY <1>1, <2>2, <2>3, <3>1, <3>3 DEF Undisturbed
  <2> QED BY <1>3, <2>4, <2>5, <2>6, <2>7, <2>8 DEF WorkerStep
<1>4. ASSUME NEW t \in Thread, SpuriousWakeup(t) PROVE Undisturbed'
  <2>1. UNCHANGED <<failed, closed, count, status, workers_started>>
    BY <1>4 DEF SpuriousWakeup, queueVars, mainVars
  <2>2. /\ pc'[Main] = pc[Main] \/ (pc[Main] = "sleep" /\ pc'[Main] = "woken")
        /\ \A u \in Worker : pc'[u] = pc[u] \/ pc'[u] = "woken"
    BY <1>4, WakeupMoves, ThreadFacts DEF Control, Moves
  <2>3. (Producing' => Producing) /\ (pc'[Main] # "create" => pc[Main] # "create")
    BY <2>2 DEF Producing
  <2>4. \A u \in Worker : pc'[u] \in {"flush", "ended"} => pc[u] \in {"flush", "ended"}
    BY <2>2
  <2> QED BY <1>1, <2>1, <2>3, <2>4 DEF Undisturbed
<1>5. CASE CreateFails \/ AllocateFails
  <2>1. failed' # {} /\ pc'[Main] = "close"
    BY <1>5, MainMoves DEF Control, Charges, Moves
  <2> QED BY <1>2, <2>1 DEF Producing
<1>6. CASE PushRejected
  <2>1. pc'[Main] = "close" /\ ((closed /\ UNCHANGED failed) \/ Charges({"lock", "wait"}))
    BY <1>6, MainMoves DEF Control, Moves
  <2>2. Producing
    BY <1>6 DEF PushRejected, InPush, OperationFails, Producing
  <2>3. failed' # {}
    BY <2>1, <2>2 DEF Undisturbed, Charges
  <2> QED BY <1>2, <2>1, <2>3 DEF Producing
<1>7. CASE CreateWorker
  <2>1. /\ Moves(workers_started + 1, "pop") /\ workers_started + 1 \in Worker
        /\ UNCHANGED <<failed, closed, count, status>> /\ pc[Main] = "create"
    BY <1>7, MainMoves DEF Control, CreateWorker, queueVars
  <2>2. pc'[Main] = "create"
    BY <2>1, ThreadFacts DEF Moves
  <2>3. \A u \in Worker : pc'[u] \in {"flush", "ended"} => pc[u] \in {"flush", "ended"}
    BY <2>1, ThreadFacts DEF Moves
  <2> QED BY <2>1, <2>2, <2>3 DEF Undisturbed, Producing
<1>8. CASE \/ AllStarted \/ AllocateJob \/ AllProduced \/ Push \/ PushWaits
           \/ NotAllJoined \/ FlushAndTrim
  <2>1. /\ UNCHANGED <<status, workers_started, closed>>
        /\ pc'[Main] # "create" => pc[Main] # "create" \/ workers_started = workers
    BY <1>8 DEF AllStarted, AllocateJob, AllProduced, Push, PushWaits, NotAllJoined, FlushAndTrim,
                InPush, queueVars, mainVars
  <2>2. Producing' => Producing
    BY <1>8, MainMoves DEF Control, Moves, Producing, AllStarted, AllocateJob, AllProduced, Push,
                PushWaits, NotAllJoined, FlushAndTrim, InPush
  <2>3. failed \subseteq failed'
    BY <1>8, MainMoves DEF Control, Charges, AllStarted, AllocateJob, AllProduced, PushWaits,
                NotAllJoined, FlushAndTrim
  <2>4. \A u \in Worker : pc'[u] \in {"flush", "ended"} => pc[u] \in {"flush", "ended"}
    BY <1>8, MainMoves, ThreadFacts DEF Control, Moves
  <2>5. count' = count \/ ~closed
    BY <1>8 DEF AllStarted, AllocateJob, AllProduced, Push, PushWaits, NotAllJoined, FlushAndTrim,
                queueVars
  <2>6. failed' = {} => \A u \in Worker : pc'[u] \in {"flush", "ended"} => closed /\ count' = 0
    BY <2>3, <2>4, <2>5 DEF Undisturbed
  <2> QED BY <1>1, <2>1, <2>2, <2>3, <2>6
<1>9. CASE MainCloses
  <2>1. pc'[Main] = "join" /\ failed \subseteq failed'
    BY <1>9, MainMoves DEF Control, Moves, Charges
  <2>2. \A u \in Worker : pc'[u] \in {"flush", "ended"} => pc[u] \in {"flush", "ended"}
    BY <1>9, MainMoves, ThreadFacts DEF Control, Moves
  <2>3. pc[Main] = "close" /\ UNCHANGED <<workers_started, count>>
    BY <1>9 DEF MainCloses
  <2>4. closed => closed'
    BY <1>9 DEF MainCloses
  <2> QED BY <2>1, <2>2, <2>3, <2>4 DEF Undisturbed, Producing
<1>10. CASE Join \/ JoinFails
  <2>1. /\ UNCHANGED <<pc, workers_started, count, closed>> /\ failed \subseteq failed'
        /\ pc[Main] = "join"
    BY <1>10 DEF Join, JoinFails, Fails, queueVars
  <2> QED BY <2>1 DEF Undisturbed, Producing
<1>11. CASE AllJoined
  <2>1. /\ pc'[Main] = "trim" /\ pc[Main] = "join" /\ count' = 0
        /\ UNCHANGED <<workers_started, closed, failed>>
    BY <1>11, MainMoves DEF Control, Moves, AllJoined, ReleaseRemaining
  <2>2. \A u \in Worker : pc'[u] \in {"flush", "ended"} => pc[u] \in {"flush", "ended"}
    BY <1>11, MainMoves, ThreadFacts DEF Control, Moves
  <2> QED BY <2>1, <2>2 DEF Undisturbed, Producing
<1>12. CASE UNCHANGED vars
  BY <1>12 DEF Undisturbed, Producing, vars, queueVars, mainVars
<1> QED
  BY <1>3, <1>4, <1>5, <1>6, <1>7, <1>8, <1>9, <1>10, <1>11, <1>12 DEF Next, MainStep, Finished

\* Until the cleanup the status is right about what has failed so far.
LEMMA VerdictStep ==
    ASSUME Control, Joining, Errors, Undisturbed, Verdict, [Next]_vars
    PROVE  Verdict'
<1>0. queue_error \in [Worker -> BOOLEAN]
  BY DEF Control, TypeOK
<1>1. ASSUME ~Cleaned, UNCHANGED <<status, all_joined, jobs_produced>>, failed \subseteq failed',
             failed' \subseteq failed \cup ExcusedBy', ExcusedBy \subseteq ExcusedBy',
             Producing => Producing' \/ jobs_produced = jobs
      PROVE  Verdict'
  BY <1>1 DEF Verdict
<1>2. ASSUME all_joined' \/ status' = "RUN_INTERNAL_ERROR",
             status' \notin {"RUN_OK", "RUN_DATA_FAILURE"}, failed' # {}
      PROVE  Verdict'
  BY <1>2 DEF Verdict
<1>3. UNCHANGED queue_error => ExcusedBy' = ExcusedBy
  BY DEF ExcusedBy
<1>4. "wake" \in ExcusedBy
  BY DEF ExcusedBy
<1>5. CASE Cleaned
  <2>1. Cleaned' /\ UNCHANGED <<status, all_joined, jobs_produced>>
    BY <1>5, AfterCleanup DEF mainVars
  <2>2. ~Producing
    BY <1>5 DEF Cleaned, Producing
  <2> QED BY <2>1, <2>2 DEF Verdict
<1>6. ASSUME ~Cleaned, NEW w \in Worker, WorkerStep(w) PROVE Verdict'
  <2>1. pc'[Main] = pc[Main] \/ (pc[Main] = "sleep" /\ pc'[Main] = "woken")
    BY <1>6, WorkerMoves, ThreadFacts DEF Control, WorkerStep, Moves
  <2>2. Producing => Producing'
    BY <2>1 DEF Producing
  <2>3. UNCHANGED <<status, all_joined, jobs_produced>>
    BY <1>6 DEF WorkerStep, Pop, PopWaits, PopDrained, PopFails, Consume, WorkerCloses,
                ThreadFlush, mainVars
  <2>4. CASE PopFails(w)
    <3>1. Charges({"lock", "wait"})
      BY <2>4, WorkerMoves DEF Control
    <3>2. queue_error' = [queue_error EXCEPT ![w] = TRUE]
      BY <2>4 DEF PopFails
    <3>3. ExcusedBy' = {"wake", "lock", "wait"} /\ ExcusedBy \subseteq ExcusedBy'
      BY <1>0, <3>2 DEF ExcusedBy
    <3>4. failed \subseteq failed' /\ failed' \subseteq failed \cup ExcusedBy'
      BY <3>1, <3>3 DEF Charges
    <3> QED BY <1>1, <1>6, <2>2, <2>3, <3>3, <3>4
  <2>5. CASE WorkerCloses(w)
    <3>1. UNCHANGED failed \/ Charges({"lock", "wake"})
      BY <2>5, WorkerMoves DEF Control
    <3>2. UNCHANGED queue_error /\ queue_error[w]
      BY <2>5 DEF WorkerCloses, resultVars, Errors
    <3>3. ExcusedBy' = {"wake", "lock", "wait"} /\ ExcusedBy \subseteq ExcusedBy'
      BY <3>2 DEF ExcusedBy
    <3>4. failed \subseteq failed' /\ failed' \subseteq failed \cup ExcusedBy'
      BY <3>1, <3>3 DEF Charges
    <3> QED BY <1>1, <1>6, <2>2, <2>3, <3>3, <3>4
  <2>6. CASE Pop(w) \/ PopWaits(w) \/ PopDrained(w) \/ Consume(w) \/ ThreadFlush(w)
    <3>1. UNCHANGED queue_error
      BY <2>6 DEF Pop, PopWaits, PopDrained, Consume, ThreadFlush, resultVars
    <3>2. UNCHANGED failed \/ Charges({"wake"})
      BY <2>6, WorkerMoves DEF Control, PopWaits, PopDrained, Consume, ThreadFlush
    <3>3. failed \subseteq failed' /\ failed' \subseteq failed \cup ExcusedBy'
      BY <1>3, <1>4, <3>1, <3>2 DEF Charges
    <3> QED BY <1>1, <1>3, <1>6, <2>2, <2>3, <3>1, <3>3
  <2> QED BY <1>6, <2>4, <2>5, <2>6 DEF WorkerStep
<1>7. ASSUME ~Cleaned, NEW t \in Thread, SpuriousWakeup(t) PROVE Verdict'
  <2>1. UNCHANGED <<failed, status, all_joined, jobs_produced, queue_error>>
    BY <1>7 DEF SpuriousWakeup, resultVars, mainVars
  <2>2. pc'[Main] = pc[Main] \/ (pc[Main] = "sleep" /\ pc'[Main] = "woken")
    BY <1>7, WakeupMoves, ThreadFacts DEF Control, Moves
  <2>3. Producing => Producing'
    BY <2>2 DEF Producing
  <2> QED BY <1>1, <1>3, <1>7, <2>1, <2>3
<1>8. CASE ~Cleaned /\ (CreateFails \/ AllocateFails)
  <2>1. failed' # {}
    BY <1>8, MainMoves DEF Control, Charges
  <2>2. all_joined' /\ status' \in {"RUN_THREAD_FAILURE", "RUN_ALLOCATION_FAILURE"}
    BY <1>8 DEF CreateFails, AllocateFails, Joining, Producing
  <2> QED BY <1>2, <2>1, <2>2
<1>9. CASE ~Cleaned /\ PushRejected
  <2>1. (closed /\ UNCHANGED failed) \/ Charges({"lock", "wait"})
    BY <1>9, MainMoves DEF Control
  <2>2. Producing /\ status' = "RUN_INTERNAL_ERROR"
    BY <1>9 DEF PushRejected, InPush, OperationFails, Producing
  <2>3. failed' # {}
    BY <2>1, <2>2 DEF Undisturbed, Charges
  <2> QED BY <1>2, <2>2, <2>3
<1>10. CASE ~Cleaned /\ JoinFails
  <2>1. failed' # {} /\ status' = "RUN_INTERNAL_ERROR"
    BY <1>10 DEF JoinFails, Fails
  <2> QED BY <1>2, <2>1
<1>11. CASE ~Cleaned /\ MainCloses
  <2>1. pc[Main] = "close" /\ UNCHANGED <<all_joined, jobs_produced, queue_error>>
    BY <1>11 DEF MainCloses, resultVars
  <2>2. all_joined' /\ ~Producing
    BY <2>1 DEF Joining, Producing
  <2>3. \/ UNCHANGED <<failed, status>>
        \/ Charges({"lock", "wake"}) /\ status' = IfOk("RUN_INTERNAL_ERROR")
    BY <1>11, MainMoves DEF Control
  <2>4. CASE UNCHANGED <<failed, status>>
    BY <1>1, <1>3, <1>11, <2>1, <2>2, <2>4
  <2>5. CASE Charges({"lock", "wake"}) /\ status' = IfOk("RUN_INTERNAL_ERROR")
    <3>1. failed' # {} /\ status' \notin {"RUN_OK", "RUN_DATA_FAILURE"}
      BY <1>11, <2>5 DEF Charges, IfOk, Verdict
    <3> QED BY <1>2, <2>2, <3>1
  <2> QED BY <2>3, <2>4, <2>5
<1>12. CASE ~Cleaned /\ AllJoined
  <2>1. Cleaned'
    BY <1>12, MainMoves DEF Control, Moves, AllJoined, Cleaned
  <2>2. status' = "RUN_OK" => status = "RUN_OK" /\ jobs_produced' = jobs_produced
    BY <1>12 DEF AllJoined, FinalStatus
  <2>3. ~Producing
    BY <1>12 DEF AllJoined, Producing
  <2> QED BY <2>1, <2>2, <2>3 DEF Verdict, Cleaned
<1>13. CASE ~Cleaned /\ (CreateWorker \/ AllStarted \/ AllocateJob \/ Push \/ PushWaits)
  <2>1. Producing'
    <3>1. CASE CreateWorker
      <4>1. Moves(workers_started + 1, "pop") /\ workers_started + 1 \in Worker
        BY <3>1, MainMoves DEF Control
      <4>2. pc'[Main] = pc[Main] \/ pc'[Main] = "woken"
        BY <4>1, ThreadFacts DEF Moves
      <4> QED BY <3>1, <4>2 DEF CreateWorker, Producing
    <3> QED BY <1>13, <3>1, MainMoves DEF Control, Moves, Producing
  <2>2. UNCHANGED <<status, all_joined, queue_error>>
    BY <1>13 DEF CreateWorker, AllStarted, AllocateJob, Push, PushWaits, resultVars, mainVars
  <2>3. UNCHANGED failed \/ Charges({"wake"})
    BY <1>13, MainMoves DEF Control, CreateWorker, AllStarted, AllocateJob, PushWaits
  <2>4. failed \subseteq failed' /\ failed' \subseteq failed \cup ExcusedBy'
    BY <1>3, <1>4, <2>2, <2>3 DEF Charges
  <2> QED BY <1>3, <1>13, <2>1, <2>2, <2>4 DEF Verdict
<1>14. CASE ~Cleaned /\ AllProduced
  <2>1. jobs_produced = jobs /\ UNCHANGED <<failed, status, all_joined, jobs_produced, queue_error>>
    BY <1>14 DEF AllProduced, resultVars, mainVars
  <2> QED BY <1>1, <1>3, <1>14, <2>1
<1>15. CASE ~Cleaned /\ (Join \/ NotAllJoined \/ FlushAndTrim \/ UNCHANGED vars)
  <2>1. UNCHANGED <<failed, status, all_joined, jobs_produced, queue_error>>
    BY <1>15 DEF Join, NotAllJoined, FlushAndTrim, vars, resultVars, mainVars
  <2>2. Producing => Producing'
    BY <1>15 DEF Join, NotAllJoined, FlushAndTrim, vars, Producing
  <2> QED BY <1>1, <1>3, <1>15, <2>1, <2>2
<1> QED
  BY <1>5, <1>6, <1>7, <1>8, <1>9, <1>10, <1>11, <1>12, <1>13, <1>14, <1>15
  DEF Next, MainStep, Finished

-----------------------------------------------------------------------------

\* Only the cleanup cleans up.
LEMMA CleanedByCleanup ==
    ASSUME Control, Joining, ~Cleaned, [Next]_vars, Cleaned'
    PROVE  AllJoined
<1>1. ASSUME all_joined' => all_joined,
             pc'[Main] \in {"trim", "done"} => pc[Main] \in {"trim", "done"}
      PROVE  FALSE
  BY <1>1 DEF Cleaned
<1>2. ASSUME NEW w \in Worker, WorkerStep(w) PROVE FALSE
  <2>1. pc'[Main] = pc[Main] \/ pc'[Main] = "woken"
    BY <1>2, WorkerMoves, ThreadFacts DEF Control, WorkerStep, Moves
  <2>2. UNCHANGED all_joined
    BY <1>2 DEF WorkerStep, Pop, PopWaits, PopDrained, PopFails, Consume, WorkerCloses,
                ThreadFlush, mainVars
  <2> QED BY <1>1, <2>1, <2>2
<1>3. ASSUME NEW t \in Thread, SpuriousWakeup(t) PROVE FALSE
  <2>1. pc'[Main] = pc[Main] \/ pc'[Main] = "woken"
    BY <1>3, WakeupMoves, ThreadFacts DEF Control, Moves
  <2> QED BY <1>1, <1>3, <2>1 DEF SpuriousWakeup, mainVars
<1>4. ASSUME CreateWorker PROVE FALSE
  <2>1. Moves(workers_started + 1, "pop") /\ workers_started + 1 \in Worker
    BY <1>4, MainMoves DEF Control
  <2>2. pc'[Main] = pc[Main] \/ pc'[Main] = "woken"
    BY <2>1, ThreadFacts DEF Moves
  <2> QED BY <1>1, <1>4, <2>2 DEF CreateWorker
<1>5. ASSUME \/ CreateFails \/ AllStarted \/ AllocateJob \/ AllocateFails \/ AllProduced
             \/ Push \/ PushWaits \/ PushRejected \/ MainCloses
      PROVE  FALSE
  <2>1. pc'[Main] \notin {"trim", "done"}
    BY <1>5, MainMoves DEF Control, Moves
  <2> QED BY <2>1 DEF Cleaned
<1>6. ASSUME Join \/ JoinFails \/ UNCHANGED vars PROVE FALSE
  BY <1>1, <1>6 DEF Join, JoinFails, vars, mainVars
<1>7. ASSUME NotAllJoined \/ FlushAndTrim PROVE FALSE
  BY <1>7 DEF NotAllJoined, FlushAndTrim, Joining, Cleaned, mainVars
<1> QED BY <1>2, <1>3, <1>4, <1>5, <1>6, <1>7 DEF Next, MainStep, Finished

\* The comparison that main makes at the end tells whether an accepted job was abandoned.
LEMMA DataFailureIs ==
    ASSUME Control, JobsHaveOnePlace, Accepted, Marked
    PROVE  DataFailure <=> seen # 0..(jobs_produced - 1)
<1> DEFINE P == 0..(jobs_produced - 1)
<1>0. jobs_produced \in Nat /\ Job \subseteq Nat /\ seen \subseteq Job
  <2>1. Job \subseteq Nat
    BY DEF Job
  <2>2. seen \subseteq Job
    BY DEF Control, TypeOK
  <2> QED BY <2>1, <2>2, TypeFacts, PoolAssumption DEF Control
<1>1. seen \subseteq P
  BY <1>0 DEF Marked
<1>2. Cardinality(P) = jobs_produced
  <2>1. 0 \in Int /\ jobs_produced - 1 \in Int
    BY <1>0
  <2>2. Cardinality(P) = IF 0 > jobs_produced - 1 THEN 0 ELSE jobs_produced - 1 - 0 + 1
    BY <2>1, FS_Interval
  <2> QED BY <1>0, <2>2
<1>3. workers_started \in Nat /\ 1..workers_started \subseteq Worker
  BY TypeFacts, PoolAssumption DEF Control, Worker
<1>4. ASSUME seen = P PROVE ~DataFailure
  <2>1. Total(consumed, workers_started) = jobs_produced
    BY <1>2, <1>4 DEF Marked
  <2>2. \A w \in 1..workers_started : duplicate_jobs[w] = 0
    BY <1>3 DEF Marked
  <2>3. count = 0
    <3> SUFFICES ASSUME count # 0 PROVE FALSE
      OBVIOUS
    <3>1. count \in 1..capacity /\ head \in Slot
      BY TypeFacts, PoolAssumption DEF Control, Slot
    <3>2. head \in Window
      BY <3>1, SlotsPop, WindowIs
    <3>3. slots[head] \in Job
      BY <3>1, <3>2 DEF Control, RingFilled, TypeOK
    <3>4. slots[head] < jobs_produced /\ storage[slots[head]] = "allocated"
      BY <3>2, PlaceParts DEF Accepted, Live
    <3>5. slots[head] \in seen
      <4>1. slots[head] \in Nat /\ jobs_produced \in Nat
        BY <1>0, <3>3
      <4>2. slots[head] \in P
        BY <3>4, <4>1
      <4> QED BY <1>4, <4>2
    <3> QED BY <3>4, <3>5 DEF Marked
  <2> QED BY <1>4, <2>1, <2>2, <2>3 DEF DataFailure
<1>5. ASSUME seen # P PROVE DataFailure
  BY <1>1, <1>5 DEF DataFailure
<1> QED BY <1>4, <1>5

\* Unless a call failed, every job that was accepted has been consumed at the cleanup.
LEMMA NothingAbandoned ==
    ASSUME Control, JobsHaveOnePlace, Fresh, Joining, Marked, Undisturbed, ~Cleaned, AllJoined,
           failed = {}
    PROVE  seen = 0..(jobs_produced - 1)
<1>0. jobs_produced \in 0..jobs /\ Job \subseteq Nat /\ seen \subseteq Job
  <2>1. Job \subseteq Nat
    BY DEF Job
  <2>2. seen \subseteq Job
    BY DEF Control, TypeOK
  <2> QED BY <2>1, <2>2, TypeFacts DEF Control
<1>1. workers_started = workers
  BY DEF Undisturbed, AllJoined
<1>2. 1 \in Worker /\ pc[1] = "ended"
  <2>1. 1 \in Worker /\ 1 <= workers
    BY PoolAssumption DEF Worker
  <2> QED BY <1>1, <2>1, CleanupIsQuiet
<1>3. count = 0
  BY <1>2 DEF Undisturbed
<1>4. Window = {}
  <2>1. head \in 0..(capacity - 1) /\ capacity \in Nat
    BY TypeFacts, PoolAssumption DEF Control
  <2> QED BY <1>3, <2>1 DEF Window, Offset, Slot
<1>5. ASSUME NEW j \in 0..(jobs_produced - 1) PROVE j \in seen
  <2>1. j \in Job /\ j < jobs_produced
    BY <1>0, PoolAssumption DEF Job
  <2>2. storage[j] \in {"unallocated", "allocated", "freed", "freed twice"}
    BY <2>1 DEF Control, TypeOK
  <2>3. storage[j] = "freed"
    BY <1>4, <2>1, <2>2, CleanupIsQuiet, PlaceParts DEF Fresh, Found
  <2> QED BY <2>1, <2>3 DEF Marked
<1>6. seen \subseteq 0..(jobs_produced - 1)
  BY <1>0, PoolAssumption DEF Marked
<1> QED BY <1>5, <1>6

\* After the cleanup the status is the truth.
LEMMA ReportedStep ==
    ASSUME Control, JobsHaveOnePlace, Fresh, Accepted, Joining, Marked, Errors, Undisturbed,
           Verdict, Reported, [Next]_vars
    PROVE  Reported'
<1>1. CASE Cleaned
  <2>1. UNCHANGED <<status, seen, failed, jobs_produced>>
    BY <1>1, AfterCleanup DEF resultVars, mainVars
  <2> QED BY <1>1, <2>1 DEF Reported
<1>2. CASE ~Cleaned'
  BY <1>2 DEF Reported
<1>3. CASE ~Cleaned /\ Cleaned'
  <2>1. AllJoined
    BY <1>3, CleanedByCleanup
  <2>2. UNCHANGED <<seen, failed, jobs_produced>> /\ status' = FinalStatus /\ ~Producing
    BY <2>1 DEF AllJoined, resultVars, Producing
  <2>3. DataFailure <=> seen # 0..(jobs_produced - 1)
    BY DataFailureIs
  <2>4. status # "RUN_DATA_FAILURE"
    BY <1>3 DEF Verdict
  <2>5. status' = "RUN_DATA_FAILURE" <=> DataFailure
    BY <2>2, <2>4 DEF FinalStatus
  <2>6. ASSUME status' = "RUN_OK" PROVE seen = Job /\ failed \subseteq {"wake"}
    <3>1. status = "RUN_OK" /\ ~DataFailure /\ \A w \in 1..workers_started : ~queue_error[w]
      BY <2>2, <2>6 DEF FinalStatus
    <3>2. \A w \in Worker : ~queue_error[w]
      <4> SUFFICES ASSUME NEW w \in Worker, queue_error[w] PROVE FALSE
        OBVIOUS
      <4>1. w <= workers_started
        BY DEF Errors
      <4>2. w \in 1..workers_started
        BY <4>1, TypeFacts DEF Control, Worker
      <4> QED BY <3>1, <4>2
    <3>3. failed \subseteq {"wake"}
      BY <1>3, <3>1, <3>2 DEF Verdict, ExcusedBy
    <3>4. jobs_produced = jobs
      BY <2>2, <3>1 DEF Verdict
    <3> QED BY <2>3, <3>1, <3>3, <3>4 DEF Job
  <2>7. ASSUME failed = {} PROVE status' = "RUN_OK"
    <3>1. ~DataFailure
      BY <1>3, <2>1, <2>3, <2>7, NothingAbandoned
    <3>2. status = "RUN_OK"
      BY <1>3, <2>7 DEF Verdict
    <3>3. \A w \in 1..workers_started : ~queue_error[w]
      <4>1. 1..workers_started \subseteq Worker
        BY TypeFacts, PoolAssumption DEF Control, Worker
      <4> QED BY <2>7, <4>1 DEF Errors
    <3> QED BY <2>2, <3>1, <3>2, <3>3 DEF FinalStatus
  <2> QED BY <2>2, <2>3, <2>5, <2>6, <2>7 DEF Reported
<1> QED BY <1>1, <1>2, <1>3

-----------------------------------------------------------------------------
(***************************************************************************)
(* The invariant, and what it implies.                                     *)
(***************************************************************************)

LEMMA InitInvariant == Init => IInv
<1> SUFFICES ASSUME Init PROVE IInv
  OBVIOUS
<1>1. workers \in Nat \ {0} /\ jobs \in Nat /\ capacity \in Nat \ {0}
  BY PoolAssumption
<1>2. TypeOK
  <2>1. 0 \in Slot /\ 0 \in 0..capacity /\ 0 \in 0..workers /\ 0 \in 0..jobs
    BY <1>1 DEF Slot
  <2> QED BY <2>1 DEF Init, TypeOK, Place, Status
<1>3. Window = {} /\ Held = {}
  BY <1>1 DEF Init, Window, Offset, Slot, Held
<1>4. pc[Main] = "create" /\ \A w \in Worker : pc[w] = "absent" /\ w > 0
  BY ThreadFacts DEF Init, Worker
<1>5. Control
  <2>1. Places
    BY <1>4 DEF Init, Places
  <2>2. Hands
    BY <1>4, ThreadFacts DEF Init, Hands
  <2>3. RingFilled
    BY <1>3 DEF Init, RingFilled
  <2> QED BY <1>2, <2>1, <2>2, <2>3 DEF Control
<1>6. JobsHaveOnePlace
  <2>1. Apart /\ Live /\ Found
    BY <1>3 DEF Apart, Live, Found, Init
  <2> QED BY <1>5, <2>1, PlaceParts DEF Control
<1>7. Fresh
  <2>1. \A j \in Job : ~(j < 0)
    BY DEF Job
  <2> QED BY <2>1 DEF Init, Fresh
<1>8. Accepted
  BY <1>3, ThreadFacts DEF Init, Accepted
<1>9. Joining
  <2>1. 1..joined = {} /\ joined <= workers_started
    BY DEF Init
  <2> QED BY <1>4, <2>1 DEF Init, Joining, Cleaned, Producing
<1>10. Marked
  <2>1. Total(consumed, 0) = 0
    BY TotalStep
  <2>2. Cardinality(seen) = 0
    BY FS_EmptySet DEF Init
  <2>3. \A j \in Job : ~(j < 0)
    BY DEF Job
  <2> QED BY <2>1, <2>2, <2>3 DEF Init, Marked
<1>11. Errors
  BY <1>4 DEF Init, Errors
<1>12. Undisturbed
  BY <1>4 DEF Init, Undisturbed, Producing
<1>13. Verdict /\ Reported
  BY <1>4 DEF Init, Verdict, Reported, Producing, Cleaned
<1> QED BY <1>5, <1>6, <1>7, <1>8, <1>9, <1>10, <1>11, <1>12, <1>13 DEF IInv

LEMMA StepInvariant == IInv /\ [Next]_vars => IInv'
BY ControlStep, JobsStep, FreshStep, AcceptedStep, JoiningStep, MarkedStep, ErrorsStep,
   UndisturbedStep, VerdictStep, ReportedStep DEF IInv

\* The pool's inductive invariant, whatever calls fail and threads interleave.
THEOREM PoolInvariant == Spec => []IInv
BY InitInvariant, StepInvariant, PTL DEF Spec

\* Every variable keeps its type; the ring's count never passes its capacity
\* (examples/worker_pool.c:151, :163).
THEOREM TypeCorrect == Spec => []TypeOK
<1>1. IInv => TypeOK
  BY DEF IInv, Control
<1> QED BY <1>1, PoolInvariant, PTL

\* For any number of workers, jobs and slots: every job is in exactly one place from its
\* allocation to its only deallocation (queue_push, queue_pop, the cleanup of run_pool).
THEOREM JobsInOnePlace == Spec => []JobsHaveOnePlace
<1>1. IInv => JobsHaveOnePlace
  BY DEF IInv
<1> QED BY <1>1, PoolInvariant, PTL

\* main trims only when every worker it started has ended and every job is freed.
THEOREM TrimIsQuiescent == Spec => []TrimsWhenQuiescent
<1>1. IInv => TrimsWhenQuiescent
  <2> SUFFICES ASSUME IInv, pc[Main] = "trim"
               PROVE  /\ \A w \in Worker :
                             pc[w] = IF w <= workers_started THEN "ended" ELSE "absent"
                      /\ \A j \in Job : storage[j] \in {"unallocated", "freed"}
    BY DEF TrimsWhenQuiescent
  <2>1. Control /\ Joining /\ Cleaned
    BY DEF IInv, Joining, Cleaned
  <2>2. ASSUME NEW w \in Worker
        PROVE  pc[w] = IF w <= workers_started THEN "ended" ELSE "absent"
    <3>1. workers_started \in Nat /\ w \in Nat \ {0}
      BY <2>1, TypeFacts DEF Control, Worker
    <3>2. IF w <= workers_started THEN w \in 1..joined ELSE w > workers_started
      BY <2>1, <3>1 DEF Joining
    <3> QED BY <2>1, <3>2 DEF Joining, Cleaned, Control, Places
  <2> QED BY <2>1, <2>2 DEF Joining
<1> QED BY <1>1, PoolInvariant, PTL

\* The status main reports is true of the run.
THEOREM ReportIsTruthful == Spec => []ReportIsTrue
<1>1. IInv => ReportIsTrue
  <2> SUFFICES ASSUME IInv, pc[Main] = "done"
               PROVE  /\ status = "RUN_OK" => seen = Job /\ failed \subseteq {"wake"}
                      /\ failed = {} => status = "RUN_OK"
                      /\ all_joined =>
                             (status = "RUN_DATA_FAILURE" <=> seen # 0..(jobs_produced - 1))
    BY DEF ReportIsTrue
  <2>1. CASE all_joined
    BY <2>1 DEF IInv, Reported, Cleaned
  <2>2. CASE ~all_joined
    BY <2>2 DEF IInv, Verdict, Cleaned
  <2> QED BY <2>1, <2>2
<1> QED BY <1>1, PoolInvariant, PTL

-----------------------------------------------------------------------------
(***************************************************************************)
(* The ring implements the queue.                                          *)
(***************************************************************************)

RingOf(s, h, c) == [i \in 1..c |-> s[(h + i - 1) % capacity]]

\* Where the i-th job of the ring lies.
LEMMA RingIndex ==
    ASSUME NEW h \in Slot, NEW i \in 1..capacity
    PROVE  /\ (h + i - 1) % capacity = IF h + i - 1 < capacity THEN h + i - 1
                                       ELSE h + i - 1 - capacity
           /\ (h + i - 1) % capacity \in Slot
<1>1. h + i - 1 \in Nat /\ h + i - 1 < 2 * capacity /\ capacity \in Nat \ {0}
  BY PoolAssumption DEF Slot
<1> DEFINE a == h + i - 1
<1>2. a % capacity = IF a < capacity THEN a ELSE a - capacity
  <2>1. a \in Nat /\ a < 2 * capacity
    BY <1>1
  <2> HIDE DEF a
  <2> QED BY <1>1, <2>1, RemainderBelowTwice
<1> QED BY <1>1, <1>2 DEF Slot

\* The ring as a sequence of jobs.
LEMMA RingIsSeq ==
    ASSUME NEW s \in [Slot -> Job \cup {None}], NEW h \in Slot, NEW c \in 0..capacity
    PROVE  /\ RingOf(s, h, c) \in Seq(Job \cup {None})
           /\ Len(RingOf(s, h, c)) = c
           /\ DOMAIN RingOf(s, h, c) = 1..c
<1>1. capacity \in Nat \ {0} /\ c \in Nat
  BY PoolAssumption
<1>2. RingOf(s, h, c) \in [1..c -> Job \cup {None}]
  <2>1. \A i \in 1..c : i \in 1..capacity
    BY <1>1
  <2>2. \A i \in 1..c : s[(h + i - 1) % capacity] \in Job \cup {None}
    BY <2>1, RingIndex
  <2> QED BY <2>2 DEF RingOf
<1> HIDE DEF RingOf
<1> QED BY <1>1, <1>2

\* Taking the head of the ring takes the head of the queue.
LEMMA RingPop ==
    ASSUME NEW s \in [Slot -> Job \cup {None}], NEW h \in Slot, NEW c \in 1..capacity
    PROVE  /\ RingOf(s, h, c) # <<>>
           /\ Head(RingOf(s, h, c)) = s[h]
           /\ RingOf([s EXCEPT ![h] = None], (h + 1) % capacity, c - 1) = Tail(RingOf(s, h, c))
<1> DEFINE r == RingOf(s, h, c)
           n == (h + 1) % capacity
           q == RingOf([s EXCEPT ![h] = None], n, c - 1)
<1>1. capacity \in Nat \ {0} /\ c \in Nat /\ c <= capacity /\ c >= 1 /\ h \in 0..(capacity - 1)
  BY PoolAssumption DEF Slot
<1>2. r \in Seq(Job \cup {None}) /\ Len(r) = c
  BY <1>1, RingIsSeq
<1>3. n \in Slot /\ n = IF h + 1 < capacity THEN h + 1 ELSE h + 1 - capacity
  <2>1. h + 1 \in Nat /\ h + 1 < 2 * capacity
    BY <1>1
  <2>2. n = IF h + 1 < capacity THEN h + 1 ELSE (h + 1) - capacity
    BY <1>1, <2>1, RemainderBelowTwice
  <2> QED BY <1>1, <2>2 DEF Slot
<1>4. q \in Seq(Job \cup {None}) /\ Len(q) = c - 1
  <2>1. [s EXCEPT ![h] = None] \in [Slot -> Job \cup {None}] /\ c - 1 \in 0..capacity
    BY <1>1
  <2> QED BY <1>3, <2>1, RingIsSeq
<1>5. r[1] = s[h]
  <2>1. (h + 1 - 1) % capacity = h
    <3>1. 1 \in 1..capacity /\ h + 1 - 1 < capacity
      BY <1>1
    <3> QED BY <1>1, <3>1, RingIndex
  <2> QED BY <1>1, <2>1 DEF RingOf
<1>6. ASSUME NEW i \in 1..(c - 1) PROVE q[i] = r[i + 1]
  <2>1. i \in 1..capacity /\ i + 1 \in 1..capacity /\ i + 1 \in 1..c /\ i < capacity
    BY <1>1
  <2> DEFINE a == (n + i - 1) % capacity
             b == (h + (i + 1) - 1) % capacity
  <2>2. a = (IF n + i - 1 < capacity THEN n + i - 1 ELSE n + i - 1 - capacity) /\ a \in Slot
    BY <1>3, <2>1, RingIndex
  <2>3. b = (IF h + (i + 1) - 1 < capacity THEN h + (i + 1) - 1 ELSE h + (i + 1) - 1 - capacity)
    BY <2>1, RingIndex
  <2>4. q[i] = [s EXCEPT ![h] = None][a]
    BY DEF RingOf
  <2>5. r[i + 1] = s[b]
    BY <2>1 DEF RingOf
  <2> HIDE DEF a, b, n, q, r
  <2>6. a = b /\ a # h
    BY <1>1, <1>3, <2>1, <2>2, <2>3
  <2> QED BY <2>2, <2>4, <2>5, <2>6
<1> HIDE DEF r, q, n
<1>7. r # <<>> /\ Head(r) = s[h]
  BY <1>1, <1>2, <1>5
<1>8. q = Tail(r)
  <2>1. Tail(r) \in Seq(Job \cup {None}) /\ Len(Tail(r)) = c - 1
        /\ \A i \in 1..(c - 1) : Tail(r)[i] = r[i + 1]
    BY <1>1, <1>2, <1>7
  <2> QED BY <1>1, <1>4, <1>6, <2>1, SeqEqual
<1> QED BY <1>7, <1>8 DEF r, q, n

\* Filling the slot after the last one appends to the queue.
LEMMA RingPush ==
    ASSUME NEW s \in [Slot -> Job \cup {None}], NEW h \in Slot, NEW c \in 0..(capacity - 1),
           NEW j \in Job
    PROVE  RingOf([s EXCEPT ![(h + c) % capacity] = j], h, c + 1) = Append(RingOf(s, h, c), j)
<1> DEFINE r == RingOf(s, h, c)
           n == (h + c) % capacity
           q == RingOf([s EXCEPT ![n] = j], h, c + 1)
<1>1. capacity \in Nat \ {0} /\ c \in Nat /\ c < capacity /\ h \in 0..(capacity - 1)
  BY PoolAssumption DEF Slot
<1>2. r \in Seq(Job \cup {None}) /\ Len(r) = c
  BY <1>1, RingIsSeq
<1>3. n \in Slot /\ n = IF h + c < capacity THEN h + c ELSE h + c - capacity
  <2>1. h + c \in Nat /\ h + c < 2 * capacity
    BY <1>1
  <2>2. n = IF h + c < capacity THEN h + c ELSE (h + c) - capacity
    BY <1>1, <2>1, RemainderBelowTwice
  <2> QED BY <1>1, <2>2 DEF Slot
<1>4. q \in Seq(Job \cup {None}) /\ Len(q) = c + 1
  <2>1. [s EXCEPT ![n] = j] \in [Slot -> Job \cup {None}] /\ c + 1 \in 0..capacity
    BY <1>1, <1>3
  <2> QED BY <2>1, RingIsSeq
<1>5. ASSUME NEW i \in 1..(c + 1) PROVE q[i] = IF i <= c THEN r[i] ELSE j
  <2>1. i \in 1..capacity /\ i <= c + 1
    BY <1>1
  <2> DEFINE a == (h + i - 1) % capacity
  <2>2. a = (IF h + i - 1 < capacity THEN h + i - 1 ELSE h + i - 1 - capacity) /\ a \in Slot
    BY <2>1, RingIndex
  <2>3. q[i] = [s EXCEPT ![n] = j][a]
    BY DEF RingOf
  <2>4. i <= c => r[i] = s[a]
    BY DEF RingOf
  <2> HIDE DEF a, n, q, r
  <2>5. a = n <=> i = c + 1
    BY <1>1, <1>3, <2>1, <2>2
  <2>6. i = c + 1 <=> ~(i <= c)
    BY <1>1, <2>1
  <2> QED BY <1>3, <2>2, <2>3, <2>4, <2>5, <2>6
<1> HIDE DEF r, q, n
<1>6. /\ Append(r, j) \in Seq(Job \cup {None}) /\ Len(Append(r, j)) = c + 1
      /\ \A i \in 1..(c + 1) : Append(r, j)[i] = IF i <= c THEN r[i] ELSE j
  BY <1>1, <1>2
<1>7. q = Append(r, j)
  BY <1>1, <1>4, <1>5, <1>6, SeqEqual
<1> QED BY <1>7 DEF r, q, n

ring == [i \in 1..count |-> slots[(head + i - 1) % capacity]]

\* The refinement mapping uses this sequence.
LEMMA RingIs == ring = RingOf(slots, head, count) /\ ring' = RingOf(slots', head', count')
BY DEF ring, RingOf

\* Every step of the pool is a step of the queue or leaves it alone.
LEMMA QueueStep ==
    ASSUME IInv, [Next]_vars
    PROVE  Queue!Next \/ UNCHANGED <<ring, closed, job>>
<1>0. /\ slots \in [Slot -> Job \cup {None}] /\ job \in [Thread -> Job \cup {None}]
      /\ head \in Slot /\ count \in 0..capacity /\ closed \in BOOLEAN
      /\ Control /\ JobsHaveOnePlace /\ Fresh /\ Joining
  BY DEF IInv, Control, TypeOK
<1>1. capacity \in Nat \ {0} /\ None \notin Job
  BY PoolAssumption, ThreadFacts
<1>2. Len(ring) = count /\ DOMAIN ring = 1..count
  BY <1>0, RingIsSeq, RingIs
<1>3. ASSUME NEW w \in Worker, Pop(w) PROVE Queue!Next
  <2>1. count \in 1..capacity
    BY <1>0, <1>3 DEF Pop, IsEmpty
  <2>2. w \in Thread /\ job[w] = None
    BY <1>0, <1>3, ThreadFacts DEF Pop, InPop, Control, Hands
  <2>3. /\ job' = [job EXCEPT ![w] = slots[head]] /\ slots' = [slots EXCEPT ![head] = None]
        /\ head' = (head + 1) % capacity /\ count' = count - 1 /\ UNCHANGED closed
    BY <1>3 DEF Pop, TakeHead
  <2>4. ring # <<>> /\ Head(ring) = slots[head] /\ ring' = Tail(ring)
    BY <1>0, <2>1, <2>3, RingPop, RingIs
  <2>5. Queue!Pop(w)
    BY <2>2, <2>3, <2>4 DEF Queue!Pop, Queue!InHand, ring
  <2> QED BY <2>2, <2>5 DEF Queue!Next
<1>4. CASE Push
  <2>1. count \in 0..(capacity - 1)
    BY <1>0, <1>1, <1>4 DEF Push, IsFull
  <2>2. Main \in Thread /\ job[Main] # None /\ job[Main] \in Job
    BY <1>0, <1>4, ThreadFacts DEF Push, InPush, Control, Hands
  <2>3. /\ slots' = [slots EXCEPT ![(head + count) % capacity] = job[Main]]
        /\ count' = count + 1 /\ job' = [job EXCEPT ![Main] = None]
        /\ UNCHANGED <<head, closed>> /\ ~closed
    BY <1>4 DEF Push, AppendJob
  <2>4. ring' = Append(ring, job[Main])
    BY <1>0, <2>1, <2>2, <2>3, RingPush, RingIs
  <2>5. Len(ring) < capacity
    BY <1>1, <1>2, <2>1
  <2>6. Queue!Push(Main)
    BY <2>2, <2>3, <2>4, <2>5 DEF Queue!Push, Queue!InHand, ring
  <2> QED BY <2>2, <2>6 DEF Queue!Next
<1>5. ASSUME NEW w \in Worker, Consume(w) PROVE Queue!Next
  <2>1. w \in Thread /\ job[w] # None
    BY <1>0, <1>5, ThreadFacts DEF Consume, Control, Hands
  <2>2. UNCHANGED <<ring, closed>> /\ job' = [job EXCEPT ![w] = None]
    BY <1>5 DEF Consume, queueVars, ring
  <2>3. Queue!Finish(w)
    BY <2>1, <2>2 DEF Queue!Finish, Queue!InHand, ring
  <2> QED BY <2>1, <2>3 DEF Queue!Next
<1>6. CASE PushRejected
  <2>1. Main \in Thread /\ job[Main] # None
    BY <1>0, <1>6, ThreadFacts DEF PushRejected, OperationFails, InPush, Control, Hands
  <2>2. UNCHANGED <<ring, closed>> /\ job' = [job EXCEPT ![Main] = None]
    BY <1>6 DEF PushRejected, KeepJob, queueVars, ring
  <2>3. Queue!Finish(Main)
    BY <2>1, <2>2 DEF Queue!Finish, Queue!InHand, ring
  <2> QED BY <2>1, <2>3 DEF Queue!Next
<1>7. CASE AllocateJob
  <2>1. Main \in Thread /\ job[Main] = None
    BY <1>0, <1>7, ThreadFacts DEF AllocateJob, Control, Hands
  <2>2. /\ UNCHANGED <<ring, closed>> /\ job' = [job EXCEPT ![Main] = jobs_produced]
    BY <1>7 DEF AllocateJob, queueVars, ring
  <2>3. jobs_produced \in Job
    <3>1. jobs_produced \in 0..jobs /\ jobs_produced < jobs
      BY <1>0, <1>7, TypeFacts DEF AllocateJob, Control
    <3> QED BY <3>1, PoolAssumption DEF Job
  <2>4. storage[jobs_produced] = "unallocated"
    BY <1>0, <1>7, <2>3 DEF AllocateJob, Fresh
  <2>5. Live /\ RingFilled
    BY <1>0, PlaceParts
  <2>6. \A u \in Thread : job[u] # jobs_produced
    BY <1>1, <2>3, <2>4, <2>5 DEF Live, Held
  <2>7. \A i \in 1..Len(ring) : ring[i] # jobs_produced
    <3> SUFFICES ASSUME NEW i \in 1..count PROVE ring[i] # jobs_produced
      BY <1>2
    <3>1. i - 1 \in 0..(count - 1) /\ head + i - 1 = head + (i - 1)
      BY <1>0 DEF Slot
    <3>2. ring[i] = slots[(head + (i - 1)) % capacity]
      BY <3>1 DEF ring
    <3>3. ring[i] \in Remaining
      BY <3>1, <3>2 DEF Remaining
    <3>4. PICK k \in Window : ring[i] = slots[k]
      BY <1>0, <3>3, RemainingIsWindow DEF Control
    <3> QED BY <2>4, <2>5, <3>4 DEF Live
  <2>8. Queue!Obtain(Main, jobs_produced)
    BY <2>1, <2>2, <2>6, <2>7 DEF Queue!Obtain, Queue!InHand, ring
  <2> QED BY <2>1, <2>3, <2>8 DEF Queue!Next
<1>8. CASE AllJoined
  <2>1. \A t \in Thread : job[t] = None
    BY <1>0, <1>8, CleanupIsQuiet DEF Held
  <2>2. count' = 0 /\ UNCHANGED <<closed, job>>
    BY <1>8 DEF AllJoined, ReleaseRemaining
  <2>3. ring' = <<>>
    <3>1. 1..count' = {}
      BY <2>2
    <3> QED BY <3>1 DEF ring
  <2>4. Queue!ReleaseRemaining
    BY <2>1, <2>2, <2>3 DEF Queue!ReleaseRemaining, Queue!InHand, ring
  <2> QED BY <2>4 DEF Queue!Next
<1>9. ASSUME UNCHANGED <<slots, head, count, job>>, closed' = TRUE \/ closed' = closed
      PROVE  Queue!Next \/ UNCHANGED <<ring, closed, job>>
  <2>1. UNCHANGED ring
    BY <1>9 DEF ring
  <2> QED BY <1>9, <2>1 DEF Queue!Next, Queue!Close, ring
<1>10. ASSUME NEW w \in Worker, WorkerCloses(w)
       PROVE  Queue!Next \/ UNCHANGED <<ring, closed, job>>
  BY <1>9, <1>10 DEF WorkerCloses
<1>11. CASE MainCloses
  BY <1>9, <1>11 DEF MainCloses
<1>12. ASSUME UNCHANGED <<slots, head, count, job>>, UNCHANGED closed
       PROVE  UNCHANGED <<ring, closed, job>>
  BY <1>12 DEF ring
<1>13. ASSUME NEW w \in Worker, PopWaits(w) \/ PopDrained(w) \/ PopFails(w) \/ ThreadFlush(w)
       PROVE  UNCHANGED <<ring, closed, job>>
  BY <1>12, <1>13 DEF PopWaits, PopDrained, PopFails, ThreadFlush, queueVars
<1>14. CASE \/ CreateWorker \/ CreateFails \/ AllStarted \/ AllocateFails \/ AllProduced
            \/ PushWaits \/ Join \/ JoinFails \/ NotAllJoined \/ FlushAndTrim
  BY <1>12, <1>14 DEF CreateWorker, CreateFails, AllStarted, AllocateFails, AllProduced, PushWaits,
                      Join, JoinFails, NotAllJoined, FlushAndTrim, queueVars
<1>15. CASE (\E t \in Thread : SpuriousWakeup(t)) \/ UNCHANGED vars
  BY <1>12, <1>15 DEF SpuriousWakeup, vars, queueVars
<1> QED
  BY <1>3, <1>4, <1>5, <1>6, <1>7, <1>8, <1>10, <1>11, <1>13, <1>14, <1>15
  DEF Next, WorkerStep, MainStep, Finished

\* The ring with its indices implements the bounded FIFO queue, for every capacity and
\* every number of threads (queue_push, queue_pop, queue_close).
THEOREM RingImplementsQueue == Spec => ImplementsQueue
<1>1. Init => Queue!Init
  <2> SUFFICES ASSUME Init PROVE Queue!Init
    OBVIOUS
  <2>1. 1..count = {}
    BY DEF Init
  <2>2. [i \in 1..count |-> slots[(head + i - 1) % capacity]] = <<>>
    BY <2>1
  <2> QED BY <2>2 DEF Init, Queue!Init
<1>2. IInv /\ [Next]_vars =>
          [Queue!Next]_<<[i \in 1..count |-> slots[(head + i - 1) % capacity]], closed, job>>
  BY QueueStep DEF ring
<1> QED BY <1>1, <1>2, PoolInvariant, PTL DEF Spec, Queue!Spec, ImplementsQueue
=============================================================================
