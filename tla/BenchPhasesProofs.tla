------------------------- MODULE BenchPhasesProofs -------------------------
(***************************************************************************)
(* Proofs about BenchPhases, for any number of workers and of slots and    *)
(* any choice of failing calls: phases do not mix, blocks that are handed  *)
(* over are live, those that are kept are accounted for, and main trims    *)
(* when everything is freed.                                               *)
(***************************************************************************)
EXTENDS BenchPhases, DataInduction, SequenceTheorems, FiniteSetTheorems, TLAPS

\* Where a worker can be in each workload, and outside of the timed phases.
RingPlaces == {"ring_send", "ring_read", "ring_decide", "ring_next"}

ProducerPlaces == {"produce", "push", "push_sleep", "pushed", "producer_done"}

ConsumerPlaces == {"pop", "pop_sleep", "consume"}

Untimed == {"absent", "start", "wait_prepare", "prepare", "wait_phase", "flush", "ended"}

WorkerPlace == Untimed \cup TimedPlaces

\* Where main can be.
MainPlace == {"create", "await_ready", "await_warmup_ready", "await_warmup_done",
              "await_measurement_ready", "join", "trim", "done"}

\* The counters that main waits for.
CounterName == {"ready", "warmup_ready", "warmup_done", "measurement_ready"}

\* The workloads, whether a run has them or not.
WorkloadName == {"ring", "handoff"} \cup General

\* The types of all variables but the flags.
TypeInv ==
    /\ workload \in WorkloadName
    /\ counters \in [CounterName -> Nat]
    /\ mailboxes \in [Worker -> Worker \cup {None}] /\ barrier \subseteq Worker
    /\ items \in Seq(Worker) /\ Len(items) <= capacity
    /\ producers_remaining \in Nat
    /\ pc \in [Worker \cup {Main} -> WorkerPlace \cup MainPlace]
    /\ stage \in [Worker -> {1, 2}]
    /\ hand \in [Worker -> Worker \cup {None}]
    /\ slots \in [Worker -> Nat]
    /\ storage \in [Worker -> Int]
    /\ created \in 0..threads

\* Where main and the workers can be in each phase.
Course ==
    /\ phase \in {"WAITING", "PREPARE_WARMUP", "WARMUP", "PREPARE_MEASUREMENT", "MEASUREMENT",
                  "STOP"}
    /\ success => phase = "MEASUREMENT"
    /\ phase = "WAITING" =>
           /\ pc[Main] \in {"create", "await_ready"}
           /\ \A w \in Worker : stage[w] = 1 /\ pc[w] \in {"absent", "start", "wait_prepare"}
    /\ phase = "PREPARE_WARMUP" =>
           /\ pc[Main] = "await_warmup_ready"
           /\ \A w \in Worker :
                  stage[w] = 1 /\ pc[w] \in {"wait_prepare", "prepare", "wait_phase"}
    /\ phase = "WARMUP" =>
           /\ pc[Main] = "await_warmup_done"
           /\ \A w \in Worker : \/ stage[w] = 1 /\ pc[w] \in TimedPlaces \cup {"wait_phase"}
                                \/ stage[w] = 2 /\ pc[w] = "wait_prepare"
    /\ phase = "PREPARE_MEASUREMENT" =>
           /\ pc[Main] = "await_measurement_ready"
           /\ \A w \in Worker :
                  stage[w] = 2 /\ pc[w] \in {"wait_prepare", "prepare", "wait_phase"}
    /\ phase = "MEASUREMENT" =>
           /\ pc[Main] \in {"join", "trim", "done"}
           /\ \A w \in Worker :
                  stage[w] = 2 /\ pc[w] \in TimedPlaces \cup {"wait_phase", "flush", "ended"}
    /\ phase = "STOP" =>
           /\ pc[Main] \in {"join", "done"}
           /\ \A w \in Worker : pc[w] \in {"absent", "start", "wait_prepare", "wait_phase",
                                           "flush", "ended"}

\* Workers are created in order, and exist when main waits for them.
Creation ==
    /\ \A w \in Worker : pc[w] = "absent" <=> w >= created
    /\ pc[Main] = "create" => created < threads
    /\ pc[Main] # "create" /\ phase # "STOP" => created = threads
    /\ pc[Main] = "trim" => ~failed /\ \A w \in Worker : pc[w] = "ended"

\* The workers that each counter counts.
Ready == {w \in Worker : pc[w] \notin {"absent", "start"}}

Prepared(s) ==
    {w \in Worker : \/ stage[w] > s
                    \/ stage[w] = s /\ pc[w] \notin {"absent", "start", "wait_prepare", "prepare"}}

WarmedUp == {w \in Worker : stage[w] = 2}

\* A counter is the number of workers that have signalled it; those that stop skip some.
Counted ==
    /\ counters["ready"] = Cardinality(Ready)
    /\ counters["warmup_done"] = Cardinality(WarmedUp)
    /\ phase # "STOP" => /\ counters["warmup_ready"] = Cardinality(Prepared(1))
                         /\ counters["measurement_ready"] = Cardinality(Prepared(2))

\* A worker is in the code of the workload that runs, in its own role.
AtHome(w) ==
    /\ pc[w] \in RingPlaces => workload = "ring"
    /\ pc[w] = "general" => workload \in General
    /\ pc[w] \in ProducerPlaces => workload = "handoff" /\ IsProducer(w)
    /\ pc[w] \in ConsumerPlaces => workload = "handoff" /\ ~IsProducer(w)
    /\ pc[w] = "abort" => workload = "handoff" /\ failed

\* Each workload has its own places and places for its blocks.
Apart ==
    /\ \A w \in Worker : AtHome(w)
    /\ workload # "ring" => barrier = {}
    /\ workload # "handoff" => items = <<>> /\ \A w \in Worker : hand[w] = None
    /\ workload \notin General => \A w \in Worker : slots[w] = 0

-----------------------------------------------------------------------------

\* The workers that are done with the phase.
Gone(w) == pc[w] \in {"leave", "wait_prepare", "flush", "ended"}

\* A payload was wrong: w has leaked a block, or freed one that a slot points to.  It does
\* not prepare again, for main sees the failure first.
Mismatched(w) ==
    /\ failed /\ Fails("check") /\ Gone(w)
    /\ pc[w] = "wait_prepare" => phase \in {"WARMUP", "STOP"}
    /\ \/ workload = "fixed" /\ storage[w] = slots[w] + 1
       \/ workload = "mixed" /\ storage[w] = slots[w] - 1

\* The slots of a worker hold its blocks, while it takes part in a phase.
SlotsOK(w) ==
    /\ slots[w] # 0 => pc[w] \in {"wait_phase", "enter", "general", "leave"}
    /\ storage[w] = slots[w] \/ Mismatched(w)

SlotsInv == workload \in General => \A w \in Worker : SlotsOK(w)

\* The worker whose mailbox w fills.
Successor(w) == (w + 1) % threads

\* Workers write their mailboxes, and those that have wait at the first barrier.
Sending ==
    /\ barrier = {w \in Worker : pc[w] = "ring_read"}
    /\ barrier # Worker
    /\ \A w \in Worker : pc[w] # "ring_decide"

\* All have passed it, and read.
Reading ==
    /\ \A w \in Worker : pc[w] \in {"ring_read", "ring_decide"}
    /\ barrier = {w \in Worker : pc[w] = "ring_decide"}
    /\ barrier # Worker

\* All have passed the second, and decide.
Deciding ==
    /\ \A w \in Worker : pc[w] \in {"ring_decide", "ring_next"}
    /\ barrier = {w \in Worker : pc[w] = "ring_next"}
    /\ barrier # Worker

\* The block that w has sent is still in its successor's mailbox.
Sent(w) ==
    /\ mailboxes[Successor(w)] # None
    /\ \/ Sending /\ pc[w] = "ring_read"
       \/ Reading /\ pc[Successor(w)] = "ring_read"

\* The barriers separate the parts of a round; blocks are live between send and read.
RingInv ==
    workload = "ring" =>
        /\ Sending \/ Reading \/ Deciding
        /\ \A w \in Worker : /\ mailboxes[Successor(w)] \in {None, w}
                             /\ storage[w] = IF Sent(w) THEN 1 ELSE 0

\* Who holds a block of w, and where the queue holds one.
Holders(w) == {u \in Worker : hand[u] = w}

InQueue(w) == {i \in 1..Len(items) : items[i] = w}

\* The producers that are not done with the phase.
Working == {w \in Worker : IsProducer(w) /\ ~Gone(w)}

\* Producers have the block they push, consumers the one they consume.
Carried ==
    \A w \in Worker : hand[w] # None <=> pc[w] \in {"push", "push_sleep", "consume"}

\* A block is in one hand or in one slot of the queue.
Stored == \A w \in Worker : storage[w] = Cardinality(Holders(w)) + Cardinality(InQueue(w))

\* No phase begins with blocks in the queue.
EmptyBetween == phase \in {"WAITING", "PREPARE_WARMUP", "PREPARE_MEASUREMENT"} => items = <<>>

\* Unless something has failed a consumer leaves a queue that is empty for good.
LeftEmpty ==
    phase \in {"WARMUP", "MEASUREMENT"} /\ ~failed =>
        /\ producers_remaining = Cardinality(Working)
        /\ \A w \in Worker : ~IsProducer(w) /\ Gone(w) => items = <<>> /\ Working = {}

HandoffInv == workload = "handoff" => Carried /\ Stored /\ EmptyBetween /\ LeftEmpty

\* The inductive invariant.
IInv ==
    /\ TypeInv /\ Course /\ Creation /\ Counted /\ Apart
    /\ SlotsInv /\ RingInv /\ HandoffInv

-----------------------------------------------------------------------------
(***************************************************************************)
(* Workers, their ring and their number.                                   *)
(***************************************************************************)

\* Main and None are no workers.
LEMMA WorkerFacts ==
    /\ Worker \subseteq Nat /\ Main \notin Worker /\ None \notin Worker
    /\ \A w \in Worker : w # Main /\ w # None /\ w < threads
    /\ threads \in Nat \ {0, 1} /\ capacity \in Nat \ {0}
BY BenchAssumption DEF Worker, Main, capacity

\* Some slots, or none, are held.
LEMMA HeldIsNat == held \in Nat
BY BenchAssumption DEF held

\* The workloads are different.
LEMMA NotGeneral == "ring" \notin General /\ "handoff" \notin General
BY DEF General

\* The successor of the last worker is the first.
LEMMA SuccessorIs ==
    ASSUME NEW w \in Worker
    PROVE  Successor(w) = IF w + 1 < threads THEN w + 1 ELSE 0
<1>1. w + 1 \in Nat /\ w + 1 < 2 * threads /\ threads \in Nat \ {0} /\ w + 1 <= threads
  BY WorkerFacts DEF Worker
<1>2. (w + 1) % threads = IF w + 1 < threads THEN w + 1 ELSE (w + 1) - threads
  BY <1>1, RemainderBelowTwice
<1> QED BY <1>1, <1>2 DEF Successor

\* Every worker is the successor of exactly one other.
LEMMA SuccessorFacts ==
    /\ \A w \in Worker : Successor(w) \in Worker /\ Successor(w) # w
    /\ \A w, u \in Worker : Successor(w) = Successor(u) => w = u
    /\ \A u \in Worker : \E w \in Worker : Successor(w) = u
<1>1. \A w \in Worker : Successor(w) \in Worker /\ Successor(w) # w
  BY SuccessorIs, WorkerFacts DEF Worker
<1>2. \A w, u \in Worker : Successor(w) = Successor(u) => w = u
  BY SuccessorIs, WorkerFacts DEF Worker
<1>3. ASSUME NEW u \in Worker PROVE \E w \in Worker : Successor(w) = u
  <2>1. CASE u = 0
    <3>1. threads - 1 \in Worker /\ Successor(threads - 1) = 0
      BY SuccessorIs, WorkerFacts DEF Worker
    <3> QED BY <2>1, <3>1
  <2>2. CASE u # 0
    <3>1. u - 1 \in Worker /\ Successor(u - 1) = u
      BY <2>2, SuccessorIs, WorkerFacts DEF Worker
    <3> QED BY <3>1
  <2> QED BY <2>1, <2>2
<1> QED BY <1>1, <1>2, <1>3

\* Sets of workers are finite, and a set of as many as there are is all of them.
LEMMA WorkerSets ==
    ASSUME NEW S \in SUBSET Worker
    PROVE  /\ IsFiniteSet(S) /\ Cardinality(S) \in Nat
           /\ Cardinality(S) = 0 <=> S = {}
           /\ Cardinality(S) = threads => S = Worker
           /\ \A w \in Worker \ S : Cardinality(S \cup {w}) = Cardinality(S) + 1
           /\ \A w \in S : Cardinality(S \ {w}) = Cardinality(S) - 1
<1>1. IsFiniteSet(Worker) /\ Cardinality(Worker) = threads
  <2>1. threads \in Nat /\ 0 <= threads - 1 /\ threads - 1 - 0 + 1 = threads
        /\ threads - 1 \in Int /\ 0 \in Int
    BY WorkerFacts
  <2> QED BY <2>1, FS_Interval DEF Worker
<1>2. IsFiniteSet(S) /\ Cardinality(S) \in Nat
  BY <1>1, FS_Subset, FS_CardinalityType
<1>3. Cardinality(S) = 0 <=> S = {}
  BY <1>2, FS_EmptySet
<1>4. ASSUME Cardinality(S) = threads PROVE S = Worker
  BY <1>1, <1>4, FS_Subset
<1>5. ASSUME NEW w \in Worker \ S PROVE Cardinality(S \cup {w}) = Cardinality(S) + 1
  BY <1>2, FS_AddElement
<1>6. ASSUME NEW w \in S PROVE Cardinality(S \ {w}) = Cardinality(S) - 1
  BY <1>2, FS_RemoveElement
<1> QED BY <1>2, <1>3, <1>4, <1>5, <1>6

-----------------------------------------------------------------------------
(***************************************************************************)
(* Where an action takes the threads.                                      *)
(***************************************************************************)

\* A thread is left alone or woken.
Rests(u) ==
    \/ pc'[u] = pc[u]
    \/ pc[u] = "push_sleep" /\ pc'[u] = "push"
    \/ pc[u] = "pop_sleep" /\ pc'[u] = "pop"

\* A step takes t to a place and at most wakes the others.
Moves(t, place) ==
    /\ pc' \in [Worker \cup {Main} -> WorkerPlace \cup MainPlace]
    /\ pc'[t] = place
    /\ \A u \in Worker \cup {Main} : u # t => Rests(u)

PcType == pc \in [Worker \cup {Main} -> WorkerPlace \cup MainPlace]

\* The ways to move: alone, waking others, signalling one.
LEMMA GotoMoves ==
    ASSUME PcType, NEW t \in Worker \cup {Main}, NEW place \in WorkerPlace \cup MainPlace,
           Goto(t, place)
    PROVE  Moves(t, place)
BY DEF Goto, Moves, Rests, PcType

LEMMA WakeMoves ==
    ASSUME PcType, NEW t \in Worker \cup {Main}, NEW place \in WorkerPlace \cup MainPlace,
           NEW woken, \A u \in woken : pc[u] \in {"push_sleep", "pop_sleep"},
           WakeAndGoto(woken, t, place)
    PROVE  Moves(t, place)
<1>1. {"push", "pop"} \subseteq WorkerPlace
  BY DEF WorkerPlace, TimedPlaces
<1>2. pc' \in [Worker \cup {Main} -> WorkerPlace \cup MainPlace]
  BY <1>1 DEF WakeAndGoto, PcType
<1> QED BY <1>2 DEF WakeAndGoto, Moves, Rests, PcType

LEMMA SignalMoves ==
    ASSUME PcType, NEW t \in Worker \cup {Main}, NEW place \in WorkerPlace \cup MainPlace,
           NEW sleepers, \A u \in sleepers : pc[u] \in {"push_sleep", "pop_sleep"},
           signal(sleepers, t, place)
    PROVE  Moves(t, place)
BY GotoMoves, WakeMoves DEF signal

\* Where each action of a worker takes it.
LEMMA WorkerMoves ==
    ASSUME PcType, NEW w \in Worker
    PROVE  /\ ReportReady(w) => Moves(w, "wait_prepare")
           /\ WaitForPrepare(w) => Moves(w, "flush") \/ Moves(w, "prepare")
           /\ Prepare(w) => Moves(w, "wait_phase")
           /\ WaitForPhase(w) => Moves(w, "flush") \/ Moves(w, "enter")
           /\ LeavePhase(w) => Moves(w, IF stage[w] = 1 THEN "wait_prepare" ELSE "flush")
           /\ Flush(w) => Moves(w, "ended")
           /\ run_general_phase(w) => Moves(w, "leave") \/ Moves(w, "general")
           /\ RingSend(w) => Moves(w, "ring_read")
           /\ RingRead(w) => Moves(w, "ring_decide")
           /\ RingDecide(w) => Moves(w, "ring_next")
           /\ RingNext(w) => Moves(w, "ring_send") \/ Moves(w, "leave")
<1>1. w \in Worker \cup {Main}
  OBVIOUS
<1>2. {"wait_prepare", "flush", "prepare", "wait_phase", "enter", "ended", "leave", "ring_read",
       "ring_decide", "ring_next", "ring_send"} \subseteq WorkerPlace \cup MainPlace
  BY DEF WorkerPlace, Untimed, TimedPlaces
<1>3. /\ ReportReady(w) => Moves(w, "wait_prepare")
      /\ WaitForPrepare(w) => Moves(w, "flush") \/ Moves(w, "prepare")
      /\ Prepare(w) => Moves(w, "wait_phase")
      /\ WaitForPhase(w) => Moves(w, "flush") \/ Moves(w, "enter")
  BY <1>1, <1>2, GotoMoves DEF ReportReady, WaitForPrepare, Prepare, WaitForPhase
<1>4. /\ LeavePhase(w) => Moves(w, IF stage[w] = 1 THEN "wait_prepare" ELSE "flush")
      /\ Flush(w) => Moves(w, "ended")
  BY <1>1, <1>2, GotoMoves DEF LeavePhase, Flush
<1>5. ASSUME run_general_phase(w) PROVE Moves(w, "leave") \/ Moves(w, "general")
  <2>1. CASE Goto(w, "leave")
    BY <1>1, <1>2, <2>1, GotoMoves
  <2>2. CASE pc' = pc
    BY <1>5, <2>2 DEF run_general_phase, Moves, Rests, PcType
  <2> QED BY <1>5, <2>1, <2>2 DEF run_general_phase, Leave
<1>6. /\ RingSend(w) => Moves(w, "ring_read")
      /\ RingRead(w) => Moves(w, "ring_decide")
      /\ RingDecide(w) => Moves(w, "ring_next")
      /\ RingNext(w) => Moves(w, "ring_send") \/ Moves(w, "leave")
  BY <1>1, <1>2, GotoMoves
  DEF RingSend, RingRead, RingDecide, RingNext, PublishEntry, barrier_wait, Leave
<1> QED BY <1>3, <1>4, <1>5, <1>6

\* The first step of a timed phase.
LEMMA EnterMoves ==
    ASSUME PcType, NEW w \in Worker, EnterPhase(w)
    PROVE  \/ failed /\ Moves(w, "leave")
           \/ workload = "ring" /\ Moves(w, "ring_send")
           \/ workload \in General /\ Moves(w, "general")
           \/ workload \notin {"ring"} \cup General /\ IsProducer(w) /\ Moves(w, "produce")
           \/ workload \notin {"ring"} \cup General /\ ~IsProducer(w) /\ Moves(w, "pop")
<1>1. w \in Worker \cup {Main}
      /\ {"leave", "ring_send", "general", "produce", "pop"} \subseteq WorkerPlace \cup MainPlace
  BY DEF WorkerPlace, TimedPlaces
<1> QED BY <1>1, GotoMoves DEF EnterPhase

\* Where each action on the queue takes a worker.
LEMMA QueueMoves ==
    ASSUME PcType, NEW w \in Worker
    PROVE  /\ ProduceItem(w) => Moves(w, "push") \/ (Moves(w, "abort") /\ failed')
           /\ QueuePush(w) =>
                  Moves(w, "push_sleep") \/ Moves(w, "producer_done") \/ Moves(w, "pushed")
           /\ Pushed(w) => \/ Moves(w, "producer_done") \/ Moves(w, "produce")
                           \/ Moves(w, "abort") /\ failed'
           /\ QueueAbort(w) => Moves(w, IF IsProducer(w) THEN "producer_done" ELSE "leave")
           /\ ProducerDone(w) => Moves(w, "leave")
           /\ QueuePop(w) => Moves(w, "pop_sleep") \/ Moves(w, "leave") \/ Moves(w, "consume")
           /\ ConsumeItem(w) => Moves(w, "pop") \/ (Moves(w, "abort") /\ failed')
           /\ SpuriousWakeup(w) => /\ pc[w] \in {"push_sleep", "pop_sleep"}
                                   /\ Moves(w, IF pc[w] = "push_sleep" THEN "push" ELSE "pop")
<1>1. w \in Worker \cup {Main} /\ Main \in Worker \cup {Main}
  OBVIOUS
<1>2. {"push", "abort", "push_sleep", "producer_done", "pushed", "produce", "leave", "pop_sleep",
       "consume", "pop"} \subseteq WorkerPlace \cup MainPlace
  BY DEF WorkerPlace, TimedPlaces
<1>3. \A u \in NotFullSleepers \cup NotEmptySleepers : pc[u] \in {"push_sleep", "pop_sleep"}
  BY DEF NotFullSleepers, NotEmptySleepers
<1>4. /\ ProduceItem(w) => Moves(w, "push") \/ (Moves(w, "abort") /\ failed')
      /\ Pushed(w) => \/ Moves(w, "producer_done") \/ Moves(w, "produce")
                      \/ Moves(w, "abort") /\ failed'
      /\ ConsumeItem(w) => Moves(w, "pop") \/ (Moves(w, "abort") /\ failed')
  BY <1>1, <1>2, GotoMoves DEF ProduceItem, Pushed, ConsumeItem
<1>5. QueuePush(w) =>
          Moves(w, "push_sleep") \/ Moves(w, "producer_done") \/ Moves(w, "pushed")
  BY <1>1, <1>2, <1>3, GotoMoves, SignalMoves DEF QueuePush
<1>6. QueuePop(w) => Moves(w, "pop_sleep") \/ Moves(w, "leave") \/ Moves(w, "consume")
  BY <1>1, <1>2, <1>3, GotoMoves, SignalMoves DEF QueuePop, Leave
<1>7. /\ QueueAbort(w) => Moves(w, IF IsProducer(w) THEN "producer_done" ELSE "leave")
      /\ ProducerDone(w) => Moves(w, "leave")
  BY <1>1, <1>2, <1>3, WakeMoves DEF QueueAbort, ProducerDone, WakeConsumers
<1>8. ASSUME SpuriousWakeup(w)
      PROVE  /\ pc[w] \in {"push_sleep", "pop_sleep"}
             /\ Moves(w, IF pc[w] = "push_sleep" THEN "push" ELSE "pop")
  <2>1. pc[w] \in {"push_sleep", "pop_sleep"} /\ WakeAndGoto({w}, Main, pc[Main])
    BY <1>3, <1>8 DEF SpuriousWakeup
  <2>2. pc[Main] \in WorkerPlace \cup MainPlace
    BY DEF PcType
  <2>3. Moves(Main, pc[Main])
    BY <1>1, <2>1, <2>2, WakeMoves
  <2>4. pc'[w] = IF pc[w] = "push_sleep" THEN "push" ELSE "pop"
    BY <2>1, WorkerFacts DEF WakeAndGoto, PcType
  <2> QED BY <2>1, <2>3, <2>4 DEF Moves, Rests
<1> QED BY <1>4, <1>5, <1>6, <1>7, <1>8

\* Where main goes.
LEMMA MainMoves ==
    ASSUME PcType
    PROVE  /\ PrepareWarmup => Moves(Main, "await_warmup_ready")
           /\ StartWarmup => Moves(Main, IF phase' = "WARMUP" THEN "await_warmup_done" ELSE "join")
           /\ PrepareMeasurement =>
                  Moves(Main, IF phase' = "STOP" THEN "join" ELSE "await_measurement_ready")
           /\ StartMeasurement => Moves(Main, "join")
           /\ CreateFails => Moves(Main, "join")
           /\ JoinWorkers => Moves(Main, IF success' /\ ~failed THEN "trim" ELSE "done")
           /\ FlushAndTrim => Moves(Main, "done")
<1>1. Main \in Worker \cup {Main} /\ MainPlace \subseteq WorkerPlace \cup MainPlace
  OBVIOUS
<1>2. {"await_warmup_ready", "await_warmup_done", "join", "await_measurement_ready", "trim", "done"}
      \subseteq WorkerPlace \cup MainPlace
  BY DEF MainPlace
<1> QED BY <1>1, <1>2, GotoMoves
        DEF PrepareWarmup, StartWarmup, PrepareMeasurement, StartMeasurement, CreateFails,
            JoinWorkers, FlushAndTrim, StartPhase, Stop

\* The worker that main creates.
LEMMA CreateMoves ==
    ASSUME PcType, created \in 0..threads, CreateWorker
    PROVE  /\ created \in Worker /\ created < threads /\ created' = created + 1
           /\ pc' = [pc EXCEPT ![created] = "start",
                               ![Main] = IF created + 1 = threads THEN "await_ready" ELSE "create"]
           /\ pc' \in [Worker \cup {Main} -> WorkerPlace \cup MainPlace]
           /\ pc'[created] = "start"
           /\ pc'[Main] = IF created + 1 = threads THEN "await_ready" ELSE "create"
           /\ \A u \in Worker : u # created => pc'[u] = pc[u]
<1>1. created \in Worker /\ created < threads
  BY WorkerFacts DEF CreateWorker, Worker
<1>2. {"start", "await_ready", "create"} \subseteq WorkerPlace \cup MainPlace
  BY DEF WorkerPlace, Untimed, MainPlace
<1> QED BY <1>1, <1>2, WorkerFacts DEF CreateWorker, PcType

-----------------------------------------------------------------------------
(***************************************************************************)
(* Types.                                                                  *)
(***************************************************************************)

\* Storage is counted up and down.
LEMMA StorageType ==
    ASSUME storage \in [Worker -> Int], NEW w
    PROVE  /\ Deallocate(w) => storage' \in [Worker -> Int]
           /\ storage' = [storage EXCEPT ![w] = @ + 1] => storage' \in [Worker -> Int]
BY DEF Deallocate

\* So are the slots.
LEMMA SlotsType ==
    ASSUME storage \in [Worker -> Int], slots \in [Worker -> Nat], NEW w \in Worker
    PROVE  /\ \A n \in Nat : FillSlots(w, n) =>
                  storage' \in [Worker -> Int] /\ slots' \in [Worker -> Nat]
           /\ slot_release(w) => storage' \in [Worker -> Int] /\ slots' \in [Worker -> Nat]
           /\ cleanup_slots(w) => storage' \in [Worker -> Int] /\ slots' \in [Worker -> Nat]
<1>1. ASSUME NEW n \in Nat, FillSlots(w, n)
      PROVE  storage' \in [Worker -> Int] /\ slots' \in [Worker -> Nat]
  BY <1>1 DEF FillSlots
<1>2. ASSUME slot_release(w) PROVE storage' \in [Worker -> Int] /\ slots' \in [Worker -> Nat]
  BY <1>2, HeldIsNat DEF slot_release, Deallocate
<1>3. ASSUME cleanup_slots(w) PROVE storage' \in [Worker -> Int] /\ slots' \in [Worker -> Nat]
  BY <1>3 DEF cleanup_slots
<1> QED BY <1>1, <1>2, <1>3

\* What an entry can do.
LEMMA EntryDoes ==
    ASSUME NEW w \in Worker, run_general_phase(w)
    PROVE  \/ FillSlots(w, 1) \/ slot_release(w) \/ UNCHANGED <<slots, storage>>
           \/ /\ failed' /\ Fails("check") /\ Goto(w, "leave") /\ UNCHANGED slots
              /\ \/ workload = "fixed" /\ storage' = [storage EXCEPT ![w] = @ + 1]
                 \/ workload = "mixed" /\ Deallocate(w)
<1>1. CASE execute_entry(w)
  BY <1>1 DEF execute_entry, slot_allocate
<1>2. CASE EntryFails(w) /\ Leave(w, FALSE)
  <2>1. failed' /\ Goto(w, "leave")
    BY <1>2 DEF Leave
  <2> QED BY <1>2, <2>1 DEF EntryFails
<1> QED BY <1>1, <1>2 DEF run_general_phase

\* A step of a worker outside its timed phase keeps the types.
LEMMA OuterTypes ==
    ASSUME TypeInv, NEW w \in Worker,
           \/ ReportReady(w) \/ WaitForPrepare(w) \/ Prepare(w) \/ WaitForPhase(w)
           \/ EnterPhase(w) \/ LeavePhase(w) \/ Flush(w) \/ run_general_phase(w)
    PROVE  TypeInv'
<1>0. /\ PcType /\ storage \in [Worker -> Int] /\ slots \in [Worker -> Nat]
      /\ stage[w] \in {1, 2}
  BY DEF TypeInv, PcType
<1>1. pc' \in [Worker \cup {Main} -> WorkerPlace \cup MainPlace]
  BY <1>0, WorkerMoves, EnterMoves DEF Moves
<1>2. CASE ReportReady(w)
  BY <1>1, <1>2 DEF TypeInv, ReportReady, signal_counter, CounterName, ringVars, queueVars, ownVars,
                    mainVars
<1>3. CASE WaitForPrepare(w) \/ EnterPhase(w) \/ Flush(w)
  BY <1>1, <1>3 DEF TypeInv, WaitForPrepare, EnterPhase, Flush, phaseVars, ringVars, queueVars,
                    ownVars, mainVars
<1>4. CASE Prepare(w)
  <2>1. storage' \in [Worker -> Int] /\ slots' \in [Worker -> Nat]
    <3>1. \E n \in Nat : FillSlots(w, n)
      BY <1>4, HeldIsNat DEF Prepare
    <3> QED BY <1>0, <3>1, SlotsType
  <2>2. counters' \in [CounterName -> Nat]
    BY <1>0, <1>4 DEF TypeInv, Prepare, signal_counter, CounterName
  <2> QED BY <1>1, <1>4, <2>1, <2>2 DEF TypeInv, Prepare, ringVars, queueVars, mainVars
<1>5. CASE WaitForPhase(w)
  <2>1. storage' \in [Worker -> Int] /\ slots' \in [Worker -> Nat]
    BY <1>0, <1>5, SlotsType DEF WaitForPhase
  <2> QED BY <1>1, <1>5, <2>1
          DEF TypeInv, WaitForPhase, phaseVars, ringVars, queueVars, mainVars
<1>6. CASE LeavePhase(w)
  <2>1. storage' \in [Worker -> Int] /\ slots' \in [Worker -> Nat]
    BY <1>0, <1>6, SlotsType DEF LeavePhase
  <2>2. counters' \in [CounterName -> Nat] /\ stage' \in [Worker -> {1, 2}]
    <3>1. counters \in [CounterName -> Nat] /\ stage \in [Worker -> {1, 2}]
      BY DEF TypeInv
    <3>2. CASE stage[w] = 1
      BY <1>6, <3>1, <3>2 DEF LeavePhase, signal_counter, CounterName
    <3>3. CASE stage[w] # 1
      BY <1>6, <3>1, <3>3 DEF LeavePhase
    <3> QED BY <3>2, <3>3
  <2> QED BY <1>1, <1>6, <2>1, <2>2 DEF TypeInv, LeavePhase, ringVars, queueVars, mainVars
<1>7. CASE run_general_phase(w)
  <2>1. storage' \in [Worker -> Int] /\ slots' \in [Worker -> Nat]
    BY <1>0, <1>7, EntryDoes, SlotsType, StorageType
  <2> QED BY <1>1, <1>7, <2>1
          DEF TypeInv, run_general_phase, phaseVars, ringVars, queueVars, mainVars
<1> QED BY <1>2, <1>3, <1>4, <1>5, <1>6, <1>7

\* The ring does.
LEMMA RingTypes ==
    ASSUME TypeInv, NEW w \in Worker,
           RingSend(w) \/ RingRead(w) \/ RingDecide(w) \/ RingNext(w)
    PROVE  TypeInv'
<1>0. PcType /\ storage \in [Worker -> Int] /\ (w + 1) % threads \in Worker
  BY SuccessorFacts DEF TypeInv, PcType, Successor
<1>1. pc' \in [Worker \cup {Main} -> WorkerPlace \cup MainPlace]
  BY <1>0, WorkerMoves DEF Moves
<1>2. CASE RingSend(w)
  <2>1. storage' \in [Worker -> Int] /\ mailboxes' \in [Worker -> Worker \cup {None}]
    <3>1. mailboxes \in [Worker -> Worker \cup {None}]
      BY DEF TypeInv
    <3>2. \/ /\ mailboxes' = [mailboxes EXCEPT ![(w + 1) % threads] = w]
             /\ storage' = [storage EXCEPT ![w] = @ + 1]
          \/ /\ mailboxes' = [mailboxes EXCEPT ![(w + 1) % threads] = None]
             /\ storage' = storage
      BY <1>2 DEF RingSend
    <3> QED BY <1>0, <3>1, <3>2, StorageType
  <2>2. barrier' \subseteq Worker
    BY <1>2 DEF TypeInv, RingSend, PublishEntry, barrier_wait
  <2> QED BY <1>1, <1>2, <2>1, <2>2 DEF TypeInv, RingSend, phaseVars, queueVars, mainVars
<1>3. CASE RingRead(w)
  <2>1. storage' \in [Worker -> Int]
    BY <1>0, <1>3, StorageType DEF TypeInv, RingRead
  <2>2. barrier' \subseteq Worker
    BY <1>3 DEF TypeInv, RingRead, barrier_wait
  <2> QED BY <1>1, <1>3, <2>1, <2>2 DEF TypeInv, RingRead, phaseVars, queueVars, mainVars
<1>4. CASE RingDecide(w)
  BY <1>1, <1>4 DEF TypeInv, RingDecide, barrier_wait, phaseVars, queueVars, ownVars, mainVars
<1>5. CASE RingNext(w)
  BY <1>1, <1>5 DEF TypeInv, RingNext, ringVars, phaseVars, queueVars, ownVars, mainVars
<1> QED BY <1>2, <1>3, <1>4, <1>5

\* What happens to the queue and to the hands.
LEMMA QueueTypes ==
    ASSUME TypeInv, NEW w \in Worker,
           \/ ProduceItem(w) \/ QueuePush(w) \/ Pushed(w) \/ QueueAbort(w) \/ ProducerDone(w)
           \/ QueuePop(w) \/ ConsumeItem(w) \/ SpuriousWakeup(w),
           pc[w] \in {"push", "consume"} => hand[w] # None
    PROVE  TypeInv'
<1>0. PcType /\ storage \in [Worker -> Int] /\ items \in Seq(Worker) /\ Len(items) \in Nat
  BY DEF TypeInv, PcType
<1>1. pc' \in [Worker \cup {Main} -> WorkerPlace \cup MainPlace]
  BY <1>0, QueueMoves DEF Moves
<1>2. CASE ProduceItem(w)
  <2>1. storage' \in [Worker -> Int] /\ hand' \in [Worker -> Worker \cup {None}]
    <3>1. hand \in [Worker -> Worker \cup {None}]
      BY DEF TypeInv
    <3>2. \/ hand' = [hand EXCEPT ![w] = w] /\ storage' = [storage EXCEPT ![w] = @ + 1]
          \/ hand' = hand /\ storage' = storage
      BY <1>2 DEF ProduceItem
    <3> QED BY <1>0, <3>1, <3>2, StorageType
  <2> QED BY <1>1, <1>2, <2>1 DEF TypeInv, ProduceItem, phaseVars, ringVars, queueVars, mainVars
<1>3. CASE QueuePush(w)
  <2>1. storage' \in [Worker -> Int] /\ hand' \in [Worker -> Worker \cup {None}]
    BY <1>0, <1>3, StorageType DEF TypeInv, QueuePush
  <2>2. hand[w] \in Worker
    BY <1>3 DEF TypeInv, QueuePush
  <2>3. items' \in Seq(Worker) /\ Len(items') <= capacity
    <3>1. CASE items' = items
      BY <3>1 DEF TypeInv
    <3>2. CASE items' = Append(items, hand[w]) /\ Len(items) < capacity
      <4>1. items' \in Seq(Worker) /\ Len(items') = Len(items) + 1
        BY <1>0, <2>2, <3>2
      <4> QED BY <1>0, <3>2, <4>1, WorkerFacts
    <3> QED BY <1>3, <3>1, <3>2 DEF QueuePush
  <2> QED BY <1>1, <1>3, <2>1, <2>3 DEF TypeInv, QueuePush, phaseVars, ringVars, mainVars
<1>4. CASE Pushed(w) \/ QueueAbort(w) \/ SpuriousWakeup(w)
  BY <1>1, <1>4 DEF TypeInv, Pushed, QueueAbort, SpuriousWakeup, phaseVars, ringVars, queueVars,
                    ownVars, mainVars
<1>5. CASE ProducerDone(w)
  <2>1. producers_remaining' \in Nat
    BY <1>5 DEF TypeInv, ProducerDone
  <2> QED BY <1>1, <1>5, <2>1 DEF TypeInv, ProducerDone, phaseVars, ringVars, ownVars, mainVars
<1>6. CASE QueuePop(w)
  <2>1. items' \in Seq(Worker) /\ Len(items') <= capacity
        /\ hand' \in [Worker -> Worker \cup {None}]
    <3>1. CASE items' = items /\ hand' = hand
      BY <3>1 DEF TypeInv
    <3>2. CASE items # <<>> /\ items' = Tail(items) /\ hand' = [hand EXCEPT ![w] = Head(items)]
      <4>1. items' \in Seq(Worker) /\ Len(items') = Len(items) - 1 /\ Head(items) \in Worker
        BY <1>0, <3>2
      <4> QED BY <1>0, <3>2, <4>1, WorkerFacts DEF TypeInv
    <3> QED BY <1>6, <3>1, <3>2 DEF QueuePop, Drained
  <2> QED BY <1>1, <1>6, <2>1 DEF TypeInv, QueuePop, phaseVars, ringVars, mainVars
<1>7. CASE ConsumeItem(w)
  <2>1. storage' \in [Worker -> Int] /\ hand' \in [Worker -> Worker \cup {None}]
    BY <1>0, <1>7, StorageType DEF TypeInv, ConsumeItem
  <2> QED BY <1>1, <1>7, <2>1 DEF TypeInv, ConsumeItem, phaseVars, ringVars, queueVars, mainVars
<1> QED BY <1>2, <1>3, <1>4, <1>5, <1>6, <1>7

\* Main does.
LEMMA MainTypes ==
    ASSUME TypeInv, MainStep
    PROVE  TypeInv'
<1>0. PcType /\ created \in 0..threads
  BY DEF TypeInv, PcType
<1>1. CASE CreateWorker
  <2>1. pc' \in [Worker \cup {Main} -> WorkerPlace \cup MainPlace] /\ created' \in 0..threads
    BY <1>0, <1>1, CreateMoves, WorkerFacts
  <2> QED BY <1>1, <2>1 DEF TypeInv, CreateWorker, phaseVars, ringVars, queueVars, ownVars
<1>2. CASE CreateFails \/ PrepareWarmup \/ PrepareMeasurement \/ JoinWorkers \/ FlushAndTrim
  <2>1. pc' \in [Worker \cup {Main} -> WorkerPlace \cup MainPlace]
    BY <1>0, <1>2, MainMoves DEF Moves
  <2> QED BY <1>2, <2>1 DEF TypeInv, CreateFails, PrepareWarmup, PrepareMeasurement, JoinWorkers,
                            FlushAndTrim, phaseVars, ringVars, queueVars, ownVars, mainVars
<1>3. CASE StartWarmup \/ StartMeasurement
  <2>1. pc' \in [Worker \cup {Main} -> WorkerPlace \cup MainPlace]
    BY <1>0, <1>3, MainMoves DEF Moves
  <2>2. producer_count \in Nat
    BY WorkerFacts DEF producer_count
  <2>3. <<>> \in Seq(Worker) /\ Len(<<>>) <= capacity
    BY WorkerFacts
  <2>4. items' \in Seq(Worker) /\ Len(items') <= capacity /\ producers_remaining' \in Nat
    BY <1>3, <2>2, <2>3
    DEF TypeInv, StartWarmup, StartMeasurement, StartPhase, reset_phase_state, queueVars
  <2> QED BY <1>3, <2>1, <2>4 DEF TypeInv, StartWarmup, StartMeasurement, StartPhase, ownVars
<1> QED BY <1>1, <1>2, <1>3 DEF MainStep

-----------------------------------------------------------------------------
(***************************************************************************)
(* Phases and counters.                                                    *)
(***************************************************************************)

\* A step within a timed phase.
Inner(w) ==
    /\ pc[w] \in TimedPlaces /\ pc'[w] \in TimedPlaces
    /\ \A u \in Worker \cup {Main} : u # w => Rests(u)
    /\ UNCHANGED <<workload, phase, counters, stage, created, success>>

\* The steps of the workloads, and the entry to them.
InnerStep(w) ==
    \/ EnterPhase(w) \/ run_general_phase(w)
    \/ RingSend(w) \/ RingRead(w) \/ RingDecide(w) \/ RingNext(w)
    \/ ProduceItem(w) \/ QueuePush(w) \/ Pushed(w) \/ QueueAbort(w)
    \/ ProducerDone(w) \/ QueuePop(w) \/ ConsumeItem(w) \/ SpuriousWakeup(w)

\* So are all steps of the workloads.
LEMMA InnerSteps ==
    ASSUME PcType, NEW w \in Worker, InnerStep(w)
    PROVE  Inner(w)
<1>1. pc[w] \in TimedPlaces
  <2>1. CASE SpuriousWakeup(w)
    BY <2>1, QueueMoves DEF TimedPlaces
  <2>2. CASE ~SpuriousWakeup(w)
    BY <2>2 DEF InnerStep, EnterPhase, run_general_phase, RingSend, RingRead, RingDecide, RingNext,
                ProduceItem, QueuePush, Pushed, QueueAbort, ProducerDone, QueuePop, ConsumeItem,
                TimedPlaces
  <2> QED BY <2>1, <2>2
<1>2. \E place \in TimedPlaces : Moves(w, place)
  <2>1. CASE EnterPhase(w) \/ run_general_phase(w)
    BY <2>1, EnterMoves, WorkerMoves DEF TimedPlaces
  <2>2. CASE RingSend(w) \/ RingRead(w) \/ RingDecide(w) \/ RingNext(w)
    BY <2>2, WorkerMoves DEF TimedPlaces
  <2>3. CASE ProduceItem(w) \/ QueuePush(w) \/ Pushed(w) \/ ConsumeItem(w)
    BY <2>3, QueueMoves DEF TimedPlaces
  <2>4. CASE QueueAbort(w) \/ ProducerDone(w) \/ QueuePop(w) \/ SpuriousWakeup(w)
    BY <2>4, QueueMoves DEF TimedPlaces
  <2> QED BY <2>1, <2>2, <2>3, <2>4 DEF InnerStep
<1>3. UNCHANGED <<workload, phase, counters, stage, created, success>>
  BY DEF InnerStep, EnterPhase, run_general_phase, RingSend, RingRead, RingDecide, RingNext,
         ProduceItem, QueuePush, Pushed, QueueAbort, ProducerDone, QueuePop, ConsumeItem,
         SpuriousWakeup, phaseVars, mainVars
<1> QED BY <1>1, <1>2, <1>3 DEF Inner, Moves

\* When main moves on, every worker has got that far.
LEMMA AllSignalled ==
    ASSUME TypeInv, Course, Counted
    PROVE  /\ pc[Main] = "await_ready" /\ Everybody("ready") =>
                  \A w \in Worker : stage[w] = 1 /\ pc[w] = "wait_prepare"
           /\ pc[Main] = "await_warmup_ready" /\ Everybody("warmup_ready") =>
                  \A w \in Worker : stage[w] = 1 /\ pc[w] = "wait_phase"
           /\ pc[Main] = "await_warmup_done" /\ Everybody("warmup_done") =>
                  \A w \in Worker : stage[w] = 2 /\ pc[w] = "wait_prepare"
           /\ pc[Main] = "await_measurement_ready" /\ Everybody("measurement_ready") =>
                  \A w \in Worker : stage[w] = 2 /\ pc[w] = "wait_phase"
<1>1. Ready \in SUBSET Worker /\ WarmedUp \in SUBSET Worker
      /\ Prepared(1) \in SUBSET Worker /\ Prepared(2) \in SUBSET Worker
  BY DEF Ready, WarmedUp, Prepared
<1>2. ASSUME pc[Main] = "await_ready", Everybody("ready")
      PROVE  \A w \in Worker : stage[w] = 1 /\ pc[w] = "wait_prepare"
  <2>1. phase = "WAITING"
    BY <1>2 DEF Course
  <2>2. Ready = Worker
    BY <1>1, <1>2, WorkerSets DEF Counted, Everybody
  <2> QED BY <2>1, <2>2 DEF Course, Ready
<1>3. ASSUME pc[Main] = "await_warmup_ready", Everybody("warmup_ready")
      PROVE  \A w \in Worker : stage[w] = 1 /\ pc[w] = "wait_phase"
  <2>1. phase = "PREPARE_WARMUP"
    BY <1>3 DEF Course
  <2>2. Prepared(1) = Worker
    BY <1>1, <1>3, <2>1, WorkerSets DEF Counted, Everybody
  <2> QED BY <2>1, <2>2 DEF Course, Prepared
<1>4. ASSUME pc[Main] = "await_warmup_done", Everybody("warmup_done")
      PROVE  \A w \in Worker : stage[w] = 2 /\ pc[w] = "wait_prepare"
  <2>1. phase = "WARMUP"
    BY <1>4 DEF Course
  <2>2. WarmedUp = Worker
    BY <1>1, <1>4, WorkerSets DEF Counted, Everybody
  <2> QED BY <2>1, <2>2 DEF Course, WarmedUp
<1>5. ASSUME pc[Main] = "await_measurement_ready", Everybody("measurement_ready")
      PROVE  \A w \in Worker : stage[w] = 2 /\ pc[w] = "wait_phase"
  <2>1. phase = "PREPARE_MEASUREMENT"
    BY <1>5 DEF Course
  <2>2. Prepared(2) = Worker
    BY <1>1, <1>5, <2>1, WorkerSets DEF Counted, Everybody
  <2> QED BY <2>1, <2>2 DEF Course, Prepared
<1> QED BY <1>2, <1>3, <1>4, <1>5

\* A step of a worker keeps to the phase.
LEMMA CourseOfWorker ==
    ASSUME TypeInv, Course, NEW w \in Worker, WorkerStep(w) \/ SpuriousWakeup(w)
    PROVE  Course'
<1>0. PcType /\ w # Main /\ stage \in [Worker -> {1, 2}]
  BY WorkerFacts DEF TypeInv, PcType
<1>1. CASE InnerStep(w)
  <2>1. Inner(w)
    BY <1>0, <1>1, InnerSteps
  <2>2. \A u \in Worker \cup {Main} : pc[u] \notin TimedPlaces => pc'[u] = pc[u]
    BY <2>1 DEF Inner, Rests, TimedPlaces
  <2>3. \A u \in Worker : pc[u] \in TimedPlaces => pc'[u] \in TimedPlaces
    BY <2>1 DEF Inner, Rests, TimedPlaces
  <2>4. pc'[Main] = pc[Main]
    BY <2>2 DEF Course, TimedPlaces
  <2>5. phase' = phase /\ stage' = stage /\ success' = success
    BY <2>1 DEF Inner
  <2>6. phase \in {"WARMUP", "MEASUREMENT"}
    BY <2>1 DEF Inner, Course, TimedPlaces
  <2>7. "wait_prepare" \notin TimedPlaces
    BY DEF TimedPlaces
  <2>8. CASE phase = "WARMUP"
    BY <2>2, <2>3, <2>4, <2>5, <2>7, <2>8 DEF Course
  <2>9. CASE phase = "MEASUREMENT"
    BY <2>2, <2>3, <2>4, <2>5, <2>9 DEF Course
  <2> QED BY <2>6, <2>8, <2>9
<1>2. CASE ReportReady(w)
  <2>1. /\ pc[w] = "start" /\ Moves(w, "wait_prepare")
        /\ phase' = phase /\ stage' = stage /\ success' = success
    BY <1>0, <1>2, WorkerMoves DEF ReportReady, mainVars
  <2> QED BY <1>0, <2>1 DEF Course, Moves, Rests, TimedPlaces
<1>3. CASE WaitForPrepare(w)
  <2>1. /\ pc[w] = "wait_prepare"
        /\ \/ phase = "STOP" /\ Moves(w, "flush")
           \/ /\ phase = <<"PREPARE_WARMUP", "PREPARE_MEASUREMENT">>[stage[w]]
              /\ Moves(w, "prepare")
        /\ phase' = phase /\ stage' = stage /\ success' = success
    <3>1. "flush" \in WorkerPlace \cup MainPlace /\ "prepare" \in WorkerPlace \cup MainPlace
          /\ w \in Worker \cup {Main}
      BY DEF WorkerPlace, Untimed
    <3> QED BY <1>0, <1>3, <3>1, GotoMoves DEF WaitForPrepare, phaseVars, mainVars
  <2>2. phase = <<"PREPARE_WARMUP", "PREPARE_MEASUREMENT">>[stage[w]]
        => phase \in {"PREPARE_WARMUP", "PREPARE_MEASUREMENT"}
    BY <1>0
  <2> QED BY <1>0, <2>1, <2>2 DEF Course, Moves, Rests, TimedPlaces
<1>4. CASE Prepare(w)
  <2>1. /\ pc[w] = "prepare" /\ Moves(w, "wait_phase")
        /\ phase' = phase /\ stage' = stage /\ success' = success
    BY <1>0, <1>4, WorkerMoves DEF Prepare, mainVars
  <2> QED BY <1>0, <2>1 DEF Course, Moves, Rests, TimedPlaces
<1>5. CASE WaitForPhase(w)
  <2>1. /\ pc[w] = "wait_phase"
        /\ \/ phase = "STOP" /\ Moves(w, "flush")
           \/ phase = <<"WARMUP", "MEASUREMENT">>[stage[w]] /\ Moves(w, "enter")
        /\ phase' = phase /\ stage' = stage /\ success' = success
    <3>1. "flush" \in WorkerPlace \cup MainPlace /\ "enter" \in WorkerPlace \cup MainPlace
          /\ w \in Worker \cup {Main}
      BY DEF WorkerPlace, Untimed, TimedPlaces
    <3> QED BY <1>0, <1>5, <3>1, GotoMoves DEF WaitForPhase, phaseVars, mainVars
  <2>2. phase = <<"WARMUP", "MEASUREMENT">>[stage[w]]
        => (stage[w] = 1 /\ phase = "WARMUP") \/ (stage[w] = 2 /\ phase = "MEASUREMENT")
    BY <1>0
  <2> QED BY <1>0, <2>1, <2>2 DEF Course, Moves, Rests, TimedPlaces
<1>6. CASE LeavePhase(w)
  <2>1. /\ pc[w] = "leave" /\ Moves(w, IF stage[w] = 1 THEN "wait_prepare" ELSE "flush")
        /\ phase' = phase /\ success' = success
        /\ stage' = IF stage[w] = 1 THEN [stage EXCEPT ![w] = 2] ELSE stage
    BY <1>0, <1>6, WorkerMoves DEF LeavePhase, mainVars
  <2>2. (stage[w] = 1 /\ phase = "WARMUP") \/ (stage[w] = 2 /\ phase = "MEASUREMENT")
    BY <2>1 DEF Course
  <2> QED BY <1>0, <2>1, <2>2 DEF Course, Moves, Rests, TimedPlaces
<1>7. CASE Flush(w)
  <2>1. /\ pc[w] = "flush" /\ Moves(w, "ended")
        /\ phase' = phase /\ stage' = stage /\ success' = success
    BY <1>0, <1>7, WorkerMoves DEF Flush, phaseVars, mainVars
  <2> QED BY <1>0, <2>1 DEF Course, Moves, Rests, TimedPlaces
<1> QED BY <1>1, <1>2, <1>3, <1>4, <1>5, <1>6, <1>7 DEF WorkerStep, InnerStep

\* Main leads everybody from phase to phase.
LEMMA CourseOfMain ==
    ASSUME TypeInv, Course, Counted, MainStep
    PROVE  Course'
<1>0. PcType /\ created \in 0..threads
  BY DEF TypeInv, PcType
<1>1. CASE CreateWorker
  <2>1. pc[Main] = "create" /\ UNCHANGED <<phase, stage, success>>
    BY <1>1 DEF CreateWorker, phaseVars
  <2> QED BY <1>0, <1>1, <2>1, CreateMoves DEF Course
<1>2. ASSUME \/ CreateFails \/ PrepareWarmup \/ StartWarmup \/ PrepareMeasurement
             \/ StartMeasurement
      PROVE  \A w \in Worker : pc[w] \notin TimedPlaces => pc'[w] = pc[w]
  BY <1>0, <1>2, MainMoves, WorkerFacts DEF Moves, Rests, TimedPlaces
<1>3. CASE CreateFails
  <2>1. pc[Main] = "create" /\ phase' = "STOP" /\ UNCHANGED <<stage, success>> /\ pc'[Main] = "join"
    BY <1>0, <1>3, MainMoves DEF CreateFails, Stop, mainVars, Moves
  <2>2. phase = "WAITING"
    BY <2>1 DEF Course
  <2> QED BY <1>2, <1>3, <2>1, <2>2 DEF Course, TimedPlaces
<1>4. CASE PrepareWarmup
  <2>1. /\ pc[Main] = "await_ready" /\ phase' = "PREPARE_WARMUP" /\ UNCHANGED <<stage, success>>
        /\ pc'[Main] = "await_warmup_ready"
        /\ \A w \in Worker : stage[w] = 1 /\ pc[w] = "wait_prepare"
    BY <1>0, <1>4, MainMoves, AllSignalled DEF PrepareWarmup, mainVars, Moves
  <2> QED BY <1>2, <1>4, <2>1 DEF Course, TimedPlaces
<1>5. CASE StartWarmup
  <2>1. /\ pc[Main] = "await_warmup_ready" /\ UNCHANGED <<stage, success>>
        /\ phase' \in {"WARMUP", "STOP"}
        /\ pc'[Main] = IF phase' = "WARMUP" THEN "await_warmup_done" ELSE "join"
        /\ \A w \in Worker : stage[w] = 1 /\ pc[w] = "wait_phase"
    BY <1>0, <1>5, MainMoves, AllSignalled DEF StartWarmup, StartPhase, Stop, Moves
  <2> QED BY <1>2, <1>5, <2>1 DEF Course, TimedPlaces
<1>6. CASE PrepareMeasurement
  <2>1. /\ pc[Main] = "await_warmup_done" /\ UNCHANGED <<stage, success>>
        /\ phase' \in {"PREPARE_MEASUREMENT", "STOP"}
        /\ pc'[Main] = IF phase' = "STOP" THEN "join" ELSE "await_measurement_ready"
        /\ \A w \in Worker : stage[w] = 2 /\ pc[w] = "wait_prepare"
    BY <1>0, <1>6, MainMoves, AllSignalled DEF PrepareMeasurement, Stop, Moves, mainVars
  <2> QED BY <1>2, <1>6, <2>1 DEF Course, TimedPlaces
<1>7. CASE StartMeasurement
  <2>1. /\ pc[Main] = "await_measurement_ready" /\ UNCHANGED stage
        /\ phase' \in {"MEASUREMENT", "STOP"} /\ pc'[Main] = "join"
        /\ success' => phase' = "MEASUREMENT"
        /\ \A w \in Worker : stage[w] = 2 /\ pc[w] = "wait_phase"
    BY <1>0, <1>7, MainMoves, AllSignalled DEF StartMeasurement, StartPhase, Stop, Moves
  <2> QED BY <1>2, <1>7, <2>1 DEF Course, TimedPlaces
<1>8. CASE JoinWorkers \/ FlushAndTrim
  <2>0. success' => success
    BY <1>8 DEF JoinWorkers, FlushAndTrim, mainVars
  <2>1. /\ pc[Main] \in {"join", "trim"} /\ UNCHANGED <<phase, stage>>
        /\ pc'[Main] = "done" \/ (pc'[Main] = "trim" /\ success)
        /\ \A w \in Worker : pc'[w] = pc[w] \/ (pc[w] \in TimedPlaces /\ pc'[w] \in TimedPlaces)
    BY <1>0, <1>8, <2>0, MainMoves, WorkerFacts
    DEF JoinWorkers, FlushAndTrim, Moves, Rests, TimedPlaces, phaseVars
  <2>2. CASE phase = "MEASUREMENT"
    BY <2>0, <2>1, <2>2 DEF Course
  <2>3. CASE phase = "STOP"
    BY <2>0, <2>1, <2>3 DEF Course, TimedPlaces
  <2> QED BY <2>1, <2>2, <2>3 DEF Course
<1> QED BY <1>1, <1>3, <1>4, <1>5, <1>6, <1>7, <1>8 DEF MainStep

\* Main moves alone, and leaves what belongs to the workers.
LEMMA MainKeeps ==
    ASSUME PcType,
           \/ CreateFails \/ PrepareWarmup \/ StartWarmup \/ PrepareMeasurement
           \/ StartMeasurement \/ JoinWorkers \/ FlushAndTrim
    PROVE  /\ \A w \in Worker : pc'[w] = pc[w]
           /\ UNCHANGED <<workload, counters, failed, mailboxes, barrier, stage, ownVars, created>>
<1>1. \E place : Goto(Main, place)
  BY DEF CreateFails, PrepareWarmup, StartWarmup, PrepareMeasurement, StartMeasurement, JoinWorkers,
         FlushAndTrim, StartPhase, Stop
<1>2. \A w \in Worker : pc'[w] = pc[w]
  BY <1>1, WorkerFacts DEF Goto, PcType
<1>3. UNCHANGED <<workload, counters, failed, mailboxes, barrier, stage, ownVars, created>>
  BY DEF CreateFails, PrepareWarmup, StartWarmup, PrepareMeasurement, StartMeasurement, JoinWorkers,
         FlushAndTrim, StartPhase, phaseVars, ringVars, mainVars
<1> QED BY <1>2, <1>3

\* The workers that main waits for exist, and main trims when they have all ended.
LEMMA CreationOfWorker ==
    ASSUME TypeInv, Course, Creation, NEW w \in Worker, WorkerStep(w) \/ SpuriousWakeup(w)
    PROVE  Creation'
<1>0. PcType /\ w # Main /\ pc[Main] \notin TimedPlaces
  BY WorkerFacts DEF TypeInv, PcType, Course, TimedPlaces
<1>1. /\ pc[w] \notin {"absent", "ended"}
      /\ \E place \in WorkerPlace \ {"absent"} : Moves(w, place)
      /\ created' = created /\ phase' = phase
  <2>1. CASE InnerStep(w)
    <3>1. Inner(w)
      BY <1>0, <2>1, InnerSteps
    <3>2. pc' \in [Worker \cup {Main} -> WorkerPlace \cup MainPlace]
      <4>1. \E place : Moves(w, place)
        BY <1>0, <2>1, WorkerMoves, EnterMoves, QueueMoves DEF InnerStep
      <4> QED BY <4>1 DEF Moves
    <3>3. Moves(w, pc'[w]) /\ pc'[w] \in TimedPlaces
      BY <3>1, <3>2 DEF Inner, Moves
    <3> QED BY <3>1, <3>3 DEF Inner, WorkerPlace, TimedPlaces
  <2>2. CASE ReportReady(w) \/ WaitForPrepare(w) \/ Prepare(w)
    BY <1>0, <2>2, WorkerMoves DEF ReportReady, WaitForPrepare, Prepare, WorkerPlace, Untimed,
                                   phaseVars, mainVars
  <2>3. CASE WaitForPhase(w) \/ LeavePhase(w) \/ Flush(w)
    BY <1>0, <2>3, WorkerMoves DEF WaitForPhase, LeavePhase, Flush, WorkerPlace, Untimed,
                                   TimedPlaces, phaseVars, mainVars
  <2> QED BY <2>1, <2>2, <2>3 DEF WorkerStep, InnerStep
<1>2. pc'[Main] = pc[Main]
  BY <1>0, <1>1 DEF Moves, Rests, TimedPlaces
<1>3. \A u \in Worker : pc'[u] = "absent" <=> pc[u] = "absent"
  BY <1>1 DEF Moves, Rests
<1>4. pc[Main] # "trim"
  BY <1>1 DEF Creation
<1> QED BY <1>1, <1>2, <1>3, <1>4 DEF Creation

\* And so do the steps of main.
LEMMA CreationOfMain ==
    ASSUME TypeInv, Course, Creation, MainStep
    PROVE  Creation'
<1>0. PcType /\ created \in 0..threads /\ threads \in Nat /\ Worker \subseteq Nat
  BY WorkerFacts DEF TypeInv, PcType
<1>1. CASE CreateWorker
  <2>1. pc[Main] = "create" /\ phase' = phase
    BY <1>1 DEF CreateWorker, phaseVars
  <2>2. /\ created \in Worker /\ created < threads /\ created' = created + 1
        /\ pc'[created] = "start"
        /\ pc'[Main] = IF created + 1 = threads THEN "await_ready" ELSE "create"
        /\ \A u \in Worker : u # created => pc'[u] = pc[u]
    BY <1>0, <1>1, CreateMoves
  <2>3. ASSUME NEW u \in Worker PROVE pc'[u] = "absent" <=> u >= created'
    <3>1. pc[u] = "absent" <=> u >= created
      BY DEF Creation
    <3> QED BY <1>0, <2>2, <3>1
  <2> QED BY <1>0, <2>1, <2>2, <2>3 DEF Creation
<1>2. ASSUME \/ CreateFails \/ PrepareWarmup \/ StartWarmup \/ PrepareMeasurement
             \/ StartMeasurement \/ JoinWorkers \/ FlushAndTrim
      PROVE  Creation'
  <2>1. (\A w \in Worker : pc'[w] = pc[w]) /\ created' = created /\ failed' = failed
    BY <1>0, <1>2, MainKeeps
  <2>2. /\ pc'[Main] # "create"
        /\ phase' # "STOP" => phase # "STOP"
        /\ pc[Main] = "create" => phase' = "STOP"
    BY <1>0, <1>2, MainMoves
    DEF CreateFails, PrepareWarmup, StartWarmup, PrepareMeasurement, StartMeasurement, JoinWorkers,
        FlushAndTrim, StartPhase, Stop, Moves, phaseVars, Course
  <2>3. ASSUME pc'[Main] = "trim" PROVE ~failed /\ \A w \in Worker : pc[w] = "ended"
    <3>1. JoinWorkers /\ success' /\ ~failed
      BY <1>0, <1>2, <2>3, MainMoves DEF Moves
    <3>2. /\ phase = "MEASUREMENT" /\ pc[Main] = "join"
          /\ \A w \in 0..(created - 1) : pc[w] = "ended"
      BY <3>1 DEF Course, JoinWorkers
    <3>3. created = threads
      BY <3>2 DEF Creation
    <3>4. \A w \in Worker : w \in 0..(created - 1)
      BY <3>3 DEF Worker
    <3> QED BY <3>1, <3>2, <3>4
  <2> QED BY <2>1, <2>2, <2>3 DEF Creation
<1> QED BY <1>1, <1>2 DEF MainStep

\* Every worker signals each counter once.
LEMMA CountedOfWorker ==
    ASSUME TypeInv, Course, Counted, NEW w \in Worker, WorkerStep(w) \/ SpuriousWakeup(w)
    PROVE  Counted'
<1>0. PcType /\ w # Main /\ stage \in [Worker -> {1, 2}] /\ counters \in [CounterName -> Nat]
  BY WorkerFacts DEF TypeInv, PcType
<1>1. Ready \in SUBSET Worker /\ WarmedUp \in SUBSET Worker
      /\ Prepared(1) \in SUBSET Worker /\ Prepared(2) \in SUBSET Worker
  BY DEF Ready, WarmedUp, Prepared
<1>2. CASE InnerStep(w)
  <2>1. Inner(w)
    BY <1>0, <1>2, InnerSteps
  <2>2. Ready' = Ready
    BY <2>1 DEF Inner, Rests, TimedPlaces, Ready
  <2>3. WarmedUp' = WarmedUp /\ Prepared(1)' = Prepared(1) /\ Prepared(2)' = Prepared(2)
    BY <2>1 DEF Inner, Rests, TimedPlaces, WarmedUp, Prepared
  <2> QED BY <2>1, <2>2, <2>3 DEF Counted, Inner
<1>3. CASE ReportReady(w)
  <2>1. /\ pc[w] = "start" /\ Moves(w, "wait_prepare") /\ phase' = phase /\ stage' = stage
        /\ counters' = [counters EXCEPT !["ready"] = @ + 1]
    BY <1>0, <1>3, WorkerMoves DEF ReportReady, signal_counter
  <2>2. Ready' = Ready \cup {w} /\ w \notin Ready
    BY <2>1 DEF Ready, Moves, Rests
  <2>3. WarmedUp' = WarmedUp /\ Prepared(1)' = Prepared(1) /\ Prepared(2)' = Prepared(2)
    BY <2>1 DEF WarmedUp, Prepared, Moves, Rests
  <2>4. Cardinality(Ready') = Cardinality(Ready) + 1
    BY <1>1, <2>2, WorkerSets
  <2> QED BY <1>0, <2>1, <2>3, <2>4 DEF Counted, CounterName
<1>4. CASE WaitForPrepare(w)
  <2>1. /\ pc[w] = "wait_prepare"
        /\ Moves(w, "flush") \/ Moves(w, "prepare")
        /\ Moves(w, "flush") => phase = "STOP"
        /\ phase' = phase /\ stage' = stage /\ counters' = counters
    <3>1. WaitForPrepare(w) => phase = "STOP" \/ pc' = [pc EXCEPT ![w] = "prepare"]
      BY DEF WaitForPrepare, Goto
    <3> QED BY <1>0, <1>4, <3>1, WorkerMoves DEF WaitForPrepare, phaseVars, Moves, PcType
  <2>2. Ready' = Ready /\ WarmedUp' = WarmedUp
    BY <2>1 DEF Ready, WarmedUp, Moves, Rests
  <2>3. phase # "STOP" => Prepared(1)' = Prepared(1) /\ Prepared(2)' = Prepared(2)
    BY <2>1 DEF Prepared, Moves, Rests
  <2> QED BY <2>1, <2>2, <2>3 DEF Counted
<1>5. CASE Prepare(w)
  <2>1. /\ pc[w] = "prepare" /\ Moves(w, "wait_phase") /\ phase' = phase /\ stage' = stage
        /\ counters' = [counters EXCEPT
               ![<<"warmup_ready", "measurement_ready">>[stage[w]]] = @ + 1]
    BY <1>0, <1>5, WorkerMoves DEF Prepare, signal_counter
  <2>2. Ready' = Ready /\ WarmedUp' = WarmedUp
    BY <2>1 DEF Ready, WarmedUp, Moves, Rests
  <2>3. CASE stage[w] = 1
    <3>1. counters' = [counters EXCEPT !["warmup_ready"] = @ + 1]
      BY <2>1, <2>3
    <3>2. Prepared(1)' = Prepared(1) \cup {w} /\ w \notin Prepared(1)
      BY <2>1, <2>3 DEF Prepared, Moves, Rests
    <3>3. Prepared(2)' = Prepared(2)
      BY <2>1, <2>3 DEF Prepared, Moves, Rests
    <3>4. Cardinality(Prepared(1)') = Cardinality(Prepared(1)) + 1
      BY <1>1, <3>2, WorkerSets
    <3> QED BY <1>0, <2>1, <2>2, <3>1, <3>3, <3>4 DEF Counted, CounterName
  <2>4. CASE stage[w] = 2
    <3>1. counters' = [counters EXCEPT !["measurement_ready"] = @ + 1]
      BY <2>1, <2>4
    <3>2. Prepared(2)' = Prepared(2) \cup {w} /\ w \notin Prepared(2)
      BY <2>1, <2>4 DEF Prepared, Moves, Rests
    <3>3. Prepared(1)' = Prepared(1)
      BY <2>1, <2>4 DEF Prepared, Moves, Rests
    <3>4. Cardinality(Prepared(2)') = Cardinality(Prepared(2)) + 1
      BY <1>1, <3>2, WorkerSets
    <3> QED BY <1>0, <2>1, <2>2, <3>1, <3>3, <3>4 DEF Counted, CounterName
  <2> QED BY <1>0, <2>3, <2>4
<1>6. CASE WaitForPhase(w) \/ Flush(w)
  <2>1. /\ pc[w] \in {"wait_phase", "flush"}
        /\ pc'[w] \in {"flush", "enter", "ended"}
        /\ \A u \in Worker : u # w => Rests(u)
        /\ phase' = phase /\ stage' = stage /\ counters' = counters
    BY <1>0, <1>6, WorkerMoves DEF WaitForPhase, Flush, phaseVars, Moves
  <2>2. Ready' = Ready /\ WarmedUp' = WarmedUp
    BY <2>1 DEF Ready, WarmedUp, Rests
  <2>3. Prepared(1)' = Prepared(1) /\ Prepared(2)' = Prepared(2)
    BY <2>1 DEF Prepared, Rests
  <2> QED BY <2>1, <2>2, <2>3 DEF Counted
<1>7. CASE LeavePhase(w)
  <2>1. /\ pc[w] = "leave" /\ Moves(w, IF stage[w] = 1 THEN "wait_prepare" ELSE "flush")
        /\ phase' = phase
        /\ stage' = IF stage[w] = 1 THEN [stage EXCEPT ![w] = 2] ELSE stage
        /\ counters' = IF stage[w] = 1 THEN [counters EXCEPT !["warmup_done"] = @ + 1] ELSE counters
    BY <1>0, <1>7, WorkerMoves DEF LeavePhase, signal_counter
  <2>2. Ready' = Ready
    BY <2>1 DEF Ready, Moves, Rests
  <2>3. Prepared(1)' = Prepared(1) /\ Prepared(2)' = Prepared(2)
    <3>1. CASE stage[w] = 1
      BY <1>0, <2>1, <3>1 DEF Prepared, Moves, Rests
    <3>2. CASE stage[w] = 2
      BY <1>0, <2>1, <3>2 DEF Prepared, Moves, Rests
    <3> QED BY <1>0, <3>1, <3>2
  <2>4. CASE stage[w] = 1
    <3>1. WarmedUp' = WarmedUp \cup {w} /\ w \notin WarmedUp
      BY <1>0, <2>1, <2>4 DEF WarmedUp
    <3>2. Cardinality(WarmedUp') = Cardinality(WarmedUp) + 1
      BY <1>1, <3>1, WorkerSets
    <3> QED BY <1>0, <2>1, <2>2, <2>3, <2>4, <3>2 DEF Counted, CounterName
  <2>5. CASE stage[w] # 1
    <3>1. WarmedUp' = WarmedUp
      BY <2>1, <2>5 DEF WarmedUp
    <3> QED BY <2>1, <2>2, <2>3, <2>5, <3>1 DEF Counted
  <2> QED BY <2>4, <2>5
<1> QED BY <1>2, <1>3, <1>4, <1>5, <1>6, <1>7 DEF WorkerStep, InnerStep

\* Main changes no counter, and a created worker is counted nowhere yet.
LEMMA CountedOfMain ==
    ASSUME TypeInv, Course, Creation, Counted, MainStep
    PROVE  Counted'
<1>0. PcType /\ created \in 0..threads
  BY DEF TypeInv, PcType
<1>1. /\ counters' = counters /\ stage' = stage
      /\ \A w \in Worker : pc'[w] = pc[w] \/ (pc[w] = "absent" /\ pc'[w] = "start")
      /\ phase' # "STOP" => phase # "STOP"
  <2>1. CASE CreateWorker
    BY <1>0, <2>1, CreateMoves, WorkerFacts DEF CreateWorker, Creation, phaseVars
  <2>2. CASE ~CreateWorker
    BY <1>0, <2>2, MainKeeps
    DEF MainStep, CreateFails, PrepareWarmup, StartWarmup, PrepareMeasurement, StartMeasurement,
        JoinWorkers, FlushAndTrim, StartPhase, Stop, phaseVars, Course
  <2> QED BY <2>1, <2>2
<1>2. Ready' = Ready
  BY <1>1 DEF Ready
<1>3. WarmedUp' = WarmedUp /\ Prepared(1)' = Prepared(1) /\ Prepared(2)' = Prepared(2)
  BY <1>1 DEF WarmedUp, Prepared
<1> QED BY <1>1, <1>2, <1>3 DEF Counted

-----------------------------------------------------------------------------
(***************************************************************************)
(* The workloads apart.                                                    *)
(***************************************************************************)

\* What every step of a worker leaves alone.
LEMMA WorkerKeeps ==
    ASSUME PcType, NEW w \in Worker, WorkerStep(w) \/ SpuriousWakeup(w)
    PROVE  /\ \E place : Moves(w, place)
           /\ workload' = workload /\ phase' = phase
           /\ failed => failed'
<1>1. CASE InnerStep(w)
  <2>1. \E place : Moves(w, place)
    BY <1>1, WorkerMoves, EnterMoves, QueueMoves DEF InnerStep
  <2>2. workload' = workload /\ phase' = phase
    BY <1>1, InnerSteps DEF Inner
  <2>3. ASSUME failed PROVE failed'
    <3>1. CASE EnterPhase(w) \/ RingDecide(w) \/ QueuePush(w) \/ QueueAbort(w) \/ ProducerDone(w)
               \/ SpuriousWakeup(w)
      BY <2>3, <3>1
      DEF EnterPhase, RingDecide, QueuePush, QueueAbort, ProducerDone, SpuriousWakeup
    <3>2. CASE run_general_phase(w)
      BY <2>3, <3>2 DEF run_general_phase, Leave
    <3>3. CASE RingSend(w) \/ RingRead(w)
      BY <2>3, <3>3 DEF RingSend, RingRead
    <3>4. CASE RingNext(w)
      BY <2>3, <3>4 DEF RingNext, Leave
    <3>5. CASE ProduceItem(w) \/ Pushed(w) \/ ConsumeItem(w)
      BY <2>3, <3>5 DEF ProduceItem, Pushed, ConsumeItem
    <3>6. CASE QueuePop(w)
      BY <2>3, <3>6 DEF QueuePop, Leave
    <3> QED BY <1>1, <3>1, <3>2, <3>3, <3>4, <3>5, <3>6 DEF InnerStep
  <2> QED BY <2>1, <2>2, <2>3
<1>2. CASE ~InnerStep(w)
  <2>1. \E place : Moves(w, place)
    BY <1>2, WorkerMoves DEF InnerStep, WorkerStep
  <2>2. workload' = workload /\ phase' = phase
    BY <1>2 DEF InnerStep, WorkerStep, ReportReady, WaitForPrepare, Prepare, WaitForPhase,
                LeavePhase, Flush, phaseVars
  <2>3. ASSUME failed PROVE failed'
    BY <1>2, <2>3 DEF InnerStep, WorkerStep, ReportReady, WaitForPrepare, Prepare, WaitForPhase,
                      LeavePhase, Flush
  <2> QED BY <2>1, <2>2, <2>3
<1> QED BY <1>1, <1>2

\* The places of a worker in each workload.
LEMMA HomeStep ==
    ASSUME PcType, Apart, NEW w \in Worker, WorkerStep(w) \/ SpuriousWakeup(w),
           workload \in WorkloadName
    PROVE  \A u \in Worker : AtHome(u)'
<1>1. PICK place : Moves(w, place)
  BY WorkerKeeps
<1>2. workload' = workload /\ (failed => failed') /\ \A u \in Worker : AtHome(u)
  BY WorkerKeeps DEF Apart
<1>3. ASSUME NEW u \in Worker, u # w PROVE AtHome(u)'
  <2>1. Rests(u) /\ AtHome(u)
    BY <1>1, <1>2, <1>3 DEF Moves
  <2> QED BY <1>2, <2>1 DEF AtHome, Rests, RingPlaces, ProducerPlaces, ConsumerPlaces, IsProducer
<1>4. AtHome(w)'
  <2>1. CASE \/ ReportReady(w) \/ WaitForPrepare(w) \/ Prepare(w) \/ WaitForPhase(w)
             \/ LeavePhase(w) \/ Flush(w)
    <3>1. pc'[w] \in {"wait_prepare", "flush", "prepare", "wait_phase", "enter", "ended", "leave"}
      BY <2>1, WorkerMoves DEF Moves
    <3> QED BY <3>1 DEF AtHome, RingPlaces, ProducerPlaces, ConsumerPlaces
  <2>2. CASE EnterPhase(w)
    <3>1. \/ pc'[w] = "leave"
          \/ workload = "ring" /\ pc'[w] = "ring_send"
          \/ workload \in General /\ pc'[w] = "general"
          \/ workload = "handoff" /\ IsProducer(w) /\ pc'[w] = "produce"
          \/ workload = "handoff" /\ ~IsProducer(w) /\ pc'[w] = "pop"
      BY <2>2, EnterMoves DEF Moves, WorkloadName
    <3> QED BY <1>2, <3>1 DEF AtHome, RingPlaces, ProducerPlaces, ConsumerPlaces, IsProducer
  <2>3. CASE RingSend(w) \/ RingRead(w) \/ RingDecide(w) \/ RingNext(w)
    <3>1. pc'[w] \in RingPlaces \cup {"leave"}
      BY <2>3, WorkerMoves DEF Moves, RingPlaces
    <3>2. workload = "ring"
      BY <1>2, <2>3 DEF AtHome, RingPlaces, RingSend, RingRead, RingDecide, RingNext
    <3> QED BY <1>2, <3>1, <3>2 DEF AtHome, RingPlaces, ProducerPlaces, ConsumerPlaces
  <2>4. CASE ProduceItem(w) \/ QueuePush(w) \/ Pushed(w) \/ ProducerDone(w)
    <3>1. \/ pc'[w] \in ProducerPlaces \cup {"leave"}
          \/ pc'[w] = "abort" /\ failed'
      BY <2>4, QueueMoves DEF Moves, ProducerPlaces
    <3>2. workload = "handoff" /\ IsProducer(w)
      BY <1>2, <2>4 DEF AtHome, ProducerPlaces, ProduceItem, QueuePush, Pushed, ProducerDone
    <3> QED BY <1>2, <3>1, <3>2
            DEF AtHome, RingPlaces, ProducerPlaces, ConsumerPlaces, IsProducer
  <2>5. CASE QueuePop(w) \/ ConsumeItem(w)
    <3>1. \/ pc'[w] \in ConsumerPlaces \cup {"leave"}
          \/ pc'[w] = "abort" /\ failed'
      BY <2>5, QueueMoves DEF Moves, ConsumerPlaces
    <3>2. workload = "handoff" /\ ~IsProducer(w)
      BY <1>2, <2>5 DEF AtHome, ConsumerPlaces, QueuePop, ConsumeItem
    <3> QED BY <1>2, <3>1, <3>2
            DEF AtHome, RingPlaces, ProducerPlaces, ConsumerPlaces, IsProducer
  <2>6. CASE QueueAbort(w)
    <3>1. pc[w] = "abort" /\ pc'[w] = IF IsProducer(w) THEN "producer_done" ELSE "leave"
      BY <2>6, QueueMoves DEF QueueAbort, Moves
    <3> QED BY <1>2, <3>1 DEF AtHome, RingPlaces, ProducerPlaces, ConsumerPlaces, IsProducer
  <2>7. CASE SpuriousWakeup(w)
    <3>1. Rests(w)
      BY <2>7, QueueMoves DEF Moves, Rests
    <3> QED BY <1>2, <3>1 DEF AtHome, Rests, RingPlaces, ProducerPlaces, ConsumerPlaces, IsProducer
  <2>8. CASE run_general_phase(w)
    <3>1. pc[w] = "general" /\ pc'[w] \in {"leave", "general"}
      BY <2>8, WorkerMoves DEF run_general_phase, Moves
    <3> QED BY <1>2, <3>1 DEF AtHome, RingPlaces, ProducerPlaces, ConsumerPlaces
  <2> QED BY <2>1, <2>2, <2>3, <2>4, <2>5, <2>6, <2>7, <2>8 DEF WorkerStep
<1> QED BY <1>3, <1>4

\* Steps by workload: the ring, the handoff, and what all of them share.
RingStep(w) == RingSend(w) \/ RingRead(w) \/ RingDecide(w) \/ RingNext(w)

QueueStep(w) ==
    \/ ProduceItem(w) \/ QueuePush(w) \/ Pushed(w) \/ QueueAbort(w)
    \/ ProducerDone(w) \/ QueuePop(w) \/ ConsumeItem(w) \/ SpuriousWakeup(w)

OuterStep(w) ==
    \/ ReportReady(w) \/ WaitForPrepare(w) \/ Prepare(w) \/ WaitForPhase(w)
    \/ EnterPhase(w) \/ LeavePhase(w) \/ Flush(w) \/ run_general_phase(w)

\* The steps of a workload are taken in that workload, and touch its own blocks only.
LEMMA StepsApart ==
    ASSUME PcType, Apart, NEW w \in Worker
    PROVE  /\ RingStep(w) =>
                  workload = "ring" /\ UNCHANGED <<items, producers_remaining, hand, slots>>
           /\ QueueStep(w) => workload = "handoff" /\ UNCHANGED <<barrier, mailboxes, slots>>
           /\ OuterStep(w) => UNCHANGED <<barrier, mailboxes, items, producers_remaining, hand>>
           /\ WorkerStep(w) \/ SpuriousWakeup(w) <=> RingStep(w) \/ QueueStep(w) \/ OuterStep(w)
<1>1. AtHome(w)
  BY DEF Apart
<1>2. ASSUME RingStep(w)
      PROVE  workload = "ring" /\ UNCHANGED <<items, producers_remaining, hand, slots>>
  BY <1>1, <1>2 DEF RingStep, RingSend, RingRead, RingDecide, RingNext, AtHome, RingPlaces,
                    queueVars, ownVars
<1>3. ASSUME QueueStep(w) PROVE workload = "handoff"
  <2>1. pc[w] \in ProducerPlaces \cup ConsumerPlaces \cup {"abort"}
    BY <1>3 DEF QueueStep, ProduceItem, QueuePush, Pushed, QueueAbort, ProducerDone, QueuePop,
                ConsumeItem, SpuriousWakeup, NotFullSleepers, NotEmptySleepers, ProducerPlaces,
                ConsumerPlaces
  <2> QED BY <1>1, <2>1 DEF AtHome
<1>4. ASSUME QueueStep(w) PROVE UNCHANGED <<barrier, mailboxes, slots>>
  BY <1>4 DEF QueueStep, ProduceItem, QueuePush, Pushed, QueueAbort, ProducerDone, QueuePop,
              ConsumeItem, SpuriousWakeup, ringVars, ownVars
<1>5. ASSUME OuterStep(w) PROVE UNCHANGED <<barrier, mailboxes, items, producers_remaining, hand>>
  BY <1>5 DEF OuterStep, ReportReady, WaitForPrepare, Prepare, WaitForPhase, EnterPhase, LeavePhase,
              Flush, run_general_phase, ringVars, queueVars, ownVars
<1>6. WorkerStep(w) \/ SpuriousWakeup(w) <=> RingStep(w) \/ QueueStep(w) \/ OuterStep(w)
  BY DEF WorkerStep, RingStep, QueueStep, OuterStep
<1> QED BY <1>2, <1>3, <1>4, <1>5, <1>6

\* A worker of another workload has no slots to fill or to free.
LEMMA SlotSteps ==
    ASSUME TypeInv, Apart, NEW w \in Worker, OuterStep(w), workload \notin General
    PROVE  /\ UNCHANGED storage
           /\ \A u \in Worker : slots'[u] = 0
<1>1. slots \in [Worker -> Nat] /\ storage \in [Worker -> Int] /\ \A u \in Worker : slots[u] = 0
  BY DEF TypeInv, Apart
<1>2. CASE Prepare(w)
  <2>1. held = 0
    BY DEF held, General
  <2>2. FillSlots(w, 0)
    BY <1>2, <2>1 DEF Prepare
  <2> QED BY <1>1, <2>2 DEF FillSlots
<1>3. CASE WaitForPhase(w) \/ LeavePhase(w)
  BY <1>1, <1>3 DEF WaitForPhase, LeavePhase, cleanup_slots
<1>4. CASE ReportReady(w) \/ WaitForPrepare(w) \/ EnterPhase(w) \/ Flush(w)
  BY <1>1, <1>4 DEF ReportReady, WaitForPrepare, EnterPhase, Flush, ownVars
<1>5. ~run_general_phase(w)
  BY DEF run_general_phase, Apart, AtHome
<1> QED BY <1>2, <1>3, <1>4, <1>5 DEF OuterStep

\* No step takes a worker or a block into the code of another workload.
LEMMA ApartOfWorker ==
    ASSUME TypeInv, Apart, NEW w \in Worker, WorkerStep(w) \/ SpuriousWakeup(w)
    PROVE  Apart'
<1>0. PcType /\ workload \in WorkloadName
  BY DEF TypeInv, PcType
<1>1. (\A u \in Worker : AtHome(u)') /\ workload' = workload
  BY <1>0, HomeStep, WorkerKeeps
<1>2. CASE RingStep(w)
  BY <1>0, <1>1, <1>2, StepsApart DEF Apart
<1>3. CASE QueueStep(w)
  BY <1>0, <1>1, <1>3, StepsApart DEF Apart
<1>4. CASE OuterStep(w)
  BY <1>0, <1>1, <1>4, StepsApart, SlotSteps DEF Apart
<1> QED BY <1>0, <1>2, <1>3, <1>4, StepsApart

LEMMA ApartOfMain ==
    ASSUME TypeInv, Apart, MainStep
    PROVE  Apart'
<1>0. PcType /\ created \in 0..threads
  BY DEF TypeInv, PcType
<1>1. CASE CreateWorker
  <2>1. \A u \in Worker : pc'[u] = pc[u] \/ pc'[u] = "start"
    BY <1>0, <1>1, CreateMoves
  <2>2. UNCHANGED <<workload, failed, barrier, items, hand, slots>>
    BY <1>1 DEF CreateWorker, ringVars, queueVars, ownVars
  <2>3. \A u \in Worker : AtHome(u)'
    BY <2>1, <2>2 DEF Apart, AtHome, RingPlaces, ProducerPlaces, ConsumerPlaces, IsProducer
  <2> QED BY <2>2, <2>3 DEF Apart
<1>2. CASE ~CreateWorker
  <2>1. (\A u \in Worker : pc'[u] = pc[u]) /\ UNCHANGED <<workload, failed, barrier, ownVars>>
    BY <1>0, <1>2, MainKeeps DEF MainStep
  <2>2. workload # "handoff" => UNCHANGED items
    BY <1>2 DEF MainStep, CreateFails, PrepareWarmup, StartWarmup, PrepareMeasurement,
                StartMeasurement, JoinWorkers, FlushAndTrim, StartPhase, reset_phase_state,
                queueVars
  <2>3. \A u \in Worker : AtHome(u)'
    BY <2>1 DEF Apart, AtHome, IsProducer
  <2> QED BY <2>1, <2>2, <2>3 DEF Apart, ownVars
<1> QED BY <1>1, <1>2

\* Nobody sleeps outside the handoff.
LEMMA NobodyWoken ==
    ASSUME PcType, Apart, NEW w \in Worker, WorkerStep(w) \/ SpuriousWakeup(w),
           workload # "handoff"
    PROVE  \A u \in Worker : u # w => pc'[u] = pc[u]
<1>1. PICK place : Moves(w, place)
  BY WorkerKeeps
<1> QED BY <1>1 DEF Moves, Rests, Apart, AtHome, ProducerPlaces, ConsumerPlaces

\* A worker that keeps its blocks allocates and frees its own.
LEMMA SlotsOfWorker ==
    ASSUME TypeInv, Course, Apart, SlotsInv, NEW w \in Worker, WorkerStep(w) \/ SpuriousWakeup(w)
    PROVE  SlotsInv'
<1>0. /\ PcType /\ workload' = workload /\ phase' = phase /\ (failed => failed')
      /\ slots \in [Worker -> Nat] /\ storage \in [Worker -> Int]
  BY WorkerKeeps DEF TypeInv, PcType
<1> SUFFICES ASSUME workload \in General PROVE \A u \in Worker : SlotsOK(u)'
  BY <1>0 DEF SlotsInv
<1>1. workload # "ring" /\ workload # "handoff" /\ \A u \in Worker : SlotsOK(u)
  BY NotGeneral DEF SlotsInv
<1>2. OuterStep(w) /\ \A u \in Worker : u # w => pc'[u] = pc[u]
  BY <1>0, <1>1, StepsApart, NobodyWoken
<1>3. ASSUME NEW u \in Worker, u # w, slots'[u] = slots[u], storage'[u] = storage[u]
      PROVE  SlotsOK(u)'
  BY <1>0, <1>1, <1>2, <1>3 DEF SlotsOK, Mismatched, Gone
<1>4. CASE Prepare(w)
  <2>1. pc[w] = "prepare" /\ pc'[w] = "wait_phase"
    BY <1>0, <1>4, WorkerMoves DEF Prepare, Moves
  <2>2. PICK n \in Nat : FillSlots(w, n)
    BY <1>4, HeldIsNat DEF Prepare
  <2>3. /\ slots'[w] = slots[w] + n /\ storage'[w] = storage[w] + n
        /\ \A u \in Worker : u # w => slots'[u] = slots[u] /\ storage'[u] = storage[u]
    BY <1>0, <2>2 DEF FillSlots
  <2>4. storage[w] = slots[w]
    BY <1>1, <2>1 DEF SlotsOK, Mismatched, Gone
  <2>5. SlotsOK(w)'
    BY <2>1, <2>3, <2>4 DEF SlotsOK
  <2> QED BY <1>3, <2>3, <2>5
<1>5. CASE WaitForPhase(w) \/ LeavePhase(w)
  <2>1. CASE UNCHANGED <<slots, storage>> /\ pc[w] = "wait_phase" /\ pc'[w] = "enter"
    BY <1>1, <1>3, <2>1 DEF SlotsOK, Mismatched, Gone
  <2>2. CASE cleanup_slots(w)
    <3>1. /\ slots'[w] = 0 /\ storage'[w] = storage[w] - slots[w]
          /\ \A u \in Worker : u # w => slots'[u] = slots[u] /\ storage'[u] = storage[u]
      BY <1>0, <2>2 DEF cleanup_slots
    <3>2. SlotsOK(w)'
      <4>1. slots[w] \in Nat /\ storage[w] \in Int
        BY <1>0
      <4>2. CASE storage[w] = slots[w]
        BY <3>1, <4>1, <4>2 DEF SlotsOK
      <4>3. CASE Mismatched(w)
        <5>1. /\ pc[w] = "leave" /\ pc'[w] \in {"wait_prepare", "flush"}
              /\ pc'[w] = "wait_prepare" => stage[w] = 1
          BY <1>0, <1>5, <4>3, WorkerMoves DEF WaitForPhase, LeavePhase, Moves, Mismatched, Gone
        <5>2. pc'[w] = "wait_prepare" => phase = "WARMUP"
          BY <5>1 DEF Course, TimedPlaces
        <5>3. \/ workload = "fixed" /\ storage'[w] = slots'[w] + 1
              \/ workload = "mixed" /\ storage'[w] = slots'[w] - 1
          BY <3>1, <4>1, <4>3 DEF Mismatched
        <5>4. Mismatched(w)'
          BY <1>0, <4>3, <5>1, <5>2, <5>3 DEF Mismatched, Gone
        <5> QED BY <3>1, <5>4 DEF SlotsOK
      <4> QED BY <1>1, <4>2, <4>3 DEF SlotsOK
    <3> QED BY <1>3, <3>1, <3>2
  <2> QED BY <1>0, <1>5, <2>1, <2>2 DEF WaitForPhase, LeavePhase, Goto, PcType
<1>6. CASE ReportReady(w) \/ WaitForPrepare(w) \/ EnterPhase(w) \/ Flush(w)
  <2>1. UNCHANGED <<slots, storage>>
    BY <1>6 DEF ReportReady, WaitForPrepare, EnterPhase, Flush, ownVars
  <2>2. CASE EnterPhase(w)
    <3>1. pc[w] = "enter" /\ pc'[w] \in {"leave", "general"}
      BY <1>0, <1>1, <2>2, EnterMoves DEF EnterPhase, Moves
    <3> QED BY <1>1, <1>3, <2>1, <3>1 DEF SlotsOK, Mismatched, Gone
  <2>3. CASE ~EnterPhase(w)
    <3>1. /\ pc[w] \in {"start", "wait_prepare", "flush"}
          /\ pc[w] = "flush" => pc'[w] = "ended"
          /\ pc[w] = "wait_prepare" =>
                 \/ pc'[w] = "flush"
                 \/ phase \in {"PREPARE_WARMUP", "PREPARE_MEASUREMENT"}
      <4>1. stage[w] \in {1, 2}
        BY DEF TypeInv
      <4>2. phase = <<"PREPARE_WARMUP", "PREPARE_MEASUREMENT">>[stage[w]]
            => phase \in {"PREPARE_WARMUP", "PREPARE_MEASUREMENT"}
        BY <4>1
      <4> QED BY <1>0, <1>6, <2>3, <4>2 DEF ReportReady, WaitForPrepare, Flush, Goto, PcType
    <3>2. Mismatched(w) => Mismatched(w)'
      BY <1>0, <2>1, <3>1 DEF Mismatched, Gone
    <3> QED BY <1>1, <1>3, <2>1, <3>1, <3>2 DEF SlotsOK
  <2> QED BY <2>2, <2>3
<1>7. CASE run_general_phase(w)
  <2>1. pc[w] = "general" /\ pc'[w] \in {"leave", "general"}
    BY <1>0, <1>7, WorkerMoves DEF run_general_phase, Moves
  <2>2. storage[w] = slots[w] /\ slots[w] \in Nat
    BY <1>0, <1>1, <2>1 DEF SlotsOK, Mismatched, Gone
  <2>3. /\ \A u \in Worker : u # w => slots'[u] = slots[u] /\ storage'[u] = storage[u]
        /\ \/ storage'[w] = slots'[w]
           \/ /\ failed' /\ Fails("check") /\ pc'[w] = "leave"
              /\ \/ workload = "fixed" /\ storage'[w] = slots'[w] + 1
                 \/ workload = "mixed" /\ storage'[w] = slots'[w] - 1
    <3>1. CASE FillSlots(w, 1) \/ slot_release(w)
      BY <1>0, <2>2, <3>1 DEF FillSlots, slot_release, Deallocate
    <3>2. CASE UNCHANGED <<slots, storage>>
      BY <2>2, <3>2
    <3>3. CASE /\ failed' /\ Fails("check") /\ Goto(w, "leave") /\ UNCHANGED slots
               /\ \/ workload = "fixed" /\ storage' = [storage EXCEPT ![w] = @ + 1]
                  \/ workload = "mixed" /\ Deallocate(w)
      BY <1>0, <2>2, <3>3 DEF Deallocate, Goto, PcType
    <3> QED BY <1>7, <3>1, <3>2, <3>3, EntryDoes
  <2>4. SlotsOK(w)'
    BY <1>0, <2>1, <2>3 DEF SlotsOK, Mismatched, Gone
  <2> QED BY <1>3, <2>3, <2>4
<1> QED BY <1>2, <1>4, <1>5, <1>6, <1>7 DEF OuterStep

\* Main leaves the slots alone, and sees a failure before anybody prepares again.
LEMMA SlotsOfMain ==
    ASSUME TypeInv, Course, Creation, SlotsInv, MainStep
    PROVE  SlotsInv'
<1>0. PcType /\ created \in 0..threads
  BY DEF TypeInv, PcType
<1>1. CASE CreateWorker
  <2>1. /\ created \in Worker /\ \A u \in Worker : u # created => pc'[u] = pc[u]
        /\ UNCHANGED <<workload, phase, failed, slots, storage>>
    BY <1>0, <1>1, CreateMoves DEF CreateWorker, ownVars, phaseVars
  <2>2. pc[created] = "absent"
    BY <1>0, <2>1 DEF Creation
  <2>3. ASSUME NEW u \in Worker, SlotsOK(u) PROVE SlotsOK(u)'
    BY <2>1, <2>2, <2>3 DEF SlotsOK, Mismatched, Gone
  <2> QED BY <2>1, <2>3 DEF SlotsInv
<1>2. CASE ~CreateWorker
  <2>1. /\ \A u \in Worker : pc'[u] = pc[u]
        /\ UNCHANGED <<workload, failed, slots, storage>>
    BY <1>0, <1>2, MainKeeps DEF MainStep, ownVars
  <2>2. failed /\ phase \in {"WARMUP", "STOP"} => phase' \in {"WARMUP", "STOP"}
    BY <1>2 DEF MainStep, CreateFails, PrepareWarmup, StartWarmup, PrepareMeasurement,
                StartMeasurement, JoinWorkers, FlushAndTrim, StartPhase, Stop, phaseVars, Course
  <2>3. ASSUME NEW u \in Worker, SlotsOK(u) PROVE SlotsOK(u)'
    BY <2>1, <2>2, <2>3 DEF SlotsOK, Mismatched, Gone
  <2> QED BY <2>1, <2>3 DEF SlotsInv
<1> QED BY <1>1, <1>2

-----------------------------------------------------------------------------
(***************************************************************************)
(* The ring.                                                               *)
(***************************************************************************)

\* The parts of a round exclude each other.
LEMMA PartsApart ==
    /\ ~(Sending /\ Reading) /\ ~(Sending /\ Deciding) /\ ~(Reading /\ Deciding)
    /\ ~(Sending /\ Reading)' /\ ~(Sending /\ Deciding)' /\ ~(Reading /\ Deciding)'
<1>1. 0 \in Worker
  BY WorkerFacts DEF Worker
<1>2. ~(Sending /\ Reading) /\ ~(Sending /\ Deciding) /\ ~(Reading /\ Deciding)
  BY <1>1 DEF Sending, Reading, Deciding
<1>3. ~(Sending /\ Reading)' /\ ~(Sending /\ Deciding)' /\ ~(Reading /\ Deciding)'
  BY <1>1 DEF Sending, Reading, Deciding
<1> QED BY <1>2, <1>3

\* Which blocks are on their way in each part.
LEMMA SentIs ==
    ASSUME NEW w \in Worker
    PROVE  /\ Sending => (Sent(w) <=> mailboxes[Successor(w)] # None /\ pc[w] = "ring_read")
           /\ Reading => (Sent(w) <=> /\ mailboxes[Successor(w)] # None
                                      /\ pc[Successor(w)] = "ring_read")
           /\ Deciding => ~Sent(w)
           /\ Sending' => (Sent(w)' <=> mailboxes'[Successor(w)] # None /\ pc'[w] = "ring_read")
           /\ Reading' => (Sent(w)' <=> /\ mailboxes'[Successor(w)] # None
                                        /\ pc'[Successor(w)] = "ring_read")
           /\ Deciding' => ~Sent(w)'
<1>1. Successor(w)' = Successor(w)
  BY DEF Successor
<1>2. Sent(w) <=> /\ mailboxes[Successor(w)] # None
                  /\ \/ Sending /\ pc[w] = "ring_read"
                     \/ Reading /\ pc[Successor(w)] = "ring_read"
  BY DEF Sent
<1>3. Sent(w)' <=> /\ mailboxes'[Successor(w)] # None
                   /\ \/ Sending' /\ pc'[w] = "ring_read"
                      \/ Reading' /\ pc'[Successor(w)] = "ring_read"
  BY <1>1 DEF Sent
<1> QED BY <1>2, <1>3, PartsApart

\* A mailbox holds nothing or a block of the predecessor, which is live if it is fresh.
RingBlocks ==
    \A w \in Worker : /\ mailboxes[Successor(w)] \in {None, w}
                      /\ storage[w] = IF Sent(w) THEN 1 ELSE 0

LEMMA RingParts ==
    /\ RingInv <=> (workload = "ring" => (Sending \/ Reading \/ Deciding) /\ RingBlocks)
    /\ RingInv' <=> (workload' = "ring" => (Sending \/ Reading \/ Deciding)' /\ RingBlocks')
BY DEF RingInv, RingBlocks

\* A worker that is neither between the barriers nor at one does not disturb the round.
LEMMA QuietRing ==
    ASSUME RingInv, workload = "ring", NEW w \in Worker,
           pc[w] \notin {"ring_read", "ring_decide"}, pc[w] # "ring_next" \/ ~AtBarrier(w),
           pc'[w] \notin {"ring_read", "ring_decide"}, \A u \in Worker : u # w => pc'[u] = pc[u],
           UNCHANGED <<workload, barrier, mailboxes, storage>>
    PROVE  RingInv'
<1>1. Sending /\ RingBlocks
  <2>1. ~Reading
    BY DEF Reading
  <2>2. ~Deciding
    BY DEF Deciding, AtBarrier
  <2> QED BY <2>1, <2>2, RingParts
<1>2. Sending'
  BY <1>1 DEF Sending
<1>3. \A v \in Worker : pc'[v] = "ring_read" <=> pc[v] = "ring_read"
  OBVIOUS
<1>4. \A v \in Worker : Sent(v)' <=> Sent(v)
  BY <1>1, <1>2, <1>3, SentIs
<1>5. \A v \in Worker : Successor(v)' = Successor(v)
  BY DEF Successor
<1>6. RingBlocks'
  BY <1>1, <1>4, <1>5 DEF RingBlocks
<1> QED BY <1>2, <1>6, RingParts

\* The first part of a round, up to the last arrival at its barrier.
LEMMA RingSends ==
    ASSUME TypeInv, Apart, RingInv, NEW w \in Worker, RingSend(w)
    PROVE  RingInv'
<1>0. /\ PcType /\ mailboxes \in [Worker -> Worker \cup {None}] /\ storage \in [Worker -> Int]
      /\ barrier \subseteq Worker
      /\ workload = "ring" /\ workload' = workload
      /\ \A u \in Worker : u # w => pc'[u] = pc[u]
      /\ pc[w] = "ring_send" /\ pc'[w] = "ring_read"
  <2>1. PcType /\ mailboxes \in [Worker -> Worker \cup {None}] /\ storage \in [Worker -> Int]
        /\ barrier \subseteq Worker
    BY DEF TypeInv, PcType
  <2>2. RingStep(w) /\ (WorkerStep(w) \/ SpuriousWakeup(w))
    BY DEF RingStep, WorkerStep
  <2>3. workload = "ring" /\ workload' = workload
    BY <2>1, <2>2, StepsApart, WorkerKeeps
  <2>4. \A u \in Worker : u # w => pc'[u] = pc[u]
    BY <2>1, <2>2, <2>3, NobodyWoken
  <2>5. pc[w] = "ring_send" /\ pc'[w] = "ring_read"
    BY <2>1, WorkerMoves DEF RingSend, Moves
  <2> QED BY <2>1, <2>3, <2>4, <2>5
<1>1. Sending /\ RingBlocks
  BY <1>0, RingParts DEF Reading, Deciding
<1>2. barrier' = IF barrier \cup {w} = Worker THEN {} ELSE barrier \cup {w}
  BY DEF RingSend, PublishEntry, barrier_wait
<1>3. \/ /\ mailboxes' = [mailboxes EXCEPT ![Successor(w)] = w]
         /\ storage' = [storage EXCEPT ![w] = @ + 1]
      \/ mailboxes' = [mailboxes EXCEPT ![Successor(w)] = None] /\ storage' = storage
  BY DEF RingSend, Successor
<1>4. /\ Successor(w) \in Worker
      /\ \A v \in Worker : /\ Successor(v)' = Successor(v) /\ Successor(v) \in Worker
                           /\ v # w => Successor(v) # Successor(w)
  BY SuccessorFacts DEF Successor
<1>5. ~Sent(w) /\ storage[w] = 0
  BY <1>0, <1>1, SentIs DEF RingBlocks
<1>6. /\ \A v \in Worker : v # w => /\ mailboxes'[Successor(v)] = mailboxes[Successor(v)]
                                    /\ storage'[v] = storage[v]
      /\ mailboxes'[Successor(w)] \in {None, w}
      /\ storage'[w] = IF mailboxes'[Successor(w)] # None THEN 1 ELSE 0
  <2> DEFINE n == Successor(w)
  <2>1. n \in Worker /\ \A v \in Worker : v # w => Successor(v) \in Worker /\ Successor(v) # n
    BY <1>4
  <2>2. w # None
    BY WorkerFacts
  <2>3. \/ /\ mailboxes' = [mailboxes EXCEPT ![n] = w]
           /\ storage' = [storage EXCEPT ![w] = @ + 1]
        \/ mailboxes' = [mailboxes EXCEPT ![n] = None] /\ storage' = storage
    BY <1>3
  <2> HIDE DEF n
  <2>4. /\ \A v \in Worker : v # w => /\ mailboxes'[Successor(v)] = mailboxes[Successor(v)]
                                      /\ storage'[v] = storage[v]
        /\ mailboxes'[n] \in {None, w}
        /\ storage'[w] = IF mailboxes'[n] # None THEN 1 ELSE 0
    BY <1>0, <1>5, <2>1, <2>2, <2>3
  <2> QED BY <2>4 DEF n
<1>7. CASE barrier \cup {w} = Worker
  <2>1. \A v \in Worker : pc'[v] = "ring_read" /\ (v # w => pc[v] = "ring_read")
    BY <1>0, <1>1, <1>7 DEF Sending
  <2>2. Reading'
    BY <1>2, <1>7, <2>1 DEF Reading
  <2>3. \A v \in Worker : Sent(v)' <=> mailboxes'[Successor(v)] # None
    BY <1>4, <2>1, <2>2, SentIs
  <2>4. \A v \in Worker : v # w => (Sent(v) <=> mailboxes[Successor(v)] # None)
    BY <1>1, <2>1, SentIs
  <2>5. RingBlocks'
    BY <1>1, <1>4, <1>6, <2>3, <2>4 DEF RingBlocks
  <2> QED BY <2>2, <2>5, RingParts
<1>8. CASE barrier \cup {w} # Worker
  <2>1. Sending'
    BY <1>0, <1>1, <1>2, <1>8 DEF Sending
  <2>2. \A v \in Worker : v # w => (Sent(v)' <=> Sent(v))
    BY <1>0, <1>1, <1>6, <2>1, SentIs
  <2>3. Sent(w)' <=> mailboxes'[Successor(w)] # None
    BY <1>0, <2>1, SentIs
  <2>4. RingBlocks'
    BY <1>1, <1>4, <1>6, <2>2, <2>3 DEF RingBlocks
  <2> QED BY <2>1, <2>4, RingParts
<1> QED BY <1>7, <1>8

\* The second: everybody has written, and frees what it finds.
LEMMA RingReads ==
    ASSUME TypeInv, Apart, RingInv, NEW w \in Worker, RingRead(w)
    PROVE  RingInv'
<1>0. /\ PcType /\ mailboxes \in [Worker -> Worker \cup {None}] /\ storage \in [Worker -> Int]
      /\ barrier \subseteq Worker /\ w \notin barrier
      /\ workload = "ring" /\ workload' = workload /\ mailboxes' = mailboxes
      /\ \A u \in Worker : u # w => pc'[u] = pc[u]
      /\ pc[w] = "ring_read" /\ pc'[w] = "ring_decide"
  <2>1. PcType /\ mailboxes \in [Worker -> Worker \cup {None}] /\ storage \in [Worker -> Int]
        /\ barrier \subseteq Worker
    BY DEF TypeInv, PcType
  <2>2. RingStep(w) /\ (WorkerStep(w) \/ SpuriousWakeup(w))
    BY DEF RingStep, WorkerStep
  <2>3. workload = "ring" /\ workload' = workload
    BY <2>1, <2>2, StepsApart, WorkerKeeps
  <2>4. \A u \in Worker : u # w => pc'[u] = pc[u]
    BY <2>1, <2>2, <2>3, NobodyWoken
  <2>5. pc[w] = "ring_read" /\ pc'[w] = "ring_decide" /\ w \notin barrier /\ mailboxes' = mailboxes
    BY <2>1, WorkerMoves DEF RingRead, Moves, AtBarrier
  <2> QED BY <2>1, <2>3, <2>4, <2>5
<1>1. Reading /\ RingBlocks
  BY <1>0, RingParts DEF Sending, Deciding
<1>2. barrier' = IF barrier \cup {w} = Worker THEN {} ELSE barrier \cup {w}
  BY DEF RingRead, barrier_wait
<1>3. PICK u \in Worker : Successor(u) = w
  BY SuccessorFacts
<1>4. \A v \in Worker : /\ Successor(v)' = Successor(v) /\ Successor(v) \in Worker
                        /\ v # u => Successor(v) # w
  BY <1>3, SuccessorFacts DEF Successor
<1>5. mailboxes[w] \in {None, u} /\ storage[u] = IF mailboxes[w] # None THEN 1 ELSE 0
  BY <1>0, <1>1, <1>3, SentIs DEF RingBlocks
<1>6. storage'[u] = 0 /\ \A v \in Worker : v # u => storage'[v] = storage[v]
  <2>1. \/ mailboxes[w] = None /\ storage' = storage
        \/ mailboxes[w] # None /\ storage' = [storage EXCEPT ![mailboxes[w]] = @ - 1]
    BY DEF RingRead, Deallocate
  <2> QED BY <1>0, <1>5, <2>1
<1>7. CASE barrier \cup {w} = Worker
  <2>1. \A v \in Worker : pc'[v] = "ring_decide" /\ (v # w => pc[v] = "ring_decide")
    BY <1>0, <1>1, <1>7 DEF Reading
  <2>2. Deciding'
    BY <1>2, <1>7, <2>1 DEF Deciding
  <2>3. \A v \in Worker : v # u => ~Sent(v)
    BY <1>1, <1>4, <2>1, SentIs
  <2>4. \A v \in Worker : ~Sent(v)'
    BY <2>2, SentIs
  <2>5. RingBlocks'
    BY <1>0, <1>1, <1>4, <1>6, <2>3, <2>4 DEF RingBlocks
  <2> QED BY <2>2, <2>5, RingParts
<1>8. CASE barrier \cup {w} # Worker
  <2>1. Reading'
    BY <1>0, <1>1, <1>2, <1>8 DEF Reading
  <2>2. \A v \in Worker : v # u => (Sent(v)' <=> Sent(v))
    BY <1>0, <1>1, <1>4, <2>1, SentIs
  <2>3. ~Sent(u)'
    BY <1>0, <1>3, <2>1, SentIs
  <2>4. RingBlocks'
    BY <1>0, <1>1, <1>4, <1>6, <2>2, <2>3 DEF RingBlocks
  <2> QED BY <2>1, <2>4, RingParts
<1> QED BY <1>7, <1>8

\* The third: everything is freed, and the stop is decided.
LEMMA RingDecides ==
    ASSUME TypeInv, Apart, RingInv, NEW w \in Worker, RingDecide(w)
    PROVE  RingInv'
<1>0. /\ barrier \subseteq Worker /\ w \notin barrier
      /\ workload = "ring" /\ workload' = workload /\ UNCHANGED <<mailboxes, storage>>
      /\ \A u \in Worker : u # w => pc'[u] = pc[u]
      /\ pc[w] = "ring_decide" /\ pc'[w] = "ring_next"
  <2>1. PcType /\ barrier \subseteq Worker
    BY DEF TypeInv, PcType
  <2>2. RingStep(w) /\ (WorkerStep(w) \/ SpuriousWakeup(w))
    BY DEF RingStep, WorkerStep
  <2>3. workload = "ring" /\ workload' = workload
    BY <2>1, <2>2, StepsApart, WorkerKeeps
  <2>4. \A u \in Worker : u # w => pc'[u] = pc[u]
    BY <2>1, <2>2, <2>3, NobodyWoken
  <2>5. /\ pc[w] = "ring_decide" /\ pc'[w] = "ring_next" /\ w \notin barrier
        /\ UNCHANGED <<mailboxes, storage>>
    BY <2>1, WorkerMoves DEF RingDecide, Moves, AtBarrier, ownVars
  <2> QED BY <2>1, <2>3, <2>4, <2>5
<1>1. Deciding /\ RingBlocks
  BY <1>0, RingParts DEF Sending, Reading
<1>2. barrier' = IF barrier \cup {w} = Worker THEN {} ELSE barrier \cup {w}
  BY DEF RingDecide, barrier_wait
<1>3. \A v \in Worker : Successor(v)' = Successor(v) /\ ~Sent(v)
  BY <1>1, SentIs DEF Successor
<1>4. (Sending \/ Deciding)' /\ \A v \in Worker : ~Sent(v)'
  <2>1. CASE barrier \cup {w} = Worker
    <3>1. \A v \in Worker : pc'[v] = "ring_next"
      BY <1>0, <1>1, <2>1 DEF Deciding
    <3>2. 0 \in Worker
      BY WorkerFacts DEF Worker
    <3>3. Sending'
      BY <1>2, <2>1, <3>1, <3>2 DEF Sending
    <3> QED BY <3>1, <3>3, SentIs
  <2>2. CASE barrier \cup {w} # Worker
    <3>1. Deciding'
      BY <1>0, <1>1, <1>2, <2>2 DEF Deciding
    <3> QED BY <3>1, SentIs
  <2> QED BY <2>1, <2>2
<1>5. RingBlocks'
  BY <1>0, <1>1, <1>3, <1>4 DEF RingBlocks
<1> QED BY <1>4, <1>5, RingParts

\* The ring under every step of a worker, and of main.
LEMMA RingOfWorker ==
    ASSUME TypeInv, Apart, RingInv, NEW w \in Worker, WorkerStep(w) \/ SpuriousWakeup(w)
    PROVE  RingInv'
<1>0. PcType /\ workload' = workload
  BY WorkerKeeps DEF TypeInv, PcType
<1> SUFFICES ASSUME workload = "ring" PROVE RingInv'
  BY <1>0, RingParts
<1>1. \A u \in Worker : u # w => pc'[u] = pc[u]
  BY <1>0, NobodyWoken
<1>2. CASE RingNext(w)
  <2>1. /\ pc[w] = "ring_next" /\ ~AtBarrier(w) /\ pc'[w] \in {"ring_send", "leave"}
        /\ UNCHANGED <<barrier, mailboxes, storage>>
    BY <1>0, <1>2, WorkerMoves DEF RingNext, Moves, ringVars, ownVars
  <2> QED BY <1>0, <1>1, <2>1, QuietRing
<1>3. CASE OuterStep(w)
  <2>1. pc[w] \notin RingPlaces
    BY <1>3 DEF OuterStep, ReportReady, WaitForPrepare, Prepare, WaitForPhase, EnterPhase,
                LeavePhase, Flush, run_general_phase, RingPlaces
  <2>2. pc'[w] \notin {"ring_read", "ring_decide"}
    BY <1>0, <1>3, WorkerMoves, EnterMoves DEF OuterStep, Moves
  <2>3. UNCHANGED <<barrier, mailboxes, storage>>
    BY <1>0, <1>3, StepsApart, SlotSteps, NotGeneral
  <2> QED BY <1>0, <1>1, <2>1, <2>2, <2>3, QuietRing DEF RingPlaces
<1>4. ~QueueStep(w)
  BY <1>0, StepsApart
<1>5. RingStep(w) \/ OuterStep(w)
  BY <1>0, <1>4, StepsApart
<1> QED BY <1>2, <1>3, <1>5, RingSends, RingReads, RingDecides DEF RingStep

LEMMA RingOfMain ==
    ASSUME TypeInv, Creation, RingInv, MainStep
    PROVE  RingInv'
<1>0. PcType /\ created \in 0..threads
  BY DEF TypeInv, PcType
<1>1. CASE CreateWorker
  <2>1. /\ created \in Worker /\ \A u \in Worker : u # created => pc'[u] = pc[u]
        /\ pc'[created] = "start"
        /\ UNCHANGED <<workload, barrier, mailboxes, storage>>
    BY <1>0, <1>1, CreateMoves DEF CreateWorker, ringVars, ownVars
  <2>2. pc[created] = "absent"
    BY <1>0, <2>1 DEF Creation
  <2>3. CASE workload = "ring"
    BY <2>1, <2>2, <2>3, QuietRing
  <2> QED BY <2>1, <2>3, RingParts
<1>2. CASE ~CreateWorker
  <2>1. /\ \A u \in Worker : pc'[u] = pc[u]
        /\ UNCHANGED <<workload, barrier, mailboxes, storage>>
    BY <1>0, <1>2, MainKeeps DEF MainStep, ownVars
  <2>2. (Sending' <=> Sending) /\ (Reading' <=> Reading) /\ (Deciding' <=> Deciding)
    BY <2>1 DEF Sending, Reading, Deciding
  <2>3. ASSUME NEW v \in Worker PROVE Successor(v)' = Successor(v) /\ (Sent(v)' <=> Sent(v))
    <3>1. Successor(v)' = Successor(v) /\ Successor(v) \in Worker
      BY SuccessorFacts DEF Successor
    <3> QED BY <2>1, <2>2, <3>1 DEF Sent
  <2>4. RingBlocks => RingBlocks'
    BY <2>1, <2>3 DEF RingBlocks
  <2> QED BY <2>1, <2>2, <2>4, RingParts
<1> QED BY <1>1, <1>2

-----------------------------------------------------------------------------
(***************************************************************************)
(* The handoff.                                                            *)
(***************************************************************************)

Occurrences(s, w) == {i \in 1..Len(s) : s[i] = w}

\* How often a block is in a queue.
LEMMA OccurrencesFinite ==
    ASSUME NEW s \in Seq(Worker), NEW w
    PROVE  IsFiniteSet(Occurrences(s, w)) /\ Cardinality(Occurrences(s, w)) \in Nat
<1>1. IsFiniteSet(1..Len(s))
  BY 1 \in Int, Len(s) \in Int, FS_Interval
<1> QED BY <1>1, FS_Subset, FS_CardinalityType DEF Occurrences

\* Once more after its append.
LEMMA AppendOccurs ==
    ASSUME NEW s \in Seq(Worker), NEW x \in Worker, NEW w
    PROVE  Cardinality(Occurrences(Append(s, x), w)) =
               Cardinality(Occurrences(s, w)) + (IF x = w THEN 1 ELSE 0)
<1> DEFINE n == Len(s)
           a == Append(s, x)
<1>1. n \in Nat /\ Len(a) = n + 1 /\ a[n + 1] = x /\ \A i \in 1..n : a[i] = s[i]
  OBVIOUS
<1>2. IsFiniteSet(Occurrences(s, w)) /\ Cardinality(Occurrences(s, w)) \in Nat
  BY OccurrencesFinite
<1>3. n + 1 \notin Occurrences(s, w)
  BY <1>1 DEF Occurrences
<1> HIDE DEF a, n
<1>4. CASE x = w
  <2>1. Occurrences(a, w) = {i \in 1..n : s[i] = w} \cup {n + 1}
    BY <1>1, <1>4 DEF Occurrences
  <2>2. Occurrences(a, w) = Occurrences(s, w) \cup {n + 1}
    BY <2>1 DEF Occurrences, n
  <2>3. Cardinality(Occurrences(a, w)) = Cardinality(Occurrences(s, w)) + 1
    BY <1>2, <1>3, <2>2, FS_AddElement
  <2> QED BY <1>4, <2>3 DEF a
<1>5. CASE x # w
  <2>1. Occurrences(a, w) = {i \in 1..n : s[i] = w}
    BY <1>1, <1>5 DEF Occurrences
  <2>2. Occurrences(a, w) = Occurrences(s, w)
    BY <2>1 DEF Occurrences, n
  <2> QED BY <1>2, <1>5, <2>2 DEF a
<1> QED BY <1>4, <1>5

\* Once less when it is taken from the head.
LEMMA TailOccurs ==
    ASSUME NEW s \in Seq(Worker), s # <<>>, NEW w
    PROVE  Cardinality(Occurrences(Tail(s), w)) =
               Cardinality(Occurrences(s, w)) - (IF Head(s) = w THEN 1 ELSE 0)
<1> DEFINE n == Len(s)
           r == Tail(s)
           S == Occurrences(r, w)
           T == Occurrences(s, w) \ {1}
           f == [i \in S |-> i + 1]
<1>1. /\ n \in Nat \ {0} /\ Len(r) = n - 1 /\ r \in Seq(Worker) /\ Head(s) = s[1]
      /\ \A i \in 1..(n - 1) : r[i] = s[i + 1]
  OBVIOUS
<1>2. IsFiniteSet(S) /\ IsFiniteSet(Occurrences(s, w)) /\ Cardinality(Occurrences(s, w)) \in Nat
  BY <1>1, OccurrencesFinite
<1>3. S = {i \in 1..(n - 1) : s[i + 1] = w}
  BY <1>1 DEF Occurrences
<1>4. T = {i \in 1..n : i # 1 /\ s[i] = w}
  BY DEF Occurrences
<1> HIDE DEF S, T, n, r
<1>5. f \in Bijection(S, T)
  <2>1. f \in [S -> T]
    BY <1>1, <1>3, <1>4
  <2>2. \A a, b \in S : f[a] = f[b] => a = b
    BY <1>3
  <2>3. ASSUME NEW t \in T PROVE \E i \in S : f[i] = t
    <3>1. t - 1 \in S /\ (t - 1) + 1 = t
      BY <1>1, <1>3, <1>4
    <3>2. f[t - 1] = t
      BY <3>1
    <3> QED BY <3>1, <3>2
  <2> QED BY <2>1, <2>2, <2>3 DEF Bijection, Injection, Surjection, IsInjective
<1>6. Cardinality(T) = Cardinality(S)
  BY <1>2, <1>5, FS_Bijection DEF ExistsBijection
<1>7. Cardinality(T) = Cardinality(Occurrences(s, w)) - (IF Head(s) = w THEN 1 ELSE 0)
  <2>1. 1 \in Occurrences(s, w) <=> Head(s) = w
    BY <1>1 DEF Occurrences, n
  <2>2. CASE Head(s) = w
    BY <1>2, <2>1, <2>2, FS_RemoveElement DEF T
  <2>3. CASE Head(s) # w
    <3>1. T = Occurrences(s, w)
      BY <2>1, <2>3 DEF T
    <3> QED BY <1>2, <2>3, <3>1
  <2> QED BY <2>2, <2>3
<1> QED BY <1>6, <1>7 DEF S, r

\* An empty queue has no blocks.
LEMMA EmptyQueue ==
    ASSUME NEW w, items = <<>>
    PROVE  InQueue(w) = {}
<1>1. Len(items) = 0
  OBVIOUS
<1> QED BY <1>1 DEF InQueue

\* How many hands a block is in, before and after a worker takes or gives one.
LEMMA HandChange ==
    ASSUME TypeInv, NEW w \in Worker, NEW v \in Worker
    PROVE  /\ Cardinality(Holders(v)) \in Nat
           /\ UNCHANGED hand => Holders(v)' = Holders(v)
           /\ \A x \in Worker : hand[w] = None /\ hand' = [hand EXCEPT ![w] = x] =>
                  Cardinality(Holders(v)') = Cardinality(Holders(v)) + (IF x = v THEN 1 ELSE 0)
           /\ hand[w] # None /\ hand' = [hand EXCEPT ![w] = None] =>
                  Cardinality(Holders(v)')
                      = Cardinality(Holders(v)) - (IF hand[w] = v THEN 1 ELSE 0)
<1>0. hand \in [Worker -> Worker \cup {None}] /\ None \notin Worker
  BY WorkerFacts DEF TypeInv
<1>1. Holders(v) \in SUBSET Worker
  BY DEF Holders
<1>2. Cardinality(Holders(v)) \in Nat
  BY <1>1, WorkerSets
<1>3. UNCHANGED hand => Holders(v)' = Holders(v)
  BY DEF Holders
<1>4. ASSUME NEW x \in Worker, hand[w] = None, hand' = [hand EXCEPT ![w] = x]
      PROVE  Cardinality(Holders(v)') = Cardinality(Holders(v)) + (IF x = v THEN 1 ELSE 0)
  <2>1. CASE x = v
    <3>1. Holders(v)' = Holders(v) \cup {w} /\ w \in Worker \ Holders(v)
      BY <1>0, <1>4, <2>1 DEF Holders
    <3> QED BY <1>1, <2>1, <3>1, WorkerSets
  <2>2. CASE x # v
    <3>1. Holders(v)' = Holders(v)
      BY <1>0, <1>4, <2>2 DEF Holders
    <3> QED BY <1>2, <2>2, <3>1
  <2> QED BY <2>1, <2>2
<1>5. ASSUME hand[w] # None, hand' = [hand EXCEPT ![w] = None]
      PROVE  Cardinality(Holders(v)') = Cardinality(Holders(v)) - (IF hand[w] = v THEN 1 ELSE 0)
  <2>1. CASE hand[w] = v
    <3>1. Holders(v)' = Holders(v) \ {w} /\ w \in Holders(v)
      BY <1>0, <1>5, <2>1 DEF Holders
    <3> QED BY <1>1, <2>1, <3>1, WorkerSets
  <2>2. CASE hand[w] # v
    <3>1. Holders(v)' = Holders(v)
      BY <1>0, <1>5, <2>2 DEF Holders
    <3> QED BY <1>2, <2>2, <3>1
  <2> QED BY <2>1, <2>2
<1> QED BY <1>2, <1>3, <1>4, <1>5

\* Where a worker of the handoff has a block in its hand.
Carrying(place) == place \in {"push", "push_sleep", "consume"}

\* What a step does with the blocks: nothing, or it allocates, frees, puts or gets one.
Idles(w) == UNCHANGED <<hand, items, storage>> /\ (Carrying(pc'[w]) <=> Carrying(pc[w]))

Allocates(w) ==
    /\ ~Carrying(pc[w]) /\ Carrying(pc'[w])
    /\ hand' = [hand EXCEPT ![w] = w] /\ storage' = [storage EXCEPT ![w] = @ + 1]
    /\ UNCHANGED items

Frees(w) ==
    /\ Carrying(pc[w]) /\ ~Carrying(pc'[w])
    /\ hand' = [hand EXCEPT ![w] = None] /\ storage' = [storage EXCEPT ![hand[w]] = @ - 1]
    /\ UNCHANGED items

Puts(w) ==
    /\ Carrying(pc[w]) /\ ~Carrying(pc'[w])
    /\ hand' = [hand EXCEPT ![w] = None] /\ items' = Append(items, hand[w])
    /\ UNCHANGED storage

Gets(w) ==
    /\ ~Carrying(pc[w]) /\ Carrying(pc'[w])
    /\ items # <<>> /\ hand' = [hand EXCEPT ![w] = Head(items)] /\ items' = Tail(items)
    /\ UNCHANGED storage

\* Every step of the handoff is one of these.
LEMMA HandoffKinds ==
    ASSUME TypeInv, Apart, workload = "handoff", NEW w \in Worker,
           WorkerStep(w) \/ SpuriousWakeup(w)
    PROVE  Idles(w) \/ Allocates(w) \/ Frees(w) \/ Puts(w) \/ Gets(w)
<1>0. PcType
  BY DEF TypeInv, PcType
<1>1. CASE OuterStep(w)
  <2>1. UNCHANGED <<hand, items, storage>>
    BY <1>0, <1>1, StepsApart, SlotSteps, NotGeneral
  <2>2. ~Carrying(pc[w])
    BY <1>1 DEF OuterStep, ReportReady, WaitForPrepare, Prepare, WaitForPhase, EnterPhase,
                LeavePhase, Flush, run_general_phase, Carrying
  <2>3. ~Carrying(pc'[w])
    BY <1>0, <1>1, WorkerMoves, EnterMoves DEF OuterStep, Moves, Carrying
  <2> QED BY <2>1, <2>2, <2>3 DEF Idles
<1>2. CASE ProduceItem(w)
  <2>1. pc[w] = "produce"
    BY <1>2 DEF ProduceItem
  <2>2. CASE hand' = [hand EXCEPT ![w] = w] /\ storage' = [storage EXCEPT ![w] = @ + 1]
             /\ Goto(w, "push")
    BY <1>0, <1>2, <2>1, <2>2 DEF ProduceItem, Goto, PcType, Allocates, Carrying, queueVars
  <2>3. CASE Goto(w, "abort") /\ UNCHANGED <<hand, storage>>
    BY <1>0, <1>2, <2>1, <2>3 DEF ProduceItem, Goto, PcType, Idles, Carrying, queueVars
  <2> QED BY <1>2, <2>2, <2>3 DEF ProduceItem
<1>3. CASE QueuePush(w)
  <2>1. pc[w] = "push" /\ \A u \in NotEmptySleepers : pc[u] \in {"push_sleep", "pop_sleep"}
    BY <1>3 DEF QueuePush, NotEmptySleepers
  <2>2. CASE Goto(w, "push_sleep") /\ UNCHANGED <<items, hand, storage>>
    BY <1>0, <2>1, <2>2 DEF Goto, PcType, Idles, Carrying
  <2>3. CASE /\ Deallocate(hand[w]) /\ hand' = [hand EXCEPT ![w] = None]
             /\ Goto(w, "producer_done") /\ UNCHANGED items
    BY <1>0, <2>1, <2>3 DEF Goto, PcType, Frees, Carrying, Deallocate
  <2>4. CASE /\ items' = Append(items, hand[w]) /\ hand' = [hand EXCEPT ![w] = None]
             /\ signal(NotEmptySleepers, w, "pushed") /\ UNCHANGED storage
    <3>1. "pushed" \in WorkerPlace \cup MainPlace /\ w \in Worker \cup {Main}
      BY DEF WorkerPlace, TimedPlaces
    <3>2. pc'[w] = "pushed"
      BY <1>0, <2>1, <2>4, <3>1, SignalMoves DEF Moves
    <3> QED BY <2>1, <2>4, <3>2 DEF Puts, Carrying
  <2> QED BY <1>3, <2>2, <2>3, <2>4 DEF QueuePush
<1>4. CASE Pushed(w) \/ QueueAbort(w) \/ ProducerDone(w)
  <2>1. UNCHANGED <<hand, items, storage>> /\ ~Carrying(pc[w])
    BY <1>4 DEF Pushed, QueueAbort, ProducerDone, queueVars, ownVars, Carrying
  <2>2. ~Carrying(pc'[w])
    BY <1>0, <1>4, QueueMoves DEF Moves, Carrying
  <2> QED BY <2>1, <2>2 DEF Idles
<1>5. CASE QueuePop(w)
  <2>1. pc[w] = "pop" /\ UNCHANGED storage
        /\ \A u \in NotFullSleepers : pc[u] \in {"push_sleep", "pop_sleep"}
    BY <1>5 DEF QueuePop, NotFullSleepers
  <2>2. CASE (Goto(w, "pop_sleep") \/ Goto(w, "leave")) /\ UNCHANGED <<items, hand>>
    BY <1>0, <2>1, <2>2 DEF Goto, PcType, Idles, Carrying
  <2>3. CASE /\ items # <<>> /\ hand' = [hand EXCEPT ![w] = Head(items)] /\ items' = Tail(items)
             /\ signal(NotFullSleepers, w, "consume")
    <3>1. "consume" \in WorkerPlace \cup MainPlace /\ w \in Worker \cup {Main}
      BY DEF WorkerPlace, TimedPlaces
    <3>2. pc'[w] = "consume"
      BY <1>0, <2>1, <2>3, <3>1, SignalMoves DEF Moves
    <3> QED BY <2>1, <2>3, <3>2 DEF Gets, Carrying
  <2> QED BY <1>5, <2>2, <2>3 DEF QueuePop, Leave, Drained
<1>6. CASE ConsumeItem(w)
  <2>1. /\ pc[w] = "consume" /\ hand' = [hand EXCEPT ![w] = None]
        /\ storage' = [storage EXCEPT ![hand[w]] = @ - 1] /\ UNCHANGED items
    BY <1>6 DEF ConsumeItem, Deallocate, queueVars
  <2>2. pc'[w] \in {"pop", "abort"}
    BY <1>0, <1>6, QueueMoves DEF Moves
  <2> QED BY <2>1, <2>2 DEF Frees, Carrying
<1>7. CASE SpuriousWakeup(w)
  <2>1. UNCHANGED <<hand, items, storage>>
    BY <1>7 DEF SpuriousWakeup, queueVars, ownVars
  <2>2. Rests(w)
    BY <1>0, <1>7, QueueMoves DEF Moves, Rests
  <2> QED BY <2>1, <2>2 DEF Idles, Rests, Carrying
<1>8. QueueStep(w) \/ OuterStep(w)
  BY <1>0, StepsApart
<1> QED BY <1>1, <1>2, <1>3, <1>4, <1>5, <1>6, <1>7, <1>8 DEF QueueStep

\* Who has a block in hand is seen from where it is.
LEMMA CarriedStep ==
    ASSUME TypeInv, Apart, Carried, workload = "handoff", NEW w \in Worker,
           WorkerStep(w) \/ SpuriousWakeup(w)
    PROVE  Carried'
<1>0. /\ PcType /\ hand \in [Worker -> Worker \cup {None}] /\ items \in Seq(Worker)
      /\ None \notin Worker /\ \A u \in Worker : hand[u] # None <=> Carrying(pc[u])
  BY WorkerFacts DEF TypeInv, PcType, Carried, Carrying
<1>1. ASSUME NEW u \in Worker, u # w PROVE Carrying(pc'[u]) <=> Carrying(pc[u])
  <2>1. PICK place : Moves(w, place)
    BY <1>0, WorkerKeeps
  <2> QED BY <1>1, <2>1 DEF Moves, Rests, Carrying
<1>2. Idles(w) \/ Allocates(w) \/ Frees(w) \/ Puts(w) \/ Gets(w)
  BY HandoffKinds
<1>3. \A u \in Worker : u # w => hand'[u] = hand[u]
  BY <1>0, <1>2 DEF Idles, Allocates, Frees, Puts, Gets
<1>4. hand'[w] # None <=> Carrying(pc'[w])
  <2>1. items # <<>> => Head(items) \in Worker
    BY <1>0
  <2> QED BY <1>0, <1>2, <2>1 DEF Idles, Allocates, Frees, Puts, Gets
<1> QED BY <1>0, <1>1, <1>3, <1>4 DEF Carried, Carrying

\* A block stays in one place until it is freed.
LEMMA StoredStep ==
    ASSUME TypeInv, Apart, Carried, Stored, workload = "handoff", NEW w \in Worker,
           WorkerStep(w) \/ SpuriousWakeup(w)
    PROVE  Stored'
<1>0. /\ hand \in [Worker -> Worker \cup {None}] /\ items \in Seq(Worker)
      /\ storage \in [Worker -> Int]
      /\ None \notin Worker /\ (hand[w] # None <=> Carrying(pc[w]))
  BY WorkerFacts DEF TypeInv, Carried, Carrying
<1> SUFFICES ASSUME NEW v \in Worker
             PROVE  storage'[v] = Cardinality(Holders(v)') + Cardinality(Occurrences(items', v))
  BY DEF Stored, InQueue, Occurrences
<1>1. storage[v] = Cardinality(Holders(v)) + Cardinality(Occurrences(items, v))
  BY DEF Stored, InQueue, Occurrences
<1>2. Cardinality(Holders(v)) \in Nat /\ Cardinality(Occurrences(items, v)) \in Nat
  BY <1>0, HandChange, OccurrencesFinite
<1>3. CASE Idles(w)
  BY <1>1, <1>3, HandChange DEF Idles
<1>4. CASE Allocates(w)
  <2>1. Cardinality(Holders(v)') = Cardinality(Holders(v)) + (IF w = v THEN 1 ELSE 0)
    BY <1>0, <1>4, HandChange DEF Allocates
  <2>2. storage'[v] = storage[v] + (IF w = v THEN 1 ELSE 0) /\ items' = items
    BY <1>0, <1>4 DEF Allocates
  <2> QED BY <1>1, <1>2, <2>1, <2>2
<1>5. CASE Frees(w)
  <2>1. Cardinality(Holders(v)') = Cardinality(Holders(v)) - (IF hand[w] = v THEN 1 ELSE 0)
    BY <1>0, <1>5, HandChange DEF Frees
  <2>2. storage'[v] = storage[v] - (IF hand[w] = v THEN 1 ELSE 0) /\ items' = items
    BY <1>0, <1>5 DEF Frees
  <2> QED BY <1>1, <1>2, <2>1, <2>2
<1>6. CASE Puts(w)
  <2>1. Cardinality(Holders(v)') = Cardinality(Holders(v)) - (IF hand[w] = v THEN 1 ELSE 0)
    BY <1>0, <1>6, HandChange DEF Puts
  <2>2. hand[w] \in Worker
    BY <1>0, <1>6 DEF Puts
  <2>3. Cardinality(Occurrences(items', v)) =
            Cardinality(Occurrences(items, v)) + (IF hand[w] = v THEN 1 ELSE 0)
    BY <1>0, <1>6, <2>2, AppendOccurs DEF Puts
  <2> QED BY <1>1, <1>2, <1>6, <2>1, <2>3 DEF Puts
<1>7. CASE Gets(w)
  <2>1. Head(items) \in Worker
    BY <1>0, <1>7 DEF Gets
  <2>2. Cardinality(Holders(v)') = Cardinality(Holders(v)) + (IF Head(items) = v THEN 1 ELSE 0)
    BY <1>0, <1>7, <2>1, HandChange DEF Gets
  <2>3. Cardinality(Occurrences(items', v)) =
            Cardinality(Occurrences(items, v)) - (IF Head(items) = v THEN 1 ELSE 0)
    BY <1>0, <1>7, TailOccurs DEF Gets
  <2> QED BY <1>1, <1>2, <1>7, <2>2, <2>3 DEF Gets
<1> QED BY <1>3, <1>4, <1>5, <1>6, <1>7, HandoffKinds

\* Blocks are queued in timed phases only.
LEMMA EmptyStep ==
    ASSUME TypeInv, Course, Apart, EmptyBetween, workload = "handoff", NEW w \in Worker,
           WorkerStep(w) \/ SpuriousWakeup(w)
    PROVE  EmptyBetween'
<1>0. PcType /\ phase' = phase
  BY WorkerKeeps DEF TypeInv, PcType
<1>1. CASE OuterStep(w)
  BY <1>0, <1>1, StepsApart DEF EmptyBetween
<1>2. CASE QueueStep(w)
  <2>1. InnerStep(w)
    BY <1>2 DEF QueueStep, InnerStep
  <2>2. pc[w] \in TimedPlaces
    BY <1>0, <2>1, InnerSteps DEF Inner
  <2>3. phase \notin {"WAITING", "PREPARE_WARMUP", "PREPARE_MEASUREMENT"}
    BY <2>2 DEF Course, TimedPlaces
  <2> QED BY <1>0, <2>3 DEF EmptyBetween
<1> QED BY <1>0, <1>1, <1>2, StepsApart

\* Consumers that leave find the queue empty and the producers gone, and it stays so.
LEMMA LeftEmptyStep ==
    ASSUME TypeInv, Course, Apart, LeftEmpty, workload = "handoff", NEW w \in Worker,
           WorkerStep(w) \/ SpuriousWakeup(w)
    PROVE  LeftEmpty'
<1>0. PcType /\ phase' = phase /\ (failed => failed') /\ AtHome(w)
  BY WorkerKeeps DEF TypeInv, PcType, Apart
<1> SUFFICES ASSUME phase \in {"WARMUP", "MEASUREMENT"}, ~failed'
             PROVE  /\ producers_remaining' = Cardinality(Working')
                    /\ \A u \in Worker :
                           ~IsProducer(u) /\ Gone(u)' => items' = <<>> /\ Working' = {}
  BY <1>0 DEF LeftEmpty, IsProducer, producer_count
<1>1. /\ ~failed /\ producers_remaining = Cardinality(Working) /\ Working \in SUBSET Worker
      /\ \A u \in Worker : ~IsProducer(u) /\ Gone(u) => items = <<>> /\ Working = {}
  BY <1>0 DEF LeftEmpty, Working
<1>2. \A u \in Worker : u # w => (Gone(u)' <=> Gone(u))
  <2>1. PICK place : Moves(w, place)
    BY <1>0, WorkerKeeps
  <2> QED BY <2>1 DEF Moves, Rests, Gone
<1>3. ASSUME Gone(w)' <=> Gone(w) PROVE Working' = Working
  BY <1>2, <1>3 DEF Working, IsProducer, producer_count
<1>4. ASSUME Gone(w)' <=> Gone(w), UNCHANGED <<items, producers_remaining>>
      PROVE  /\ producers_remaining' = Cardinality(Working')
             /\ \A u \in Worker : ~IsProducer(u) /\ Gone(u)' => items' = <<>> /\ Working' = {}
  <2>1. \A u \in Worker : Gone(u)' <=> Gone(u)
    BY <1>2, <1>4
  <2> QED BY <1>1, <1>3, <1>4, <2>1
<1>5. CASE OuterStep(w)
  <2>1. UNCHANGED <<items, producers_remaining>>
    BY <1>0, <1>5, StepsApart
  <2>2. ~ReportReady(w) /\ ~WaitForPrepare(w) /\ ~Prepare(w)
    <3>1. pc[w] \notin {"start", "prepare"}
      BY DEF Course, TimedPlaces
    <3>2. stage[w] \in {1, 2}
      BY DEF TypeInv
    <3>3. phase # "STOP" /\ phase # <<"PREPARE_WARMUP", "PREPARE_MEASUREMENT">>[stage[w]]
      BY <3>2
    <3> QED BY <3>1, <3>3 DEF ReportReady, WaitForPrepare, Prepare
  <2>3. CASE WaitForPhase(w)
    <3>1. pc[w] = "wait_phase" /\ pc'[w] = "enter"
      BY <1>0, <2>3 DEF WaitForPhase, Goto, PcType
    <3> QED BY <1>4, <2>1, <3>1 DEF Gone
  <2>4. CASE EnterPhase(w)
    <3>1. pc[w] = "enter" /\ pc'[w] \in {"ring_send", "general", "produce", "pop"}
      BY <1>0, <1>1, <2>4, EnterMoves DEF EnterPhase, Moves
    <3> QED BY <1>4, <2>1, <3>1 DEF Gone
  <2>5. CASE LeavePhase(w) \/ Flush(w)
    <3>1. pc[w] \in {"leave", "flush"} /\ pc'[w] \in {"wait_prepare", "flush", "ended"}
      BY <1>0, <2>5, WorkerMoves DEF LeavePhase, Flush, Moves
    <3> QED BY <1>4, <2>1, <3>1 DEF Gone
  <2>6. ~run_general_phase(w)
    BY <1>0, NotGeneral DEF run_general_phase, AtHome
  <2> QED BY <1>5, <2>2, <2>3, <2>4, <2>5, <2>6 DEF OuterStep
<1>6. CASE ProduceItem(w) \/ Pushed(w) \/ ConsumeItem(w) \/ SpuriousWakeup(w)
  <2>1. UNCHANGED <<items, producers_remaining>>
    BY <1>6 DEF ProduceItem, Pushed, ConsumeItem, SpuriousWakeup, queueVars
  <2>2. ~Gone(w)
    BY <1>0, <1>6, QueueMoves DEF ProduceItem, Pushed, ConsumeItem, Gone
  <2>3. ~Gone(w)'
    BY <1>0, <1>6, QueueMoves DEF Moves, Gone
  <2> QED BY <1>4, <2>1, <2>2, <2>3
<1>7. CASE QueuePush(w)
  <2>1. pc[w] = "push" /\ pc'[w] \in {"push_sleep", "producer_done", "pushed"}
        /\ producers_remaining' = producers_remaining
    BY <1>0, <1>7, QueueMoves DEF QueuePush, Moves
  <2>2. ~Gone(w) /\ ~Gone(w)' /\ w \in Working
    BY <1>0, <2>1 DEF Gone, Working, AtHome, ProducerPlaces
  <2>3. Working' = Working
    BY <1>3, <2>2
  <2>4. \A u \in Worker : ~IsProducer(u) => ~Gone(u)'
    BY <1>1, <1>2, <2>2
  <2> QED BY <1>1, <2>1, <2>3, <2>4
<1>8. CASE ProducerDone(w)
  <2>1. /\ pc[w] = "producer_done" /\ pc'[w] = "leave" /\ items' = items
        /\ producers_remaining' = IF producers_remaining # 0 THEN producers_remaining - 1 ELSE 0
    BY <1>0, <1>8, QueueMoves DEF ProducerDone, Moves
  <2>2. w \in Working /\ Gone(w)' /\ IsProducer(w)
    BY <1>0, <2>1 DEF Gone, Working, AtHome, ProducerPlaces
  <2>3. Working' = Working \ {w}
    BY <1>2, <2>2 DEF Working, IsProducer, producer_count
  <2>4. Cardinality(Working) # 0 /\ Cardinality(Working') = Cardinality(Working) - 1
    BY <1>1, <2>2, <2>3, WorkerSets
  <2>5. \A u \in Worker : ~IsProducer(u) => ~Gone(u)'
    BY <1>1, <1>2, <2>2
  <2> QED BY <1>1, <2>1, <2>4, <2>5
<1>9. CASE QueuePop(w)
  <2>1. pc[w] = "pop" /\ producers_remaining' = producers_remaining
    BY <1>9 DEF QueuePop
  <2>2. ~Gone(w) /\ ~IsProducer(w)
    BY <1>0, <2>1 DEF Gone, AtHome, ConsumerPlaces
  <2>3. Working' = Working
    BY <1>2, <2>2 DEF Working, IsProducer, producer_count
  <2>4. CASE Goto(w, "pop_sleep") /\ UNCHANGED items
    <3>1. ~Gone(w)'
      BY <1>0, <2>4 DEF Goto, PcType, Gone
    <3> QED BY <1>4, <2>1, <2>2, <2>4, <3>1
  <2>5. CASE items = <<>> /\ producers_remaining = 0 /\ UNCHANGED items
    <3>1. Working = {}
      BY <1>1, <2>5, WorkerSets
    <3> QED BY <1>1, <2>1, <2>3, <2>5, <3>1
  <2>6. CASE items # <<>> /\ signal(NotFullSleepers, w, "consume")
    <3>1. "consume" \in WorkerPlace \cup MainPlace /\ w \in Worker \cup {Main}
      BY DEF WorkerPlace, TimedPlaces
    <3>2. \A u \in NotFullSleepers : pc[u] \in {"push_sleep", "pop_sleep"}
      BY DEF NotFullSleepers
    <3>3. pc'[w] = "consume"
      BY <1>0, <2>6, <3>1, <3>2, SignalMoves DEF Moves
    <3>4. \A u \in Worker : ~IsProducer(u) => ~Gone(u)'
      BY <1>1, <1>2, <2>6, <3>3 DEF Gone
    <3> QED BY <1>1, <2>1, <2>3, <3>4
  <2> QED BY <1>1, <1>9, <2>4, <2>5, <2>6 DEF QueuePop, Drained
<1>10. ~QueueAbort(w)
  BY <1>0, <1>1 DEF QueueAbort, AtHome
<1>11. QueueStep(w) \/ OuterStep(w)
  BY <1>0, StepsApart
<1> QED BY <1>5, <1>6, <1>7, <1>8, <1>9, <1>10, <1>11 DEF QueueStep

\* The handoff under every step of a worker.
LEMMA HandoffOfWorker ==
    ASSUME TypeInv, Course, Apart, HandoffInv, NEW w \in Worker,
           WorkerStep(w) \/ SpuriousWakeup(w)
    PROVE  HandoffInv'
<1>1. workload' = workload
  BY WorkerKeeps DEF TypeInv, PcType
<1> QED BY <1>1, CarriedStep, StoredStep, EmptyStep, LeftEmptyStep DEF HandoffInv

\* There are producers, as many as the queue is told, and at least one consumer.
LEMMA Producers ==
    /\ producer_count \in Nat
    /\ Cardinality({w \in Worker : IsProducer(w)}) = producer_count
    /\ \E w \in Worker : ~IsProducer(w)
<1>1. producer_count \in Nat /\ producer_count <= threads - 1 /\ threads \in Nat \ {0, 1}
  BY WorkerFacts DEF producer_count
<1>2. {w \in Worker : IsProducer(w)} = 0..(producer_count - 1)
  BY <1>1 DEF Worker, IsProducer
<1>3. Cardinality(0..(producer_count - 1)) = producer_count
  <2>1. CASE producer_count = 0
    <3>1. 0..(producer_count - 1) = {}
      BY <2>1
    <3> QED BY <2>1, <3>1, FS_EmptySet
  <2>2. CASE producer_count # 0
    <3>1. 0 \in Int /\ producer_count - 1 \in Int /\ 0 <= producer_count - 1
          /\ producer_count - 1 - 0 + 1 = producer_count
      BY <1>1, <2>2
    <3> QED BY <3>1, FS_Interval
  <2> QED BY <2>1, <2>2
<1>4. threads - 1 \in Worker /\ ~IsProducer(threads - 1)
  BY <1>1 DEF Worker, IsProducer
<1> QED BY <1>1, <1>2, <1>3, <1>4

\* Main resets the queue when it is empty, and ends a phase when it is.
LEMMA HandoffOfMain ==
    ASSUME TypeInv, Course, Creation, Counted, HandoffInv, MainStep
    PROVE  HandoffInv'
<1>0. PcType /\ created \in 0..threads
  BY DEF TypeInv, PcType
<1>1. workload' = workload /\ UNCHANGED <<hand, storage>>
  <2>1. CASE CreateWorker
    BY <2>1 DEF CreateWorker, ownVars
  <2>2. CASE ~CreateWorker
    BY <1>0, <2>2, MainKeeps DEF MainStep, ownVars
  <2> QED BY <2>1, <2>2
<1> SUFFICES ASSUME workload = "handoff" PROVE HandoffInv'
  BY <1>1 DEF HandoffInv
<1>2. Carried /\ Stored /\ EmptyBetween /\ LeftEmpty
  BY DEF HandoffInv
<1>3. ASSUME items' = items PROVE Stored'
  BY <1>1, <1>2, <1>3 DEF Stored, Holders, InQueue
<1>4. CASE CreateWorker
  <2>1. /\ created \in Worker /\ \A u \in Worker : u # created => pc'[u] = pc[u]
        /\ pc'[created] = "start" /\ pc[Main] = "create"
        /\ UNCHANGED <<phase, items>>
    BY <1>0, <1>4, CreateMoves DEF CreateWorker, phaseVars, queueVars
  <2>2. pc[created] = "absent" /\ phase \notin {"WARMUP", "MEASUREMENT"}
    BY <1>0, <2>1 DEF Creation, Course
  <2>3. Carried'
    BY <1>1, <1>2, <2>1, <2>2 DEF Carried
  <2>4. EmptyBetween' /\ LeftEmpty'
    BY <1>2, <2>1, <2>2 DEF EmptyBetween, LeftEmpty
  <2> QED BY <1>3, <2>1, <2>3, <2>4 DEF HandoffInv
<1>5. ASSUME ~CreateWorker
      PROVE  Carried' /\ failed' = failed /\ \A u \in Worker : pc'[u] = pc[u]
  <2>1. (\A u \in Worker : pc'[u] = pc[u]) /\ failed' = failed
    BY <1>0, <1>5, MainKeeps DEF MainStep
  <2> QED BY <1>1, <1>2, <2>1 DEF Carried
<1>6. ASSUME StartWarmup \/ StartMeasurement PROVE HandoffInv'
  <2>1. /\ items' = <<>> /\ producers_remaining' = producer_count
        /\ pc[Main] \in {"await_warmup_ready", "await_measurement_ready"}
        /\ phase' \in {"WARMUP", "MEASUREMENT", "STOP"}
    BY <1>6 DEF StartWarmup, StartMeasurement, StartPhase, reset_phase_state, Stop
  <2>2. items = <<>> /\ ~CreateWorker
    BY <1>2, <2>1 DEF EmptyBetween, Course, CreateWorker
  <2>3. \A u \in Worker : pc[u] = "wait_phase"
    BY <1>6, AllSignalled DEF StartWarmup, StartMeasurement, StartPhase
  <2>4. \A u \in Worker : ~Gone(u)'
    BY <1>5, <2>2, <2>3 DEF Gone
  <2>5. Working' = {u \in Worker : IsProducer(u)}
    BY <2>4 DEF Working, IsProducer, producer_count
  <2>6. LeftEmpty'
    BY <2>1, <2>4, <2>5, Producers DEF LeftEmpty
  <2>7. EmptyBetween'
    BY <2>1 DEF EmptyBetween
  <2> QED BY <1>3, <1>5, <2>1, <2>2, <2>6, <2>7 DEF HandoffInv
<1>7. ASSUME PrepareMeasurement PROVE HandoffInv'
  <2>1. /\ items' = items /\ pc[Main] = "await_warmup_done"
        /\ phase' = "STOP" \/ (phase' = "PREPARE_MEASUREMENT" /\ ~failed)
    BY <1>7 DEF PrepareMeasurement, Stop, queueVars
  <2>2. phase = "WARMUP" /\ ~CreateWorker
    BY <2>1 DEF Course, CreateWorker
  <2>3. \A u \in Worker : Gone(u)
    BY <1>7, AllSignalled DEF PrepareMeasurement, Gone
  <2>4. ~failed => items = <<>>
    BY <1>2, <2>2, <2>3, Producers DEF LeftEmpty
  <2>5. EmptyBetween' /\ LeftEmpty'
    BY <2>1, <2>4 DEF EmptyBetween, LeftEmpty
  <2> QED BY <1>3, <1>5, <2>1, <2>2, <2>5 DEF HandoffInv
<1>8. ASSUME PrepareWarmup \/ CreateFails, ~CreateWorker PROVE HandoffInv'
  <2>1. /\ items' = items /\ pc[Main] \in {"await_ready", "create"}
        /\ phase' \in {"STOP", "PREPARE_WARMUP"}
        /\ phase' = "PREPARE_WARMUP" => pc[Main] = "await_ready"
    BY <1>8 DEF PrepareWarmup, CreateFails, Stop, queueVars
  <2>2. phase = "WAITING"
    BY <2>1 DEF Course
  <2>3. EmptyBetween' /\ LeftEmpty'
    BY <1>2, <2>1, <2>2 DEF EmptyBetween, LeftEmpty
  <2> QED BY <1>3, <1>5, <1>8, <2>1, <2>3 DEF HandoffInv
<1>9. ASSUME JoinWorkers \/ FlushAndTrim PROVE HandoffInv'
  <2>1. UNCHANGED <<items, producers_remaining, phase>> /\ ~CreateWorker
    BY <1>9 DEF JoinWorkers, FlushAndTrim, CreateWorker, queueVars, phaseVars
  <2>2. Working' = Working /\ \A u \in Worker : Gone(u)' <=> Gone(u)
    BY <1>5, <2>1 DEF Working, Gone, IsProducer, producer_count
  <2>3. EmptyBetween' /\ LeftEmpty'
    BY <1>2, <1>5, <2>1, <2>2 DEF EmptyBetween, LeftEmpty, IsProducer, producer_count
  <2> QED BY <1>3, <1>5, <2>1, <2>3 DEF HandoffInv
<1> QED BY <1>4, <1>6, <1>7, <1>8, <1>9 DEF MainStep

-----------------------------------------------------------------------------
(***************************************************************************)
(* The invariant, and what it implies.                                     *)
(***************************************************************************)

\* The invariant holds when main starts.
LEMMA InitInvariant == Init => IInv
<1> SUFFICES ASSUME Init PROVE IInv
  OBVIOUS
<1>0. threads \in Nat \ {0, 1} /\ capacity \in Nat \ {0} /\ 0 \in Worker
  BY WorkerFacts DEF Worker
<1>1. /\ \A w \in Worker : /\ pc[w] = "absent" /\ stage[w] = 1 /\ slots[w] = 0
                           /\ hand[w] = None /\ storage[w] = 0 /\ mailboxes[w] = None
      /\ pc[Main] = "create" /\ phase = "WAITING" /\ created = 0 /\ barrier = {} /\ items = <<>>
  BY WorkerFacts DEF Init
<1>2. TypeInv
  <2>1. pc \in [Worker \cup {Main} -> WorkerPlace \cup MainPlace]
    BY DEF Init, WorkerPlace, Untimed, MainPlace
  <2>2. workload \in WorkloadName
    BY BenchAssumption DEF Init, WorkloadName
  <2>3. items \in Seq(Worker) /\ Len(items) <= capacity
    BY <1>0, <1>1
  <2> QED BY <1>0, <2>1, <2>2, <2>3 DEF Init, TypeInv, CounterName
<1>3. Course /\ Creation
  BY <1>0, <1>1, WorkerFacts DEF Init, Course, Creation
<1>4. Counted
  <2>1. Ready = {} /\ WarmedUp = {} /\ Prepared(1) = {} /\ Prepared(2) = {}
    BY <1>1 DEF Ready, WarmedUp, Prepared
  <2>2. Cardinality({}) = 0
    BY FS_EmptySet
  <2> QED BY <2>1, <2>2 DEF Counted, Init
<1>5. Apart /\ SlotsInv
  BY <1>1 DEF Apart, AtHome, SlotsInv, SlotsOK, RingPlaces, ProducerPlaces, ConsumerPlaces
<1>6. RingInv
  <2>1. Sending
    BY <1>0, <1>1 DEF Sending
  <2>2. \A w \in Worker : mailboxes[Successor(w)] = None
    BY <1>1, SuccessorFacts
  <2>3. \A w \in Worker : ~Sent(w)
    BY <2>2 DEF Sent
  <2> QED BY <1>1, <2>1, <2>2, <2>3 DEF RingInv
<1>7. HandoffInv
  <2>1. ASSUME NEW w \in Worker PROVE Holders(w) = {} /\ InQueue(w) = {}
    <3>1. Holders(w) = {}
      BY <1>1, <2>1, WorkerFacts DEF Holders
    <3>2. InQueue(w) = {}
      BY <1>1, EmptyQueue
    <3> QED BY <3>1, <3>2
  <2>2. Stored
    <3>1. Cardinality({}) = 0
      BY FS_EmptySet
    <3>2. ASSUME NEW w \in Worker
          PROVE  storage[w] = Cardinality(Holders(w)) + Cardinality(InQueue(w))
      <4>1. Holders(w) = {} /\ InQueue(w) = {}
        BY <2>1
      <4>2. Cardinality(Holders(w)) = 0 /\ Cardinality(InQueue(w)) = 0
        BY <3>1, <4>1
      <4>3. storage[w] = 0
        BY <1>1
      <4> QED BY <4>2, <4>3
    <3> QED BY <3>2 DEF Stored
  <2> QED BY <1>1, <2>2 DEF HandoffInv, Carried, EmptyBetween, LeftEmpty
<1> QED BY <1>2, <1>3, <1>4, <1>5, <1>6, <1>7 DEF IInv

\* Steps that change nothing but the clock.
LEMMA ClockStep ==
    ASSUME IInv, UNCHANGED <<workload, phaseVars, failed, ringVars, queueVars, pc, stage, ownVars,
                             mainVars>>
    PROVE  IInv'
<1> USE DEF phaseVars, ringVars, queueVars, ownVars, mainVars
<1>1. TypeInv' /\ Course' /\ Creation'
  BY DEF IInv, TypeInv, Course, Creation
<1>2. Counted'
  BY DEF IInv, Counted, Ready, WarmedUp, Prepared
<1>3. Apart' /\ SlotsInv'
  BY DEF IInv, Apart, AtHome, SlotsInv, SlotsOK, Mismatched, Gone, IsProducer, producer_count
<1>4. RingInv'
  BY DEF IInv, RingInv, Sending, Reading, Deciding, Sent, Successor
<1>5. HandoffInv'
  BY DEF IInv, HandoffInv, Carried, Stored, EmptyBetween, LeftEmpty, Holders, InQueue, Working,
         Gone, IsProducer, producer_count
<1> QED BY <1>1, <1>2, <1>3, <1>4, <1>5 DEF IInv

\* Every step keeps the invariant.
LEMMA StepInvariant == IInv /\ [Next]_vars => IInv'
<1> SUFFICES ASSUME IInv, [Next]_vars PROVE IInv'
  OBVIOUS
<1>0. TypeInv /\ Course /\ Creation /\ Counted /\ Apart /\ SlotsInv /\ RingInv /\ HandoffInv
  BY DEF IInv
<1>1. ASSUME NEW w \in Worker, WorkerStep(w) \/ SpuriousWakeup(w) PROVE IInv'
  <2>1. TypeInv'
    <3>1. PcType
      BY <1>0 DEF TypeInv, PcType
    <3>2. CASE OuterStep(w)
      BY <1>0, <3>2, OuterTypes DEF OuterStep
    <3>3. CASE RingStep(w)
      BY <1>0, <3>3, RingTypes DEF RingStep
    <3>4. CASE QueueStep(w)
      <4>1. workload = "handoff"
        BY <1>0, <3>1, <3>4, StepsApart
      <4>2. pc[w] \in {"push", "consume"} => hand[w] # None
        BY <1>0, <4>1 DEF HandoffInv, Carried
      <4> QED BY <1>0, <3>4, <4>2, QueueTypes DEF QueueStep
    <3> QED BY <1>0, <1>1, <3>1, <3>2, <3>3, <3>4, StepsApart
  <2>2. Course' /\ Creation' /\ Counted' /\ Apart'
    BY <1>0, <1>1, CourseOfWorker, CreationOfWorker, CountedOfWorker, ApartOfWorker
  <2>3. SlotsInv' /\ RingInv' /\ HandoffInv'
    BY <1>0, <1>1, SlotsOfWorker, RingOfWorker, HandoffOfWorker
  <2> QED BY <2>1, <2>2, <2>3 DEF IInv
<1>2. ASSUME MainStep PROVE IInv'
  <2>1. TypeInv' /\ Course' /\ Creation' /\ Counted' /\ Apart'
    BY <1>0, <1>2, MainTypes, CourseOfMain, CreationOfMain, CountedOfMain, ApartOfMain
  <2>2. SlotsInv' /\ RingInv' /\ HandoffInv'
    BY <1>0, <1>2, SlotsOfMain, RingOfMain, HandoffOfMain
  <2> QED BY <2>1, <2>2 DEF IInv
<1>3. ASSUME DeadlinePasses \/ Finished \/ UNCHANGED vars PROVE IInv'
  BY <1>3, ClockStep DEF DeadlinePasses, Finished, vars
<1> QED BY <1>1, <1>2, <1>3 DEF Next

\* The inductive invariant of the benchmark.
THEOREM BenchInvariant == Spec => []IInv
BY InitInvariant, StepInvariant, PTL DEF Spec

\* For any number of workers: while a worker is in a timed phase no other one prepares it or
\* is still in the phase before, and main does not reset the queue under it
\* (benchmarks/workloads.c:111-113).
THEOREM PhasesStayApart == Spec => []PhasesApart
<1>1. IInv => PhasesApart
  <2> SUFFICES ASSUME IInv, NEW w \in Worker, NEW u \in Worker, pc[w] \in TimedPlaces
               PROVE  /\ stage[u] >= stage[w]
                      /\ stage[u] = stage[w] =>
                             pc[u] \in TimedPlaces \cup {"wait_phase", "flush", "ended"}
                      /\ phase = <<"WARMUP", "MEASUREMENT">>[stage[w]]
    BY DEF PhasesApart
  <2>1. (stage[w] = 1 /\ phase = "WARMUP") \/ (stage[w] = 2 /\ phase = "MEASUREMENT")
    BY DEF IInv, Course, TimedPlaces
  <2>2. CASE stage[w] = 1 /\ phase = "WARMUP"
    BY <2>2 DEF IInv, Course
  <2>3. CASE stage[w] = 2 /\ phase = "MEASUREMENT"
    BY <2>3 DEF IInv, Course
  <2> QED BY <2>1, <2>2, <2>3
<1> QED BY <1>1, BenchInvariant, PTL

\* No block of the ring or of the handoff is freed twice, and what a worker finds in its
\* mailbox or takes from the queue is live, although mailboxes keep their old pointers
\* (benchmarks/workloads.c:747-770).
THEOREM HandedOverBlocksLive == Spec => []NoUseAfterFree
<1>1. IInv => NoUseAfterFree
  <2> SUFFICES ASSUME IInv PROVE NoUseAfterFree
    OBVIOUS
  <2>0. /\ TypeInv /\ Apart /\ SlotsInv /\ RingInv /\ HandoffInv
        /\ workload \in WorkloadName
        /\ hand \in [Worker -> Worker \cup {None}] /\ items \in Seq(Worker)
    BY DEF IInv, TypeInv
  <2>1. ASSUME NEW v \in Worker, workload = "handoff"
        PROVE  /\ Cardinality(Holders(v)) \in Nat /\ Cardinality(InQueue(v)) \in Nat
               /\ storage[v] = Cardinality(Holders(v)) + Cardinality(InQueue(v))
    BY <2>0, <2>1, HandChange, OccurrencesFinite DEF HandoffInv, Stored, InQueue, Occurrences
  <2>2. ASSUME NEW v \in Worker, workload \in {"ring", "handoff"} PROVE storage[v] >= 0
    <3>1. CASE workload = "handoff"
      BY <2>1, <3>1
    <3>2. CASE workload = "ring"
      BY <2>0, <3>2 DEF RingInv
    <3> QED BY <2>2, <3>1, <3>2
  <2>3. ASSUME NEW v \in Worker, pc[v] = "ring_read", ~AtBarrier(v), mailboxes[v] # None
        PROVE  storage[mailboxes[v]] = 1
    <3>1. workload = "ring"
      BY <2>0, <2>3 DEF Apart, AtHome, RingPlaces
    <3>2. PICK u \in Worker : Successor(u) = v
      BY SuccessorFacts
    <3>3. Reading
      BY <2>0, <2>3, <3>1 DEF RingInv, Sending, Deciding, AtBarrier
    <3>4. mailboxes[v] = u /\ Sent(u)
      BY <2>0, <2>3, <3>1, <3>2, <3>3 DEF RingInv, Sent
    <3> QED BY <2>0, <3>1, <3>4 DEF RingInv
  <2>4. ASSUME NEW v \in Worker, hand[v] # None PROVE storage[hand[v]] > 0
    <3>1. workload = "handoff" /\ hand[v] \in Worker
      BY <2>0, <2>4 DEF Apart
    <3>2. v \in Holders(hand[v]) /\ Holders(hand[v]) \in SUBSET Worker
      BY DEF Holders
    <3>3. Cardinality(Holders(hand[v])) # 0
      BY <3>2, WorkerSets
    <3> QED BY <2>1, <3>1, <3>3
  <2> QED BY <2>2, <2>3, <2>4 DEF NoUseAfterFree
<1> QED BY <1>1, BenchInvariant, PTL

\* Main trims only when every worker has flushed and ended and every block that was handed
\* over has been freed (benchmarks/workloads.c:1140-1175).
THEOREM TrimIsQuiescent == Spec => []TrimsWhenQuiescent
<1>1. IInv => TrimsWhenQuiescent
  <2> SUFFICES ASSUME IInv, pc[Main] = "trim", NEW w \in Worker
               PROVE  pc[w] = "ended" /\ storage[w] = 0
    BY DEF TrimsWhenQuiescent
  <2>0. /\ Course /\ Creation /\ SlotsInv /\ RingInv /\ HandoffInv
        /\ workload \in WorkloadName
    BY DEF IInv, TypeInv
  <2>1. ~failed /\ phase = "MEASUREMENT" /\ \A u \in Worker : pc[u] = "ended"
    BY <2>0 DEF Creation, Course
  <2>2. CASE workload \in General
    BY <2>0, <2>1, <2>2 DEF SlotsInv, SlotsOK, Mismatched
  <2>3. CASE workload = "ring"
    <3>1. ~Sent(w)
      BY <2>1, SuccessorFacts DEF Sent
    <3> QED BY <2>0, <2>1, <2>3, <3>1 DEF RingInv
  <2>4. CASE workload = "handoff"
    <3>1. \A u \in Worker : Gone(u) /\ hand[u] = None
      BY <2>0, <2>1, <2>4 DEF HandoffInv, Carried, Gone
    <3>2. items = <<>>
      BY <2>0, <2>1, <2>4, <3>1, Producers DEF HandoffInv, LeftEmpty
    <3>3. Holders(w) = {} /\ InQueue(w) = {}
      <4>1. Holders(w) = {}
        BY <3>1, WorkerFacts DEF Holders
      <4>2. InQueue(w) = {}
        BY <3>2, EmptyQueue
      <4> QED BY <4>1, <4>2
    <3> QED BY <2>0, <2>1, <2>4, <3>3, FS_EmptySet DEF HandoffInv, Stored
  <2> QED BY <2>0, <2>1, <2>2, <2>3, <2>4 DEF WorkloadName
<1> QED BY <1>1, BenchInvariant, PTL

\* For any number of slots: they hold the live blocks of their worker whatever allocation or
\* clock fails, and a wrong payload costs at most one block, which a pair leaks or a resize
\* leaves a pointer to (benchmarks/workloads.c:382-391, :400-406, :449-455, :467-501).
THEOREM SlotsStayAccounted == Spec => []SlotsAccounted
<1>1. IInv => SlotsAccounted
  BY DEF IInv, SlotsInv, SlotsOK, Mismatched, SlotsAccounted
<1> QED BY <1>1, BenchInvariant, PTL
=============================================================================
