----------------------------- MODULE BenchPhases -----------------------------
(***************************************************************************)
(* benchmarks/workloads.c: main leads its workers through a warmup and a   *)
(* measurement, each with a phase for preparation and a timed phase.  In   *)
(* the ring workload every worker passes a block to its successor between  *)
(* barriers, in the handoff workload producers pass blocks to consumers    *)
(* through a bounded queue, in the others workers keep to themselves.      *)
(*                                                                         *)
(* A critical section of either mutex is one step.  phase_changed is       *)
(* broadcast after each change, so waiting for it is a guard; sleepers on  *)
(* the queue are explicit.  A block is named by the worker that allocated  *)
(* it; of a worker's slots only the number with a pointer is kept, and     *)
(* the order of the entries of a trace is left open.  The random workload  *)
(* is mixed without held slots, large is fixed.  The handoff of a single   *)
(* thread to itself is left out.                                           *)
(***************************************************************************)
EXTENDS Integers, Sequences, FiniteSets

CONSTANTS
    threads, live_slots,
    Workloads,      \* subset of {"ring", "handoff", "mixed", "burst", "fixed"}
    Faults,         \* subset of {"create", "allocate", "clock", "check", "join"}
    None

General == {"mixed", "burst", "fixed"}

ASSUME BenchAssumption ==
    /\ threads \in Nat \ {0, 1} /\ live_slots \in Nat \ {0}
    /\ Workloads \subseteq {"ring", "handoff"} \cup General
    /\ None \notin Int

Worker == 0..(threads - 1)

Main == -1

\* The size of the queue.
capacity == live_slots

VARIABLES
    workload,
    phase, counters, failed,         \* struct run_context
    expired,                         \* the deadline has passed
    ring_stop, mailboxes, barrier,   \* of the ring; barrier is who waits at it
    items, producers_remaining,      \* the queue
    pc, stage,                       \* where each thread is, in which timed phase
    hand,                            \* the block each worker has in hand
    slots,                           \* how many of its slots have a pointer
    storage,                         \* the live blocks of each worker
    created, success                 \* of main

phaseVars == <<phase, counters>>
ringVars == <<ring_stop, mailboxes, barrier>>
queueVars == <<items, producers_remaining>>
ownVars == <<hand, slots, storage>>
mainVars == <<created, success>>
vars == <<workload, phaseVars, failed, expired, ringVars, queueVars, pc, stage, ownVars,
          mainVars>>

Init ==
    /\ workload \in Workloads
    /\ phase = "WAITING"
    /\ counters = [c \in {"ready", "warmup_ready", "warmup_done", "measurement_ready"} |-> 0]
    /\ failed = FALSE /\ expired = FALSE
    /\ ring_stop = FALSE /\ mailboxes = [w \in Worker |-> None] /\ barrier = {}
    /\ items = <<>> /\ producers_remaining = 0
    /\ pc = [t \in Worker \cup {Main} |-> IF t = Main THEN "create" ELSE "absent"]
    /\ stage = [w \in Worker |-> 1]
    /\ hand = [w \in Worker |-> None] /\ slots = [w \in Worker |-> 0]
    /\ storage = [w \in Worker |-> 0]
    /\ created = 0 /\ success = FALSE

Fails(call) == call \in Faults

Goto(t, place) == pc' = [pc EXCEPT ![t] = place]

\* benchmark_deallocate, of a block of w.
Deallocate(w) == storage' = [storage EXCEPT ![w] = @ - 1]

signal_counter(counter) == counters' = [counters EXCEPT ![counter] = @ + 1]

\* The end of a worker's timed phase; a failure is stored by run_worker.
Leave(w, ok) == failed' = (failed \/ ~ok) /\ Goto(w, "leave")

-----------------------------------------------------------------------------
(***************************************************************************)
(* run_worker.                                                             *)
(***************************************************************************)

ReportReady(w) ==
    /\ pc[w] = "start"
    /\ signal_counter("ready")
    /\ Goto(w, "wait_prepare")
    /\ UNCHANGED <<workload, phase, failed, expired, ringVars, queueVars, stage, ownVars, mainVars>>

WaitForPrepare(w) ==
    LET prepare == <<"PREPARE_WARMUP", "PREPARE_MEASUREMENT">>[stage[w]] IN
    /\ pc[w] = "wait_prepare"
    /\ \/ phase = "STOP" /\ Goto(w, "flush")
       \/ phase = prepare /\ Goto(w, "prepare")
    /\ UNCHANGED <<workload, phaseVars, failed, expired, ringVars, queueVars, stage, ownVars,
                   mainVars>>

\* n blocks more, in n slots more.
FillSlots(w, n) ==
    /\ slots' = [slots EXCEPT ![w] = @ + n]
    /\ storage' = [storage EXCEPT ![w] = @ + n]

\* The slots that a mixed workload fills beforehand, and no entry uses.
held == IF workload = "mixed" /\ live_slots >= 4 THEN live_slots \div 4 ELSE 0

\* prepare_slots stops at the first allocation that fails.
Prepare(w) ==
    /\ pc[w] = "prepare"
    /\ \/ FillSlots(w, held) /\ UNCHANGED failed
       \/ Fails("allocate") /\ failed' = TRUE /\ \E n \in 0..(held - 1) : FillSlots(w, n)
    /\ signal_counter(<<"warmup_ready", "measurement_ready">>[stage[w]])
    /\ Goto(w, "wait_phase")
    /\ UNCHANGED <<workload, phase, expired, ringVars, queueVars, stage, hand, mainVars>>

cleanup_slots(w) ==
    /\ slots' = [slots EXCEPT ![w] = 0]
    /\ storage' = [storage EXCEPT ![w] = @ - slots[w]]

WaitForPhase(w) ==
    /\ pc[w] = "wait_phase"
    /\ \/ phase = "STOP" /\ cleanup_slots(w) /\ Goto(w, "flush")
       \/ /\ phase = <<"WARMUP", "MEASUREMENT">>[stage[w]]
          /\ Goto(w, "enter")
          /\ UNCHANGED <<slots, storage>>
    /\ UNCHANGED <<workload, phaseVars, failed, expired, ringVars, queueVars, stage, hand, mainVars>>

producer_count == threads \div 2

IsProducer(w) == w < producer_count

EnterPhase(w) ==
    /\ pc[w] = "enter"
    /\ Goto(w, IF failed THEN "leave"
               ELSE IF workload = "ring" THEN "ring_send"
               ELSE IF workload \in General THEN "general"
               ELSE IF IsProducer(w) THEN "produce" ELSE "pop")
    /\ UNCHANGED <<workload, phaseVars, failed, expired, ringVars, queueVars, stage, ownVars,
                   mainVars>>

LeavePhase(w) ==
    /\ pc[w] = "leave"
    /\ cleanup_slots(w)
    /\ IF stage[w] = 1
         THEN /\ signal_counter("warmup_done")
              /\ stage' = [stage EXCEPT ![w] = 2]
              /\ Goto(w, "wait_prepare")
         ELSE Goto(w, "flush") /\ UNCHANGED <<counters, stage>>
    /\ UNCHANGED <<workload, phase, failed, expired, ringVars, queueVars, hand, mainVars>>

Flush(w) ==
    /\ pc[w] = "flush"
    /\ Goto(w, "ended")
    /\ UNCHANGED <<workload, phaseVars, failed, expired, ringVars, queueVars, stage, ownVars,
                   mainVars>>

-----------------------------------------------------------------------------
(***************************************************************************)
(* run_general_phase.                                                      *)
(***************************************************************************)

slot_allocate(w) == slots[w] < live_slots /\ FillSlots(w, 1)

\* Mutant: the slot keeps its pointer.
release_keeps_pointer(w) == slots[w] > held /\ Deallocate(w) /\ UNCHANGED slots

slot_release(w) ==
    /\ slots[w] > held
    /\ slots' = [slots EXCEPT ![w] = @ - 1]
    /\ Deallocate(w)

\* A pair in the fixed workload, an entry of a burst or a toggle, which may resize.
execute_entry(w) ==
    \/ workload # "fixed" /\ (slot_allocate(w) \/ slot_release(w))
    \/ workload \in {"fixed", "burst"} /\ UNCHANGED <<slots, storage>>
    \/ workload = "mixed" /\ slots[w] > held /\ UNCHANGED <<slots, storage>>

\* An entry without a block, or with a wrong payload: a pair does not free its block, and
\* a resize that does frees it although the slot keeps the old pointer.
EntryFails(w) ==
    \/ /\ Fails("allocate") /\ (workload = "burst" => slots[w] < live_slots)
       /\ UNCHANGED <<slots, storage>>
    \/ /\ Fails("check") /\ workload # "fixed" /\ (workload = "burst" => slots[w] > held)
       /\ UNCHANGED <<slots, storage>>
    \/ /\ Fails("check") /\ workload = "fixed"
       /\ storage' = [storage EXCEPT ![w] = @ + 1]
       /\ UNCHANGED slots
    \/ /\ Fails("check") /\ workload = "mixed" /\ slots[w] > held
       /\ Deallocate(w)
       /\ UNCHANGED slots

\* One entry of the trace, and the deadline.
run_general_phase(w) ==
    /\ pc[w] = "general"
    /\ \/ execute_entry(w) /\ expired /\ Leave(w, TRUE)
       \/ execute_entry(w) /\ ~expired /\ UNCHANGED <<pc, failed>>
       \/ execute_entry(w) /\ Fails("clock") /\ Leave(w, FALSE)
       \/ EntryFails(w) /\ Leave(w, FALSE)
    /\ UNCHANGED <<workload, phaseVars, expired, ringVars, queueVars, stage, hand, mainVars>>

-----------------------------------------------------------------------------
(***************************************************************************)
(* run_ring_phase.                                                         *)
(***************************************************************************)

AtBarrier(w) == w \in barrier

\* Mutant: the barrier is missing.
no_barrier(w, place) == Goto(w, place) /\ UNCHANGED barrier

\* pthread_barrier_wait: the last one to arrive releases everybody.
barrier_wait(w, place) ==
    /\ Goto(w, place)
    /\ barrier' = IF barrier \cup {w} = Worker THEN {} ELSE barrier \cup {w}

\* The first barrier, after the mailbox is written.
PublishEntry(w, place) == barrier_wait(w, place)

RingSend(w) ==
    LET successor == (w + 1) % threads IN
    /\ pc[w] = "ring_send" /\ ~AtBarrier(w)
    /\ \/ /\ mailboxes' = [mailboxes EXCEPT ![successor] = w]
          /\ storage' = [storage EXCEPT ![w] = @ + 1]
          /\ UNCHANGED failed
       \/ /\ Fails("allocate")
          /\ mailboxes' = [mailboxes EXCEPT ![successor] = None]
          /\ failed' = TRUE
          /\ UNCHANGED storage
    /\ PublishEntry(w, "ring_read")
    /\ UNCHANGED <<workload, phaseVars, expired, ring_stop, queueVars, stage, hand, slots, mainVars>>

RingRead(w) ==
    /\ pc[w] = "ring_read" /\ ~AtBarrier(w)
    /\ \/ mailboxes[w] = None /\ UNCHANGED <<storage, failed>>
       \/ mailboxes[w] # None /\ Deallocate(mailboxes[w]) /\ UNCHANGED failed
       \/ mailboxes[w] # None /\ Deallocate(mailboxes[w]) /\ Fails("check") /\ failed' = TRUE
    /\ barrier_wait(w, "ring_decide")
    /\ UNCHANGED <<workload, phaseVars, expired, ring_stop, mailboxes, queueVars, stage, hand,
                   slots, mainVars>>

RingDecide(w) ==
    /\ pc[w] = "ring_decide" /\ ~AtBarrier(w)
    /\ ring_stop' \in (IF w # 0 THEN {ring_stop}
                       ELSE {ring_stop \/ expired \/ failed}
                            \cup (IF Fails("clock") THEN {TRUE} ELSE {}))
    /\ barrier_wait(w, "ring_next")
    /\ UNCHANGED <<workload, phaseVars, failed, expired, mailboxes, queueVars, stage, ownVars,
                   mainVars>>

RingNext(w) ==
    /\ pc[w] = "ring_next" /\ ~AtBarrier(w)
    /\ \/ ~ring_stop /\ Goto(w, "ring_send") /\ UNCHANGED failed
       \/ ring_stop /\ Leave(w, TRUE)
       \/ ring_stop /\ Fails("clock") /\ Leave(w, FALSE)
    /\ UNCHANGED <<workload, phaseVars, expired, ringVars, queueVars, stage, ownVars, mainVars>>

-----------------------------------------------------------------------------
(***************************************************************************)
(* run_queue_phase.                                                        *)
(***************************************************************************)

NotFullSleepers == {w \in Worker : pc[w] = "push_sleep"}

NotEmptySleepers == {w \in Worker : pc[w] = "pop_sleep"}

\* w goes to place, and the woken test again what they wait for.
WakeAndGoto(woken, w, place) ==
    pc' = [t \in DOMAIN pc |->
        IF t = w THEN place
        ELSE IF t \notin woken THEN pc[t]
        ELSE IF pc[t] = "push_sleep" THEN "push" ELSE "pop"]

signal(sleepers, w, place) ==
    \/ sleepers = {} /\ Goto(w, place)
    \/ \E u \in sleepers : WakeAndGoto({u}, w, place)

SpuriousWakeup(w) ==
    /\ w \in NotFullSleepers \cup NotEmptySleepers
    /\ WakeAndGoto({w}, Main, pc[Main])
    /\ UNCHANGED <<workload, phaseVars, failed, expired, ringVars, queueVars, stage, ownVars,
                   mainVars>>

ProduceItem(w) ==
    /\ pc[w] = "produce"
    /\ \/ /\ hand' = [hand EXCEPT ![w] = w]
          /\ storage' = [storage EXCEPT ![w] = @ + 1]
          /\ Goto(w, "push")
          /\ UNCHANGED failed
       \/ Fails("allocate") /\ failed' = TRUE /\ Goto(w, "abort") /\ UNCHANGED <<hand, storage>>
    /\ UNCHANGED <<workload, phaseVars, expired, ringVars, queueVars, stage, slots, mainVars>>

QueuePush(w) ==
    /\ pc[w] = "push"
    /\ \/ /\ Len(items) = capacity /\ ~failed
          /\ Goto(w, "push_sleep")
          /\ UNCHANGED <<items, hand, storage>>
       \/ /\ failed
          /\ Deallocate(hand[w])
          /\ hand' = [hand EXCEPT ![w] = None]
          /\ Goto(w, "producer_done")
          /\ UNCHANGED items
       \/ /\ Len(items) < capacity /\ ~failed
          /\ items' = Append(items, hand[w])
          /\ hand' = [hand EXCEPT ![w] = None]
          /\ signal(NotEmptySleepers, w, "pushed")
          /\ UNCHANGED storage
    /\ UNCHANGED <<workload, phaseVars, failed, expired, ringVars, producers_remaining, stage,
                   slots, mainVars>>

\* The end of the producer's loop body.
Pushed(w) ==
    /\ pc[w] = "pushed"
    /\ \/ Goto(w, IF expired \/ failed THEN "producer_done" ELSE "produce") /\ UNCHANGED failed
       \/ Fails("clock") /\ failed' = TRUE /\ Goto(w, "abort")
    /\ UNCHANGED <<workload, phaseVars, expired, ringVars, queueVars, stage, ownVars, mainVars>>

\* queue_abort has stored failed; now it wakes everybody.
QueueAbort(w) ==
    /\ pc[w] = "abort"
    /\ WakeAndGoto(NotEmptySleepers \cup NotFullSleepers, w,
                   IF IsProducer(w) THEN "producer_done" ELSE "leave")
    /\ UNCHANGED <<workload, phaseVars, failed, expired, ringVars, queueVars, stage, ownVars,
                   mainVars>>

\* Mutant: a producer that ends wakes one consumer.
wake_one(w) == signal(NotEmptySleepers, w, "leave")

WakeConsumers(w) == WakeAndGoto(NotEmptySleepers, w, "leave")

ProducerDone(w) ==
    /\ pc[w] = "producer_done"
    /\ producers_remaining' = IF producers_remaining # 0 THEN producers_remaining - 1 ELSE 0
    /\ WakeConsumers(w)
    /\ UNCHANGED <<workload, phaseVars, failed, expired, ringVars, items, stage, ownVars, mainVars>>

\* Mutant: consumers stop with the producers.
drained_with_producers == items = <<>> \/ producers_remaining = 0

Drained == items = <<>>

QueuePop(w) ==
    /\ pc[w] = "pop"
    /\ \/ /\ Drained /\ producers_remaining # 0 /\ ~failed
          /\ Goto(w, "pop_sleep")
          /\ UNCHANGED <<items, hand, failed>>
       \/ /\ Drained /\ (producers_remaining = 0 \/ failed)
          /\ Leave(w, TRUE) \/ (Fails("clock") /\ Leave(w, FALSE))
          /\ UNCHANGED <<items, hand>>
       \/ /\ ~Drained
          /\ hand' = [hand EXCEPT ![w] = Head(items)]
          /\ items' = Tail(items)
          /\ signal(NotFullSleepers, w, "consume")
          /\ UNCHANGED failed
    /\ UNCHANGED <<workload, phaseVars, expired, ringVars, producers_remaining, stage, slots,
                   storage, mainVars>>

ConsumeItem(w) ==
    /\ pc[w] = "consume"
    /\ Deallocate(hand[w])
    /\ hand' = [hand EXCEPT ![w] = None]
    /\ \/ Goto(w, "pop") /\ UNCHANGED failed
       \/ Fails("check") /\ failed' = TRUE /\ Goto(w, "abort")
    /\ UNCHANGED <<workload, phaseVars, expired, ringVars, queueVars, stage, slots, mainVars>>

-----------------------------------------------------------------------------
(***************************************************************************)
(* benchmark_run.                                                          *)
(***************************************************************************)

CreateWorker ==
    /\ pc[Main] = "create" /\ created < threads
    /\ created' = created + 1
    /\ pc' = [pc EXCEPT ![created] = "start",
                        ![Main] = IF created + 1 = threads THEN "await_ready" ELSE "create"]
    /\ UNCHANGED <<workload, phaseVars, failed, expired, ringVars, queueVars, stage, ownVars,
                   success>>

Stop == phase' = "STOP" /\ Goto(Main, "join")

CreateFails ==
    /\ pc[Main] = "create" /\ created < threads
    /\ Fails("create")
    /\ Stop
    /\ UNCHANGED <<workload, counters, failed, expired, ringVars, queueVars, stage, ownVars,
                   mainVars>>

\* Mutant: one worker is not waited for.
all_but_one(counter) == counters[counter] >= threads - 1

Everybody(counter) == counters[counter] = threads

PrepareWarmup ==
    /\ pc[Main] = "await_ready" /\ Everybody("ready")
    /\ phase' = "PREPARE_WARMUP"
    /\ Goto(Main, "await_warmup_ready")
    /\ UNCHANGED <<workload, counters, failed, expired, ringVars, queueVars, stage, ownVars,
                   mainVars>>

reset_phase_state ==
    /\ ring_stop' = FALSE
    /\ IF workload = "handoff"
         THEN items' = <<>> /\ producers_remaining' = producer_count
         ELSE UNCHANGED queueVars

\* Main starts a timed phase with its deadline, or stops.
StartPhase(counter, here, timed, next) ==
    /\ pc[Main] = here /\ Everybody(counter)
    /\ reset_phase_state
    /\ \/ ~failed /\ phase' = timed /\ expired' = FALSE /\ Goto(Main, next)
       \/ (failed \/ Fails("clock")) /\ Stop /\ UNCHANGED expired
    /\ UNCHANGED <<workload, counters, failed, mailboxes, barrier, stage, ownVars, created>>

StartWarmup ==
    /\ StartPhase("warmup_ready", "await_warmup_ready", "WARMUP", "await_warmup_done")
    /\ UNCHANGED success

PrepareMeasurement ==
    /\ pc[Main] = "await_warmup_done" /\ Everybody("warmup_done")
    /\ \/ failed /\ Stop
       \/ ~failed /\ phase' = "PREPARE_MEASUREMENT" /\ Goto(Main, "await_measurement_ready")
    /\ UNCHANGED <<workload, counters, failed, expired, ringVars, queueVars, stage, ownVars,
                   mainVars>>

StartMeasurement ==
    /\ StartPhase("measurement_ready", "await_measurement_ready", "MEASUREMENT", "join")
    /\ success' = (phase' = "MEASUREMENT")

\* A join that fails does not wait for its worker.
JoinWorkers ==
    /\ pc[Main] = "join"
    /\ \E unjoined \in SUBSET (0..(created - 1)) :
           /\ unjoined # {} => Fails("join")
           /\ \A w \in (0..(created - 1)) \ unjoined : pc[w] = "ended"
           /\ success' = (success /\ unjoined = {})
    /\ Goto(Main, IF success' /\ ~failed THEN "trim" ELSE "done")
    /\ UNCHANGED <<workload, phaseVars, failed, expired, ringVars, queueVars, stage, ownVars,
                   created>>

FlushAndTrim ==
    /\ pc[Main] = "trim"
    /\ Goto(Main, "done")
    /\ UNCHANGED <<workload, phaseVars, failed, expired, ringVars, queueVars, stage, ownVars,
                   mainVars>>

\* The monotonic clock reaches the deadline.
DeadlinePasses ==
    /\ phase \in {"WARMUP", "MEASUREMENT"} /\ ~expired
    /\ expired' = TRUE
    /\ UNCHANGED <<workload, phaseVars, failed, ringVars, queueVars, pc, stage, ownVars, mainVars>>

Finished == pc[Main] = "done" /\ UNCHANGED vars

WorkerStep(w) ==
    \/ ReportReady(w) \/ WaitForPrepare(w) \/ Prepare(w) \/ WaitForPhase(w)
    \/ EnterPhase(w) \/ LeavePhase(w) \/ Flush(w) \/ run_general_phase(w)
    \/ RingSend(w) \/ RingRead(w) \/ RingDecide(w) \/ RingNext(w)
    \/ ProduceItem(w) \/ QueuePush(w) \/ Pushed(w) \/ QueueAbort(w)
    \/ ProducerDone(w) \/ QueuePop(w) \/ ConsumeItem(w)

MainStep ==
    \/ CreateWorker \/ CreateFails \/ PrepareWarmup \/ StartWarmup
    \/ PrepareMeasurement \/ StartMeasurement \/ JoinWorkers \/ FlushAndTrim

Next ==
    \/ \E w \in Worker : WorkerStep(w) \/ SpuriousWakeup(w)
    \/ MainStep
    \/ DeadlinePasses
    \/ Finished

Spec == Init /\ [][Next]_vars

\* Threads keep running, and time passes; nobody can count on a spurious wakeup.
FairSpec ==
    /\ Spec
    /\ \A w \in Worker : WF_vars(WorkerStep(w))
    /\ WF_vars(MainStep) /\ WF_vars(DeadlinePasses)

-----------------------------------------------------------------------------
(***************************************************************************)
(* Properties.                                                             *)
(***************************************************************************)

\* No block that is handed over is freed twice, and the one a worker finds in its mailbox
\* or takes from the queue is still live: mailboxes keep their old pointers from round to
\* round, so this rests on the barriers (benchmarks/workloads.c:747-770).
NoUseAfterFree ==
    /\ workload \in {"ring", "handoff"} => \A w \in Worker : storage[w] >= 0
    /\ \A w \in Worker :
           pc[w] = "ring_read" /\ ~AtBarrier(w) /\ mailboxes[w] # None => storage[mailboxes[w]] = 1
    /\ \A w \in Worker : hand[w] # None => storage[hand[w]] > 0

\* The slots of a worker hold its live blocks, through a preparation that stops halfway,
\* entries cut short by a failure and the cleanup.  A wrong payload, and nothing else,
\* breaks this, and by one block: a pair leaks it, and after a resize it is freed although
\* the slot keeps its pointer, so that the cleanup frees it once more
\* (benchmarks/workloads.c:382-391, :400-406, :449-455, :467-501).
SlotsAccounted ==
    workload \in General =>
        \A w \in Worker :
            \/ storage[w] = slots[w]
            \/ /\ failed /\ Fails("check")
               /\ \/ workload = "fixed" /\ storage[w] = slots[w] + 1
                  \/ workload = "mixed" /\ storage[w] = slots[w] - 1

\* Main trims only when every worker has flushed its cache and ended and every block
\* that was handed over has been freed (benchmarks/workloads.c:1140-1175).
TrimsWhenQuiescent ==
    pc[Main] = "trim" => \A w \in Worker : pc[w] = "ended" /\ storage[w] = 0

TimedPlaces == {"enter", "general", "leave", "ring_send", "ring_read", "ring_decide",
                "ring_next", "produce", "push", "push_sleep", "pushed", "abort",
                "producer_done", "pop", "pop_sleep", "consume"}

\* While a worker is in a timed phase no other one is still preparing it or in the
\* phase before, and main does not reset the queue under it (the phase invariant at
\* benchmarks/workloads.c:111-113).
PhasesApart ==
    \A w, u \in Worker :
        pc[w] \in TimedPlaces =>
            /\ stage[u] >= stage[w]
            /\ stage[u] = stage[w] => pc[u] \in TimedPlaces \cup {"wait_phase", "flush", "ended"}
            /\ phase = <<"WARMUP", "MEASUREMENT">>[stage[w]]

Done == pc[Main] = "done" /\ \A w \in Worker : pc[w] \in {"absent", "ended"}

\* A benchmark ends, whatever fails, but for a failure in the ring
\* (benchmarks/workloads.c:526-592, :881-925).
BenchmarkEnds == <>(Done \/ (workload = "ring" /\ failed))

\* A failure in the ring ends it too: "the third publishes the stop choice"
\* (benchmarks/workloads.c:751), and main reports the failure.
RingEnds == <>Done
=============================================================================
