------------------------------ MODULE JobQueue ------------------------------
(***************************************************************************)
(* What the bounded queue of examples/worker_pool.c promises: jobs leave   *)
(* in the order in which they came, a job is with one thread or in the     *)
(* queue, and a closed queue accepts no more.                              *)
(***************************************************************************)
EXTENDS Naturals, Sequences

CONSTANTS Thread, Job, capacity, None

VARIABLES queue, closed, held

Init ==
    /\ queue = <<>>
    /\ closed = FALSE
    /\ held = [t \in Thread |-> None]

InHand(t) == held[t] # None

Obtain(t, j) ==
    /\ ~InHand(t)
    /\ \A u \in Thread : held[u] # j
    /\ \A i \in 1..Len(queue) : queue[i] # j
    /\ held' = [held EXCEPT ![t] = j]
    /\ UNCHANGED <<queue, closed>>

Push(t) ==
    /\ InHand(t) /\ ~closed /\ Len(queue) < capacity
    /\ queue' = Append(queue, held[t])
    /\ held' = [held EXCEPT ![t] = None]
    /\ UNCHANGED closed

Pop(t) ==
    /\ ~InHand(t) /\ queue # <<>>
    /\ held' = [held EXCEPT ![t] = Head(queue)]
    /\ queue' = Tail(queue)
    /\ UNCHANGED closed

Finish(t) ==
    /\ InHand(t)
    /\ held' = [held EXCEPT ![t] = None]
    /\ UNCHANGED <<queue, closed>>

Close ==
    /\ closed' = TRUE
    /\ UNCHANGED <<queue, held>>

ReleaseRemaining ==
    /\ \A t \in Thread : ~InHand(t)
    /\ queue' = <<>>
    /\ UNCHANGED <<closed, held>>

Next ==
    \/ \E t \in Thread : Push(t) \/ Pop(t) \/ Finish(t) \/ (\E j \in Job : Obtain(t, j))
    \/ Close
    \/ ReleaseRemaining

Spec == Init /\ [][Next]_<<queue, closed, held>>
=============================================================================
