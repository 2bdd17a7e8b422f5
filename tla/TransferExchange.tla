-------------------------- MODULE TransferExchange --------------------------
(***************************************************************************)
(* What a transfer list promises (src/transfer_atomic.h: "Publish consumes *)
(* list ownership; detach returns exclusive whole-list ownership"): a batch*)
(* goes in at once and in its own order, and everything that is in comes   *)
(* out at once, to one thread.                                             *)
(***************************************************************************)
EXTENDS Sequences, SequencesExt, FiniteSets

CONSTANTS Thread, Node

VARIABLES
    shared,  \* the published blocks, the next to be taken first
    private  \* the blocks each thread owns

exchangeVars == <<shared, private>>

Batches(S) == {seq \in SetToAllKPermutations(S) : seq # <<>>}

Init ==
    /\ shared = <<>>
    /\ \E owner \in [Node -> Thread] :
          private = [t \in Thread |-> {n \in Node : owner[n] = t}]

Publish(t) ==
    \E batch \in Batches(private[t]) :
        /\ shared' = batch \o shared
        /\ private' = [private EXCEPT ![t] = @ \ Range(batch)]

Detach(t) ==
    /\ shared' = <<>>
    /\ private' = [private EXCEPT ![t] = @ \cup Range(shared)]

Next == \E t \in Thread : Publish(t) \/ Detach(t)

Spec == Init /\ [][Next]_exchangeVars
=============================================================================
