-------------------------- MODULE TransferAtomic ---------------------------
(***************************************************************************)
(* The lock-free transfer list of src/transfer_atomic.c: publication links *)
(* a private batch to the head it has observed and swings the head with a  *)
(* weak compare-and-exchange, detachment exchanges the head for NULL and   *)
(* then walks the chain it got.  The heads of different classes share      *)
(* nothing, so the model has one.                                          *)
(*                                                                         *)
(* Memory order.  The links are plain memory, only the head is atomic.     *)
(* Every write of the head is a read-modify-write, so the release sequence *)
(* of a publication lasts until the head is detached, whatever is          *)
(* published in between.  For each block, ordered_before records the       *)
(* threads that happen after every access to its link, and released tells  *)
(* whether the release sequence that the head carries does.                *)
(***************************************************************************)
EXTENDS FreeChain, SequencesExt

CONSTANT Thread

VARIABLES
    head,            \* heads[class_index].value
    next_free,       \* the link of each block
    list,            \* each thread's list descriptor
    observed,        \* the local variables of a publication
    block,           \* ... and of a detachment
    pc,
    held,            \* the blocks a thread owns outside its descriptor
    ordered_before,
    released

memoryVars == <<ordered_before, released>>
vars == <<head, next_free, list, observed, block, pc, held, memoryVars>>

TypeOK ==
    /\ head \in Address
    /\ next_free \in [Node -> Address]
    /\ list \in [Thread -> TransferList]
    /\ observed \in [Thread -> Address]
    /\ block \in [Thread -> Address]
    /\ pc \in [Thread -> {"idle", "link", "cas", "walk"}]
    /\ held \in [Thread -> SUBSET Node]
    /\ ordered_before \in [Node -> SUBSET Thread]
    /\ released \subseteq Node

Init ==
    /\ head = Null
    /\ next_free = [n \in Node |-> Null]
    /\ list = [t \in Thread |-> EmptyList]
    /\ observed = [t \in Thread |-> Null]
    /\ block = [t \in Thread |-> Null]
    /\ pc = [t \in Thread |-> "idle"]
    /\ \E owner \in [Node -> Thread] :
          /\ held = [t \in Thread |-> {n \in Node : owner[n] = t}]
          /\ ordered_before = [n \in Node |-> {owner[n]}]
    /\ released = {}

-----------------------------------------------------------------------------
(***************************************************************************)
(* Memory order.                                                           *)
(***************************************************************************)

\* Thread t reads or writes the links of the blocks in S.
Accesses(t, S) ==
    /\ ordered_before' = [n \in Node |-> IF n \in S THEN {t} ELSE ordered_before[n]]
    /\ released' = released \ S

\* Mutant: memory_order_relaxed instead of memory_order_release.
release_relaxed(t) == UNCHANGED memoryVars

Release(t) ==
    /\ released' = released \cup {n \in Node : t \in ordered_before[n]}
    /\ UNCHANGED ordered_before

Acquire(t) ==
    /\ ordered_before' = [n \in Node |-> IF n \in released
                                         THEN ordered_before[n] \cup {t}
                                         ELSE ordered_before[n]]
    /\ UNCHANGED released

-----------------------------------------------------------------------------
(***************************************************************************)
(* What the owner of blocks does between transfers.                        *)
(***************************************************************************)

\* It links some of its blocks into a list, in any order.
Gather(t) ==
    /\ pc[t] = "idle" /\ list[t].first = Null
    /\ \E seq \in SetToAllKPermutations(held[t]) :
          /\ seq # <<>>
          /\ next_free' =
                [n \in Node |->
                    IF \E i \in 1 .. Len(seq) : seq[i] = n
                    THEN LET i == CHOOSE j \in 1 .. Len(seq) : seq[j] = n
                         IN  IF i = Len(seq) THEN Null ELSE seq[i + 1]
                    ELSE next_free[n]]
          /\ list' = [list EXCEPT ![t] = [first |-> Head(seq), last |-> Last(seq),
                                          count |-> Len(seq)]]
          /\ held' = [held EXCEPT ![t] = @ \ Range(seq)]
          /\ Accesses(t, Range(seq))
    /\ UNCHANGED <<head, observed, block, pc>>

\* It keeps the first n blocks of a list, as a cache does that refills.
TakePrefix(t, n) ==
    /\ pc[t] = "idle" /\ list[t].first # Null
    /\ next_free' = CutMemory(next_free, list[t], n)
    /\ list' = [list EXCEPT ![t] = RestOfList(next_free, list[t], n)]
    /\ held' = [held EXCEPT ![t] = @ \cup Range(Contents(next_free', list[t].first))]
    /\ Accesses(t, Range(Steps(next_free, list[t].first, PrefixLength(list[t], n))))
    /\ UNCHANGED <<head, observed, block, pc>>

-----------------------------------------------------------------------------
(***************************************************************************)
(* hplf_transfer_atomic_publish.                                           *)
(***************************************************************************)

\* The relaxed load may return an outdated head: any address will do.
LoadHead(t) ==
    /\ pc[t] = "idle" /\ list[t].first # Null
    /\ \E address \in Address : observed' = [observed EXCEPT ![t] = address]
    /\ pc' = [pc EXCEPT ![t] = "link"]
    /\ UNCHANGED <<head, next_free, list, block, held, memoryVars>>

LinkTail(t) ==
    /\ pc[t] = "link"
    /\ next_free' = [next_free EXCEPT ![list[t].last] = observed[t]]
    /\ Accesses(t, {list[t].last})
    /\ pc' = [pc EXCEPT ![t] = "cas"]
    /\ UNCHANGED <<head, list, observed, block, held>>

CasSucceeds(t) ==
    /\ pc[t] = "cas" /\ head = observed[t]
    /\ head' = list[t].first
    /\ Release(t)
    /\ list' = [list EXCEPT ![t] = EmptyList]
    /\ observed' = [observed EXCEPT ![t] = Null]
    /\ pc' = [pc EXCEPT ![t] = "idle"]
    /\ UNCHANGED <<next_free, block, held>>

\* Mutant: the retry goes on with the link of the failed attempt.
cas_fails_without_relinking(t) ==
    /\ pc[t] = "cas"
    /\ observed' = [observed EXCEPT ![t] = head]
    /\ UNCHANGED <<head, next_free, list, block, pc, held, memoryVars>>

\* Mutant: the failed attempt does not update observed.
cas_fails_unobserved(t) ==
    /\ pc[t] = "cas"
    /\ pc' = [pc EXCEPT ![t] = "link"]
    /\ UNCHANGED <<head, next_free, list, observed, block, held, memoryVars>>

\* The head has changed, or the weak exchange fails for no reason.
CasFails(t) ==
    /\ pc[t] = "cas"
    /\ observed' = [observed EXCEPT ![t] = head]
    /\ pc' = [pc EXCEPT ![t] = "link"]
    /\ UNCHANGED <<head, next_free, list, block, held, memoryVars>>

-----------------------------------------------------------------------------
(***************************************************************************)
(* hplf_transfer_atomic_detach.                                            *)
(***************************************************************************)

Exchange(t) ==
    /\ pc[t] = "idle" /\ list[t].first = Null
    /\ head' = Null
    /\ Acquire(t)
    /\ list' = [list EXCEPT ![t].first = head]
    /\ block' = [block EXCEPT ![t] = head]
    /\ pc' = [pc EXCEPT ![t] = "walk"]
    /\ UNCHANGED <<next_free, observed, held>>

\* One turn of the loop of hplf_transfer_list_from_chain.
WalkChain(t) ==
    /\ pc[t] = "walk" /\ block[t] # Null
    /\ list' = [list EXCEPT ![t].last = block[t], ![t].count = @ + 1]
    /\ block' = [block EXCEPT ![t] = next_free[block[t]]]
    /\ Accesses(t, {block[t]})
    /\ UNCHANGED <<head, next_free, observed, pc, held>>

DetachReturns(t) ==
    /\ pc[t] = "walk" /\ block[t] = Null
    /\ pc' = [pc EXCEPT ![t] = "idle"]
    /\ UNCHANGED <<head, next_free, list, observed, block, held, memoryVars>>

-----------------------------------------------------------------------------

Step(t) ==
    LinkTail(t) \/ CasSucceeds(t) \/ CasFails(t) \/ WalkChain(t) \/ DetachReturns(t)

Call(t) ==
    \/ Gather(t) \/ LoadHead(t) \/ Exchange(t)
    \/ \E n \in 1 .. Cardinality(Node) : TakePrefix(t, n)

Next == \E t \in Thread : Step(t) \/ Call(t)

Spec == Init /\ [][Next]_vars

\* Threads keep running, and not every weak exchange that could succeed fails
\* for no reason, forever.  No single thread is promised that it succeeds.
Fairness ==
    /\ \A t \in Thread : WF_vars(Step(t))
    /\ SF_vars(\E t \in Thread : CasSucceeds(t))

FairSpec == Spec /\ Fairness

-----------------------------------------------------------------------------
(***************************************************************************)
(* Properties.                                                             *)
(***************************************************************************)

\* The links that thread t may read or write in its next step.
Touches(t) ==
    CASE pc[t] = "idle" -> held[t] \cup Range(Contents(next_free, list[t].first))
      [] pc[t] = "link" -> held[t] \cup {list[t].last}
      [] pc[t] = "cas"  -> held[t]
      [] pc[t] = "walk" -> held[t] \cup ({block[t]} \ {Null})

\* No data race on a link: every earlier access of another thread happens
\* before.  Release on success, acquire on detachment and nothing else is
\* enough, as the comments marked I03 to I06 claim.
NoDataRace == \A t \in Thread : \A n \in Touches(t) : t \in ordered_before[n]

\* "A nonempty descriptor exclusively owns first..last and every next_free
\* link": between operations a descriptor describes the whole chain it starts,
\* however prefixes were cut from it.
DescriptorsExact ==
    \A t \in Thread : pc[t] = "idle" =>
        Describes(next_free, list[t], Contents(next_free, list[t].first))

\* The blocks thread t owns; a publication owns its batch until the exchange
\* succeeds, though the tail is already linked to blocks of others.
OwnedBy(t) ==
    held[t] \cup
    IF pc[t] = "walk" THEN Range(Contents(next_free, list[t].first))
    ELSE Range(Steps(next_free, list[t].first, list[t].count))

Transfers == INSTANCE TransferExchange WITH
    shared <- Contents(next_free, head), private <- [t \in Thread |-> OwnedBy(t)]

\* Publications and detachments take effect at once, also when the head that a
\* publication observed was detached and published again in the meantime.
ImplementsExchange == Transfers!Spec

\* An operation of some thread ends.
Completes == \E t \in Thread : pc[t] # "idle" /\ pc'[t] = "idle"

\* Lock freedom: as long as operations are under way, some operation ends.
LockFree ==
    []<>(\A t \in Thread : pc[t] = "idle") \/ []<><<Completes>>_vars
=============================================================================
