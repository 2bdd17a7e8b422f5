----------------------------- MODULE FreeChain -----------------------------
(***************************************************************************)
(* Chains of blocks linked by next_free, and the list descriptors of       *)
(* src/transfer_list.h.  A chain is read from a memory, a function next    *)
(* from a block to its successor or Null.                                  *)
(***************************************************************************)
EXTENDS Integers, Sequences, FiniteSets

CONSTANTS Node, Null

ASSUME NodeAssumption == IsFiniteSet(Node) /\ Null \notin Node

Address == Node \cup {Null}

\* The addresses met on n steps from first on; Null is followed by Null.
Steps(next, first, n) ==
    LET at[k \in 1..n] ==
            IF k = 1 THEN first
            ELSE IF at[k - 1] = Null THEN Null ELSE next[at[k - 1]]
    IN  at

\* The blocks of the Null-terminated chain that starts at first, up to the first Null.
\* A chain with a cycle shows as a sequence with a repetition.
Contents(next, first) ==
    LET at == Steps(next, first, Cardinality(Node) + 1)
    IN  [k \in 1..Cardinality({i \in DOMAIN at : at[i] # Null}) |-> at[k]]

\* struct hplf_transfer_list
TransferList == [first : Address, last : Address, count : Nat]

\* hplf_transfer_list_clear
EmptyList == [first |-> Null, last |-> Null, count |-> 0]

\* A descriptor describes the chain seq, which ends at its last block.
Describes(next, list, seq) ==
    /\ list.count = Len(seq)
    /\ Contents(next, list.first) = seq
    /\ list.last = IF seq = <<>> THEN Null ELSE seq[Len(seq)]

\* How many blocks a prefix of at most n blocks has.
PrefixLength(list, n) == IF list.count < n THEN list.count ELSE n

\* The last block of that prefix, found by following the links.
PrefixLast(next, list, n) ==
    Steps(next, list.first, PrefixLength(list, n))[PrefixLength(list, n)]

\* hplf_transfer_list_take_prefix cuts the chain behind the prefix ...
CutMemory(next, list, n) == [next EXCEPT ![PrefixLast(next, list, n)] = Null]

\* Mutant: an exhausted list keeps its last block.
rest_keeps_last(next, list, n) ==
    LET first == next[PrefixLast(next, list, n)] IN
    [first |-> first, last |-> list.last, count |-> list.count - PrefixLength(list, n)]

\* Mutant: more blocks may be subtracted than there are.
rest_counts_request(next, list, n) ==
    LET first == next[PrefixLast(next, list, n)] IN
    [first |-> first,
     last  |-> IF first = Null THEN Null ELSE list.last,
     count |-> list.count - n]

\* ... and leaves the rest to the descriptor.
RestOfList(next, list, n) ==
    LET first == next[PrefixLast(next, list, n)] IN
    [first |-> first,
     last  |-> IF first = Null THEN Null ELSE list.last,
     count |-> list.count - PrefixLength(list, n)]
=============================================================================
