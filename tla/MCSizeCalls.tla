---------------------------- MODULE MCSizeCalls -----------------------------
(***************************************************************************)
(* An instance of SizeCalls for TLC.                                       *)
(***************************************************************************)
EXTENDS SizeCalls

Capacities == [c \in 0..2 |-> 3 * c + 2]
=============================================================================
