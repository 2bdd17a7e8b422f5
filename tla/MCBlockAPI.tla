----------------------------- MODULE MCBlockAPI -----------------------------
(***************************************************************************)
(* Instances of BlockAPI for TLC.                                          *)
(***************************************************************************)
EXTENDS BlockAPI

Capacities == [c \in 0..1 |-> 2 * c + 2]
=============================================================================
