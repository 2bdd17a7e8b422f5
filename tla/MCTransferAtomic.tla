-------------------------- MODULE MCTransferAtomic -------------------------
(***************************************************************************)
(* Instances of TransferAtomic for TLC.                                    *)
(***************************************************************************)
EXTENDS TransferAtomic
=============================================================================
