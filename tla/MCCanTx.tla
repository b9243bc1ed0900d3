------------------------------ MODULE MCCanTx ------------------------------
(* Instances of CanTx for TLC.                                             *)
EXTENDS CanTx
=============================================================================
