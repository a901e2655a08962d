------------------------------ MODULE MCMimic ------------------------------
(* Small instances of Mimic for TLC. *)
EXTENDS Mimic
=============================================================================
