------------------------------ MODULE MCOutbox ------------------------------
(***************************************************************************)
(* Model-checking instance of Outbox: messages and workers are             *)
(* interchangeable.                                                        *)
(***************************************************************************)
EXTENDS Outbox, TLC

Symmetry == Permutations(Messages) \cup Permutations(Workers)
=============================================================================
