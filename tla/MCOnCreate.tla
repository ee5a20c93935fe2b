----------------------------- MODULE MCOnCreate -----------------------------
(***************************************************************************)
(* Model-checking instance of OnCreate.  Callers, partners and (when no    *)
(* liveness is checked) workers are interchangeable.                       *)
(***************************************************************************)
EXTENDS OnCreate, TLC

Symmetry == Permutations(Callers) \cup Permutations(Partners)
=============================================================================
