-------------------------- MODULE MCRequestService --------------------------
(***************************************************************************)
(* Model-checking instance of RequestService, with the symmetry of the     *)
(* sets whose members the handlers do not tell apart.                      *)
(***************************************************************************)
EXTENDS RequestService, TLC

Symmetry == Permutations(Partners) \cup Permutations(Reasons)
                \cup Permutations(Dates) \cup Permutations(Servers)
============================================================================
