----------------------------- MODULE MCDispatch -----------------------------
(***************************************************************************)
(* Model-checking instance of Dispatch.  Partners are told apart only by   *)
(* their place in the chain and workers not at all.                        *)
(***************************************************************************)
EXTENDS Dispatch, TLC

PartnerSymmetry == Permutations(Partners)
Symmetry == PartnerSymmetry \cup Permutations(Workers)

\* The part of the state that decides what happens next; received and declined
\* only record what has happened, and the runs that look at them use no view.
WithoutRecords == <<req, attempts, outbox, tx, elapsed, byHand, faults>>
=============================================================================
