------------------------------ MODULE MCInbound ------------------------------
(***************************************************************************)
(* Model-checking instance of Inbound.                                     *)
(***************************************************************************)
EXTENDS Inbound
=============================================================================
