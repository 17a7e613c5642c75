----------------------------- MODULE MCEagerPage ------------------------------
(***************************************************************************)
(* An instance of EagerPage for TLC.                                       *)
(***************************************************************************)
EXTENDS EagerPage
=============================================================================
