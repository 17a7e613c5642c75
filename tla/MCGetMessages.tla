---------------------------- MODULE MCGetMessages -----------------------------
(***************************************************************************)
(* Instances of GetMessages for TLC.                                       *)
(***************************************************************************)
EXTENDS GetMessages
=============================================================================
