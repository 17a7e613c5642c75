------------------------- MODULE MCReadThroughCache --------------------------
(***************************************************************************)
(* An instance of ReadThroughCache for TLC.                                *)
(***************************************************************************)
EXTENDS ReadThroughCache

CONSTANTS s1, c1

\* The service has no configuration of its own: some lookups ask for an unknown one.
Unmapped == [s \in ServiceId |-> undefined]
=============================================================================
