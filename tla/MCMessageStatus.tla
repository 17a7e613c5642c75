--------------------------- MODULE MCMessageStatus ---------------------------
(***************************************************************************)
(* Instances of MessageStatus for TLC: which user owns the message, and    *)
(* the symmetry of the requests.                                           *)
(***************************************************************************)
EXTENDS MessageStatus, TLC

CONSTANTS m1, alice, bob

OneMessage == {m1}
OwnerOne   == [m \in OneMessage |-> alice]

Reading(b)   == [change_type |-> "reading", is_read |-> b]
Archiving(b) == [change_type |-> "archiving", is_archived |-> b]
Bulk(b, c)   == [change_type |-> "bulk", is_read |-> b, is_archived |-> c]

AllChanges == Change
FewChanges == {Reading(TRUE), Archiving(TRUE)}

RequestSymmetry == Permutations(Request)
=============================================================================
