------------------------------- MODULE Listing --------------------------------
(***************************************************************************)
(* What paging through the messages of a citizen promises, without the     *)
(* queries, chunks, statuses, sources, errors and retries of the pages: a  *)
(* session lists pages of one step each, from the newest messages down.    *)
(* A page reaches down to its last message and has every message above it  *)
(* that was there all along; only the last page may have fewer messages    *)
(* than were asked for, and it has all that are left.                      *)
(***************************************************************************)
EXTENDS Integers, FiniteSets

CONSTANTS
    Id, Top, pageSize,
    ofTheBox        \* whether every page looks at the box of the messages

VARIABLES
    listed,         \* what the session has listed
    cursor,         \* the last of it, above every id at first
    ended,
    stable,         \* messages that have been there since the session began
    listable        \* messages that have been there at some time

vars == <<listed, cursor, ended, stable, listable>>

Init ==
    /\ listed = {}
    /\ cursor = Top
    /\ ended = FALSE
    /\ stable \in SUBSET Id /\ listable \in SUBSET Id

\* Messages arrive and leave.
Change ==
    /\ stable' \in SUBSET stable
    /\ listable' \in SUBSET Id /\ listable \subseteq listable'
    /\ UNCHANGED <<listed, cursor, ended>>

\* Lists the messages p, from the cursor down to `last`.
Page(p, last) ==
    /\ ~ended
    /\ \A i \in p : last <= i /\ i < cursor
    /\ \A i \in stable : last <= i /\ i < cursor => i \in p
    /\ ofTheBox => p \subseteq listable
    /\ listed' = listed \cup p
    /\ UNCHANGED <<stable, listable>>

NextPage ==
    \E p \in SUBSET Id : \E last \in p :
        /\ Cardinality(p) = pageSize
        /\ Page(p, last)
        /\ cursor' = last
        /\ UNCHANGED ended

LastPage ==
    \E p \in SUBSET Id :
        /\ Cardinality(p) <= pageSize
        /\ Page(p, 0)
        /\ ended' = TRUE
        /\ UNCHANGED cursor

\* Of pages without a size the first is the last, and has nothing.
NoPage ==
    /\ pageSize = 0 /\ ~ended
    /\ ended' = TRUE
    /\ UNCHANGED <<listed, cursor, stable, listable>>

Next == Change \/ NextPage \/ LastPage \/ NoPage

Spec == Init /\ [][Next]_vars
=============================================================================
