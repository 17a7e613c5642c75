---------------------------- MODULE CachedLookups -----------------------------
(***************************************************************************)
(* What the cached lookups promise, without their steps: a lookup answers  *)
(* what the cache or the database has at one moment between its call and   *)
(* its answer, and the cache has, at any time, nothing but forms that the  *)
(* document has or had.  ReadThroughCache has the steps of such lookups;   *)
(* MessageEnrichment makes requests of them.                               *)
(***************************************************************************)
EXTENDS Integers

CONSTANTS Key, Reader, undefined

VARIABLES
    db,         \* version of each document, 0 if there is none
    entry,      \* cached version of each document, 0 if there is none
    lookup      \* what each lookup has been asked and told

vars == <<db, entry, lookup>>

\* Version 0, told: there is no such document.
Lookup(k, is, v) == [key |-> k, is |-> is, version |-> v]

Failed == Lookup(undefined, "failed", 0)

Init ==
    /\ db     \in [Key -> Nat]
    /\ entry  = [k \in Key |-> 0]
    /\ lookup = [r \in Reader |-> Lookup(undefined, "idle", 0)]

Publish(k) ==
    /\ db' = [db EXCEPT ![k] = @ + 1]
    /\ UNCHANGED <<entry, lookup>>

(* What happens to one lookup.                                             *)

Ask(r) ==
    /\ lookup[r].is # "asked"
    /\ \E k \in Key : lookup'[r] = Lookup(k, "asked", 0)

Tell(r) ==
    /\ lookup[r].is = "asked"
    /\ LET k == lookup[r].key IN
       \E v \in {entry[k], db[k]} :
          /\ v = 0 => db[k] = 0
          /\ lookup'[r] = Lookup(k, "told", v)

\* The read fails, or there is nothing to ask for.
Fail(r) == lookup'[r] = Failed

Stay(r) == lookup'[r] = lookup[r]

\* Lookups are asked and told, and entries are filled, late or in time, expire and are
\* evicted.
Serve ==
    /\ UNCHANGED db
    /\ DOMAIN lookup' = Reader
    /\ \A r \in Reader : Stay(r) \/ Ask(r) \/ Tell(r) \/ Fail(r)
    /\ DOMAIN entry' = Key
    /\ \A k \in Key : entry'[k] \in {entry[k]} \cup 0..db[k]

Next == Serve \/ \E k \in Key : Publish(k)

Spec == Init /\ [][Next]_vars
=============================================================================
