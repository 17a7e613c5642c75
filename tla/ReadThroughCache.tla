-------------------------- MODULE ReadThroughCache ---------------------------
(***************************************************************************)
(* getOrCacheService and RCConfigurationUtility: lookups that answer from  *)
(* Redis when they can, and otherwise read Cosmos and put what they read   *)
(* in Redis for Ttl seconds.  Nothing invalidates an entry: a service or   *)
(* configuration that changes stays visible in its old form until the      *)
(* entry expires, and a slow lookup may put an old form back.              *)
(*                                                                         *)
(* Values are version numbers (0: no document).  Time is what the clock    *)
(* ticks: Redis counts the time each entry has left, and the history       *)
(* fields count for how long a version has been superseded.                *)
(***************************************************************************)
EXTENDS Integers

CONSTANTS
    ServiceId,          \* keys `<serviceId>` of Redis
    ConfigurationId,    \* keys `RC-CONFIGURATION-<configurationId>` of Redis
    Reader,             \* lookups in progress, on any instance of the app
    ServiceTtl,         \* SERVICE_CACHE_TTL_DURATION
    ConfigurationTtl,   \* RC_CONFIGURATION_CACHE_TTL
    serviceToRCConfigurationMap,
    undefined,
    MaxFill,            \* longest time from the answer of Cosmos to the SET
    MaxVersion          \* bound: versions the owners of the documents publish

Key == ServiceId \cup ConfigurationId

ASSUME KeyAssumption == ServiceId \cap ConfigurationId = {} /\ undefined \notin Key
ASSUME MapAssumption ==
    serviceToRCConfigurationMap \in [ServiceId -> ConfigurationId \cup {undefined}]
ASSUME TimeAssumption ==
    ServiceTtl \in Nat /\ ConfigurationTtl \in Nat /\ MaxFill \in Nat

Ttl(k) == IF k \in ServiceId THEN ServiceTtl ELSE ConfigurationTtl

VARIABLES
    db,         \* version of each document in Cosmos, 0 if there is none
    redis,      \* the entry of each key
    pc,         \* the await each lookup is suspended on
    op,         \* the lookup's operation
    key,        \* its key
    held,       \* the version it has read
    spent,      \* time since Cosmos answered it, up to the end of the SET
    answer,     \* how it ended
    late,       \* (history) time for which `held` has been superseded
    started     \* (history) db[key] when it started, until a version is read

vars == <<db, redis, pc, op, key, held, spent, answer, late, started>>

\* An entry: `is` tells a value that decodes from one that does not.
Entry == [is: {"absent", "unreadable", "value"}, version: Nat, left: Nat, stale: Nat]
absent == [is |-> "absent", version |-> 0, left |-> 0, stale |-> 0]
unreadable == [absent EXCEPT !.is = "unreadable"]

Operation == {"getOrCacheService", "getOrCacheRCConfigurationWithFallback",
              "getOrCacheMaybeRCConfigurationById"}

Init ==
    /\ db      = [k \in Key |-> 0]
    /\ redis   = [k \in Key |-> absent]
    /\ pc      = [r \in Reader |-> "idle"]
    /\ op      = [r \in Reader |-> "getOrCacheService"]
    /\ key     = [r \in Reader |-> undefined]
    /\ held    = [r \in Reader |-> 0]
    /\ spent   = [r \in Reader |-> 0]
    /\ answer  = [r \in Reader |-> "none"]
    /\ late    = [r \in Reader |-> 0]
    /\ started = [r \in Reader |-> 0]

-----------------------------------------------------------------------------
(* The world around the lookups (external).                                *)

\* The owner of a service or configuration publishes a version of it.
Publish(k) ==
    /\ db[k] < MaxVersion
    /\ db' = [db EXCEPT ![k] = @ + 1]
    /\ UNCHANGED <<redis, pc, op, key, held, spent, answer, late, started>>

\* Redis drops an entry for want of memory, or restarts.
Evict(k) ==
    /\ redis[k] # absent
    /\ redis' = [redis EXCEPT ![k] = absent]
    /\ UNCHANGED <<db, pc, op, key, held, spent, answer, late, started>>

\* Another release of the app leaves a value this one cannot parse or decode.
Garble(k) ==
    /\ redis[k].is = "absent"
    /\ redis' = [redis EXCEPT ![k] = unreadable]
    /\ UNCHANGED <<db, pc, op, key, held, spent, answer, late, started>>

\* n, the time for which version v has been superseded, a second later.  Counting
\* stops past the bounds of BoundedStaleness (the bound of this history).
Later(n, k, v) == IF v # db[k] /\ n <= Ttl(k) + MaxFill THEN n + 1 ELSE n

\* Mutation: Redis does not expire the entry.
AgedForever(k) ==
    LET e == redis[k] IN
    IF e.is # "value" THEN e
    ELSE [e EXCEPT !.left = e.left - 1, !.stale = Later(e.stale, k, e.version)]

Aged(k) ==
    LET e == redis[k] IN
    IF e.is # "value" THEN e
    ELSE IF e.left <= 1 THEN absent
    ELSE [e EXCEPT !.left = e.left - 1, !.stale = Later(e.stale, k, e.version)]

\* A second passes; Redis expires the entries whose time is up.
Tick ==
    /\ \A r \in Reader : pc[r] = "set" => spent[r] < MaxFill
    /\ redis' = [k \in Key |-> Aged(k)]
    /\ spent' = [r \in Reader |-> IF pc[r] = "set" THEN spent[r] + 1 ELSE spent[r]]
    /\ late'  = [r \in Reader |->
                    IF pc[r] = "set" THEN Later(late[r], key[r], held[r])
                                     ELSE late[r]]
    /\ UNCHANGED <<db, pc, op, key, held, answer, started>>

-----------------------------------------------------------------------------
(* The lookups.                                                            *)

\* A caller asks for the document of key k, by operation o.
Ask(r, o, k) ==
    /\ pc[r] \in {"idle", "answered"}
    /\ op' = [op EXCEPT ![r] = o]
    /\ key' = [key EXCEPT ![r] = k]
    /\ pc' = [pc EXCEPT ![r] = "get"]
    /\ held' = [held EXCEPT ![r] = 0]
    /\ spent' = [spent EXCEPT ![r] = 0]
    /\ late' = [late EXCEPT ![r] = 0]
    /\ answer' = [answer EXCEPT ![r] = "none"]
    /\ started' = [started EXCEPT ![r] = db[k]]
    /\ UNCHANGED <<db, redis>>

getOrCacheService(r, s) == Ask(r, "getOrCacheService", s)

getOrCacheMaybeRCConfigurationById(r, c) ==
    Ask(r, "getOrCacheMaybeRCConfigurationById", c)

\* configurationId ?? serviceToRCConfigurationMap.get(serviceId)
configId(s, c) == IF c = undefined THEN serviceToRCConfigurationMap[s] ELSE c

getOrCacheRCConfigurationWithFallback(r, s, c) ==
    \/ /\ configId(s, c) # undefined
       /\ Ask(r, "getOrCacheRCConfigurationWithFallback", configId(s, c))
    \/ /\ configId(s, c) = undefined       \* "ConfigurationId is not valid"
       /\ pc[r] \in {"idle", "answered"}
       /\ op' = [op EXCEPT ![r] = "getOrCacheRCConfigurationWithFallback"]
       /\ key' = [key EXCEPT ![r] = undefined]
       /\ pc' = [pc EXCEPT ![r] = "answered"]
       /\ held' = [held EXCEPT ![r] = 0]
       /\ spent' = [spent EXCEPT ![r] = 0]
       /\ late' = [late EXCEPT ![r] = 0]
       /\ answer' = [answer EXCEPT ![r] = "invalid"]
       /\ started' = [started EXCEPT ![r] = 0]
       /\ UNCHANGED <<db, redis>>

Answer(r, a) ==
    /\ pc' = [pc EXCEPT ![r] = "answered"]
    /\ answer' = [answer EXCEPT ![r] = a]

\* Mutation: an entry that does not parse or decode is answered.
HitAnything(r) ==
    /\ pc[r] = "get"
    /\ redis[key[r]].is # "absent"
    /\ held' = [held EXCEPT ![r] = redis[key[r]].version]
    /\ late' = [late EXCEPT ![r] = redis[key[r]].stale]
    /\ Answer(r, "some")
    /\ UNCHANGED <<db, redis, op, key, spent, started>>

\* Mutation: a hit renews the time the entry has left.
HitRenews(r) ==
    /\ pc[r] = "get"
    /\ redis[key[r]].is = "value"
    /\ redis' = [redis EXCEPT ![key[r]].left = Ttl(key[r])]
    /\ held' = [held EXCEPT ![r] = redis[key[r]].version]
    /\ late' = [late EXCEPT ![r] = redis[key[r]].stale]
    /\ Answer(r, "some")
    /\ UNCHANGED <<db, op, key, spent, started>>

\* Redis has an entry that parses and decodes.
Hit(r) ==
    /\ pc[r] = "get"
    /\ redis[key[r]].is = "value"
    /\ held' = [held EXCEPT ![r] = redis[key[r]].version]
    /\ late' = [late EXCEPT ![r] = redis[key[r]].stale]
    /\ Answer(r, "some")
    /\ started' = [started EXCEPT ![r] = 0]
    /\ UNCHANGED <<db, redis, op, key, spent>>

\* No entry, one that does not parse or decode, or no answer but an error.
Miss(r) ==
    /\ pc[r] = "get"
    /\ pc' = [pc EXCEPT ![r] = "find"]
    /\ UNCHANGED <<db, redis, op, key, held, spent, answer, late, started>>

\* Mutation: a query that fails is taken for one that finds nothing.
FailsAsNone(r) ==
    /\ pc[r] = "find"
    /\ Answer(r, "empty")
    /\ UNCHANGED <<db, redis, op, key, held, spent, late, started>>

\* Cosmos fails the query.
FindFails(r) ==
    /\ pc[r] = "find"
    /\ Answer(r, "left")
    /\ UNCHANGED <<db, redis, op, key, held, spent, late, started>>

\* Cosmos has no such document: an error (EMPTY_SERVICE, EMPTY_RC_CONFIGURATION)
\* or, for getOrCacheMaybeRCConfigurationById, no configuration.  Nothing is cached.
FindNone(r) ==
    /\ pc[r] = "find"
    /\ db[key[r]] = 0
    /\ Answer(r, IF op[r] = "getOrCacheMaybeRCConfigurationById"
                    THEN "nothing" ELSE "empty")
    /\ UNCHANGED <<db, redis, op, key, held, spent, late, started>>

Found(r) ==
    /\ pc[r] = "find"
    /\ db[key[r]] > 0
    /\ held' = [held EXCEPT ![r] = db[key[r]]]
    /\ late' = [late EXCEPT ![r] = 0]
    /\ spent' = [spent EXCEPT ![r] = 0]
    /\ pc' = [pc EXCEPT ![r] = "set"]
    /\ started' = [started EXCEPT ![r] = 0]
    /\ UNCHANGED <<db, redis, op, key, answer>>

\* SET key value EX ttl, which Redis refuses when the ttl is 0.
setWithExpirationTask(r) ==
    /\ pc[r] = "set"
    /\ Ttl(key[r]) > 0
    /\ redis' = [redis EXCEPT ![key[r]] =
                    [is |-> "value", version |-> held[r],
                     left |-> Ttl(key[r]), stale |-> late[r]]]
    /\ Answer(r, "some")
    /\ spent' = [spent EXCEPT ![r] = 0]
    /\ UNCHANGED <<db, op, key, held, late, started>>

\* Mutation: a SET that fails is tried again, for ever.
SetRetried(r) == pc[r] = "set" /\ UNCHANGED vars

\* The SET fails; what Cosmos answered is answered all the same.
SetFails(r) ==
    /\ pc[r] = "set"
    /\ Answer(r, "some")
    /\ spent' = [spent EXCEPT ![r] = 0]
    /\ UNCHANGED <<db, redis, op, key, held, late, started>>

\* What GetRCConfiguration responds when its lookup is answered a.
GetRCConfigurationHandler(a) ==
    CASE a = "some"    -> "IResponseSuccessJson"
      [] a = "nothing" -> "IResponseErrorNotFound"
      [] OTHER         -> "IResponseErrorInternal"

Step(r) ==
    \/ Hit(r) \/ Miss(r) \/ FindFails(r) \/ FindNone(r) \/ Found(r)
    \/ setWithExpirationTask(r) \/ SetFails(r)

Next ==
    \/ \E k \in Key : Publish(k) \/ Evict(k) \/ Garble(k)
    \/ Tick
    \/ \E r \in Reader :
          \/ \E s \in ServiceId :
                \/ getOrCacheService(r, s)
                \/ \E c \in ConfigurationId \cup {undefined} :
                      getOrCacheRCConfigurationWithFallback(r, s, c)
          \/ \E c \in ConfigurationId : getOrCacheMaybeRCConfigurationById(r, c)
          \/ Step(r)

Spec == Init /\ [][Next]_vars

\* Time passes, and Redis and Cosmos answer every call, one way or the other.
FairSpec == Spec /\ WF_vars(Tick) /\ \A r \in Reader : WF_vars(Step(r))

-----------------------------------------------------------------------------
(* Correctness.                                                            *)

\* The type of every variable.
TypeOK ==
    /\ db      \in [Key -> Nat]
    /\ redis   \in [Key -> Entry]
    /\ pc      \in [Reader -> {"idle", "get", "find", "set", "answered"}]
    /\ op      \in [Reader -> Operation]
    /\ key     \in [Reader -> Key \cup {undefined}]
    /\ held    \in [Reader -> Nat]
    /\ spent   \in [Reader -> Nat]
    /\ answer  \in [Reader -> {"none", "some", "left", "empty", "nothing", "invalid"}]
    /\ late    \in [Reader -> Nat]
    /\ started \in [Reader -> Nat]

\* What a lookup answers was the current version less than Ttl and one slow fill
\* ago (or one slow fill, when nothing is cached): no sequence of fills, each from
\* the Cosmos answer of its own lookup, makes an old version live longer, nor does a
\* slow fill that overwrites a fresher entry.
BoundedStaleness ==
    \A r \in Reader : answer[r] = "some" =>
        late[r] <= MaxFill \/ late[r] < Ttl(key[r]) + MaxFill

\* Only published versions are cached and answered.
PublishedOnly ==
    /\ \A k \in Key : redis[k].is = "value" => redis[k].version \in 1..db[k]
    /\ \A r \in Reader : answer[r] = "some" => held[r] \in 1..db[key[r]]

\* A document that was there when the lookup started is never said not to exist, by the
\* lookup or by GetRCConfiguration, whatever is cached or fails: absence is not cached.
NoFalseAbsence ==
    \A r \in Reader :
        answer[r] = "empty" \/ GetRCConfigurationHandler(answer[r]) = "IResponseErrorNotFound" =>
            started[r] = 0

\* Once a document changes no more, its entry is, for good, the last version or none
\* (or unreadable, which is a miss).
Converges ==
    \A k \in Key : \A v \in 0..MaxVersion :
        <>[](db[k] = v) => <>[](redis[k].is = "value" => redis[k].version = v)

\* Whatever fails, expires or is garbled on the way, every lookup is answered, as
\* long as Redis and Cosmos call back.
LookupsEnd == \A r \in Reader : pc[r] = "get" ~> pc[r] = "answered"

\* What lookup r has been asked and told: it is told once Cosmos or Redis has
\* answered, and the SET that may follow is only one more refill.
LookupOf(r) ==
    [key     |-> IF answer[r] = "left" THEN undefined ELSE key[r],
     is      |-> IF pc[r] = "idle" THEN "idle"
                 ELSE IF pc[r] \in {"get", "find"} THEN "asked"
                 ELSE IF answer[r] \in {"left", "invalid"} THEN "failed" ELSE "told",
     version |-> IF pc[r] = "set" \/ answer[r] = "some" THEN held[r] ELSE 0]

\* An entry that cannot be read is as good as none.
EntryOf(k) == IF redis[k].is = "value" THEN redis[k].version ELSE 0

Abstract == INSTANCE CachedLookups
                WITH entry  <- [k \in Key |-> EntryOf(k)],
                     lookup <- [r \in Reader |-> LookupOf(r)]

\* The lookups, with their awaits, late SETs, misses and expiries, are lookups of one
\* step: each is told what Redis or Cosmos has at one moment of its life.
ImplementsCachedLookups == Abstract!Spec
=============================================================================
