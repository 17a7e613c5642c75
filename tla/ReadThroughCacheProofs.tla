----------------------- MODULE ReadThroughCacheProofs ------------------------
(***************************************************************************)
(* Proofs about ReadThroughCache for any documents, lookups, TTLs and fill *)
(* times.  The invariant relates the time an entry has left to the time    *)
(* for which its version has been superseded: they share one budget.       *)
(***************************************************************************)
EXTENDS ReadThroughCache, TLAPS

\* An entry that Redis holds for key k.
GoodEntry(k) ==
    redis[k].is = "value" =>
        /\ redis[k].version \in 1..db[k]
        /\ redis[k].left >= 1
        /\ redis[k].stale + redis[k].left <= Ttl(k) + MaxFill

\* What lookup r has seen.
GoodLookup(r) ==
    /\ pc[r] \in {"get", "find", "set"} =>
          key[r] \in Key /\ started[r] <= db[key[r]] /\ answer[r] = "none"
    /\ pc[r] = "idle" => answer[r] = "none"
    /\ pc[r] = "set" =>
          /\ held[r] \in 1..db[key[r]]
          /\ late[r] <= spent[r] /\ spent[r] <= MaxFill
    /\ answer[r] = "some" =>
          /\ key[r] \in Key
          /\ held[r] \in 1..db[key[r]]
          /\ late[r] <= MaxFill \/ late[r] < Ttl(key[r]) + MaxFill
    /\ answer[r] \in {"empty", "nothing"} => started[r] = 0

IInv ==
    /\ TypeOK
    /\ \A k \in Key : GoodEntry(k)
    /\ \A r \in Reader : GoodLookup(r)

-----------------------------------------------------------------------------
\* The TTL of a key is a number of seconds.
LEMMA TtlType == \A k : Ttl(k) \in Nat
BY TimeAssumption DEF TimeAssumption, Ttl

\* A second makes no more than one of difference to a history counter.
LEMMA LaterType ==
    ASSUME NEW n \in Nat, NEW k, NEW v
    PROVE  /\ Later(n, k, v) \in Nat
           /\ Later(n, k, v) <= n + 1
           /\ n <= Later(n, k, v)
BY DEF Later

\* A key that is asked for is a key.
LEMMA AskedKey ==
    ASSUME NEW s \in ServiceId, NEW c \in ConfigurationId \cup {undefined},
           configId(s, c) # undefined
    PROVE  configId(s, c) \in Key
BY MapAssumption DEF MapAssumption, configId, Key

\* An entry a second later, if it is there.
LEMMA AgedEntry ==
    ASSUME IInv, NEW k \in Key
    PROVE  /\ Aged(k) \in Entry
           /\ Aged(k).is = "value" =>
                 /\ Aged(k).version \in 1..db[k]
                 /\ Aged(k).left >= 1
                 /\ Aged(k).stale + Aged(k).left <= Ttl(k) + MaxFill
<1> DEFINE e == redis[k]
           n == Later(e.stale, k, e.version)
<1>1. e \in Entry /\ GoodEntry(k)
  BY DEF IInv, TypeOK
<1>2. absent \in Entry /\ absent.is # "value"
  BY DEF absent, Entry
<1>3. CASE e.is # "value" \/ e.left <= 1
  BY <1>1, <1>2, <1>3 DEF Aged
<1>4. CASE e.is = "value" /\ ~(e.left <= 1)
  <2>1. e.left \in Nat /\ e.stale \in Nat /\ e.version \in Nat
    BY <1>1 DEF Entry
  <2>2. n \in Nat /\ n <= e.stale + 1
    BY <2>1, LaterType
  <2>3. Aged(k) = [e EXCEPT !.left = e.left - 1, !.stale = n]
    BY <1>4 DEF Aged
  <2> HIDE DEF n
  <2>4. e.left - 1 \in Nat /\ e.left - 1 >= 1
    BY <1>4, <2>1
  <2>5. /\ Aged(k) \in Entry /\ Aged(k).version = e.version
        /\ Aged(k).left = e.left - 1 /\ Aged(k).stale = n
    BY <1>1, <2>2, <2>3, <2>4 DEF Entry
  <2>6. n + (e.left - 1) <= Ttl(k) + MaxFill
    <3>1. e.stale + e.left <= Ttl(k) + MaxFill
      BY <1>1, <1>4 DEF GoodEntry
    <3>2. Ttl(k) + MaxFill \in Nat
      BY TtlType, TimeAssumption DEF TimeAssumption
    <3> QED BY <2>1, <2>2, <3>1, <3>2
  <2> QED BY <1>1, <1>4, <2>4, <2>5, <2>6 DEF GoodEntry
<1> QED BY <1>3, <1>4

LEMMA InitInv == Init => IInv
BY DEF Init, IInv, TypeOK, GoodEntry, GoodLookup, Entry, absent, Operation

\* The row of lookup q is as it was.
SameRow(q) ==
    /\ pc'[q] = pc[q] /\ op'[q] = op[q] /\ key'[q] = key[q] /\ held'[q] = held[q]
    /\ spent'[q] = spent[q] /\ answer'[q] = answer[q] /\ late'[q] = late[q]
    /\ started'[q] = started[q]

\* A lookup is not disturbed by what others do, for documents only gain versions.
LEMMA LookupStays ==
    ASSUME TypeOK, NEW q \in Reader, GoodLookup(q), SameRow(q),
           db' \in [Key -> Nat], \A k \in Key : db[k] <= db'[k]
    PROVE  GoodLookup(q)'
BY DEF TypeOK, GoodLookup, SameRow, Ttl

LEMMA PublishInv ==
    ASSUME IInv, NEW k \in Key, Publish(k)
    PROVE  IInv'
<1>1. db' \in [Key -> Nat] /\ \A j \in Key : db[j] <= db'[j]
  BY DEF IInv, TypeOK, Publish
<1>2. TypeOK'
  BY <1>1 DEF IInv, TypeOK, Publish
<1>3. \A j \in Key : GoodEntry(j)'
  BY <1>1 DEF IInv, TypeOK, GoodEntry, Publish, Ttl
<1>4. \A r \in Reader : GoodLookup(r)'
  BY <1>1, LookupStays DEF IInv, Publish, SameRow
<1> QED BY <1>2, <1>3, <1>4 DEF IInv

LEMMA RedisInv ==
    ASSUME IInv, NEW k \in Key, Evict(k) \/ Garble(k)
    PROVE  IInv'
<1>1. PICK e \in {absent, unreadable} : redis' = [redis EXCEPT ![k] = e]
  BY DEF Evict, Garble
<1>2. e \in Entry /\ e.is # "value"
  BY <1>1 DEF absent, unreadable, Entry
<1>3. UNCHANGED <<db, pc, op, key, held, spent, answer, late, started>>
  BY DEF Evict, Garble
<1>4. TypeOK'
  BY <1>1, <1>2, <1>3 DEF IInv, TypeOK
<1>5. \A j \in Key : GoodEntry(j)'
  BY <1>1, <1>2, <1>3 DEF IInv, TypeOK, GoodEntry, Ttl
<1>6. \A r \in Reader : GoodLookup(r)'
  BY <1>3, LookupStays DEF IInv, TypeOK, SameRow
<1> QED BY <1>4, <1>5, <1>6 DEF IInv

LEMMA TickInv ==
    ASSUME IInv, Tick
    PROVE  IInv'
<1>1. /\ redis' = [k \in Key |-> Aged(k)]
      /\ spent' = [r \in Reader |-> IF pc[r] = "set" THEN spent[r] + 1 ELSE spent[r]]
      /\ late'  = [r \in Reader |-> IF pc[r] = "set"
                                       THEN Later(late[r], key[r], held[r])
                                       ELSE late[r]]
      /\ \A r \in Reader : pc[r] = "set" => spent[r] < MaxFill
      /\ UNCHANGED <<db, pc, op, key, held, answer, started>>
  BY DEF Tick
<1>2. TypeOK
  BY DEF IInv
<1>3. \A r \in Reader : /\ spent'[r] \in Nat /\ late'[r] \in Nat
                        /\ pc[r] # "set" => spent'[r] = spent[r] /\ late'[r] = late[r]
                        /\ pc[r] = "set" => /\ spent'[r] = spent[r] + 1
                                            /\ late'[r] <= late[r] + 1
  BY <1>1, <1>2, LaterType DEF TypeOK
<1>4. TypeOK'
  BY <1>1, <1>2, <1>3, AgedEntry DEF TypeOK
<1>5. \A k \in Key : GoodEntry(k)'
  BY <1>1, AgedEntry DEF GoodEntry, Ttl
<1>6. ASSUME NEW r \in Reader
      PROVE  GoodLookup(r)'
  <2>1. GoodLookup(r)
    BY DEF IInv
  <2>2. CASE pc[r] # "set"
    BY <1>1, <1>2, <1>3, <2>1, <2>2 DEF GoodLookup, Ttl
  <2>3. CASE pc[r] = "set"
    <3>1. late'[r] <= spent'[r] /\ spent'[r] <= MaxFill
      BY <1>1, <1>2, <1>3, <2>1, <2>3, TimeAssumption DEF GoodLookup, TypeOK, TimeAssumption
    <3> QED BY <1>1, <2>1, <2>3, <3>1 DEF GoodLookup
  <2> QED BY <2>2, <2>3
<1> QED BY <1>4, <1>5, <1>6 DEF IInv

\* A step of lookup r that leaves Cosmos and Redis alone and keeps r's types.
LEMMA QuietInv ==
    ASSUME IInv, NEW r \in Reader, UNCHANGED <<db, redis>>, TypeOK',
           GoodLookup(r)', \A q \in Reader \ {r} : SameRow(q)
    PROVE  IInv'
<1>1. \A k \in Key : GoodEntry(k)'
  BY DEF IInv, GoodEntry, Ttl
<1>2. \A q \in Reader \ {r} : GoodLookup(q)'
  BY LookupStays DEF IInv, TypeOK
<1> QED BY <1>1, <1>2 DEF IInv

LEMMA AskInv ==
    ASSUME IInv, NEW r \in Reader, NEW o \in Operation, NEW k \in Key, Ask(r, o, k)
    PROVE  IInv'
<1>1. TypeOK'
  BY DEF IInv, TypeOK, Ask
<1>2. GoodLookup(r)'
  BY DEF IInv, TypeOK, Ask, GoodLookup
<1>3. \A q \in Reader \ {r} : SameRow(q)
  BY DEF IInv, TypeOK, Ask, SameRow
<1> QED BY <1>1, <1>2, <1>3, QuietInv DEF Ask

LEMMA FallbackInv ==
    ASSUME IInv, NEW r \in Reader, NEW s \in ServiceId,
           NEW c \in ConfigurationId \cup {undefined},
           getOrCacheRCConfigurationWithFallback(r, s, c)
    PROVE  IInv'
<1>1. CASE configId(s, c) # undefined
  <2>1. Ask(r, "getOrCacheRCConfigurationWithFallback", configId(s, c))
    BY <1>1 DEF getOrCacheRCConfigurationWithFallback
  <2> QED BY <1>1, <2>1, AskInv, AskedKey DEF Operation
<1>2. CASE configId(s, c) = undefined
  <2> USE <1>2 DEF getOrCacheRCConfigurationWithFallback
  <2>1. TypeOK'
    BY DEF IInv, TypeOK, Operation
  <2>2. GoodLookup(r)'
    BY DEF IInv, TypeOK, GoodLookup
  <2>3. UNCHANGED <<db, redis>> /\ \A q \in Reader \ {r} : SameRow(q)
    BY DEF IInv, TypeOK, SameRow
  <2> QED BY <2>1, <2>2, <2>3, QuietInv
<1> QED BY <1>1, <1>2

LEMMA HitInv ==
    ASSUME IInv, NEW r \in Reader, Hit(r)
    PROVE  IInv'
<1> DEFINE e == redis[key[r]]
<1>1. TypeOK /\ GoodLookup(r) /\ key[r] \in Key /\ GoodEntry(key[r])
  BY DEF IInv, Hit, GoodLookup
<1>2. /\ e \in Entry /\ e.version \in 1..db[key[r]] /\ e.left >= 1
      /\ e.stale + e.left <= Ttl(key[r]) + MaxFill
  BY <1>1 DEF TypeOK, GoodEntry, Hit
<1>3. e.version \in Nat /\ e.left \in Nat /\ e.stale \in Nat
  BY <1>2 DEF Entry
<1>4. e.stale < Ttl(key[r]) + MaxFill
  <2>1. Ttl(key[r]) + MaxFill \in Nat
    BY TtlType, TimeAssumption DEF TimeAssumption
  <2> QED BY <1>2, <1>3, <2>1
<1> HIDE DEF e
<1>5. /\ held' = [held EXCEPT ![r] = e.version]
      /\ late' = [late EXCEPT ![r] = e.stale]
      /\ pc' = [pc EXCEPT ![r] = "answered"]
      /\ answer' = [answer EXCEPT ![r] = "some"]
      /\ started' = [started EXCEPT ![r] = 0]
      /\ UNCHANGED <<db, redis, op, key, spent>>
  BY DEF Hit, Answer, e
<1>6. TypeOK' /\ \A q \in Reader \ {r} : SameRow(q)
  BY <1>1, <1>3, <1>5 DEF TypeOK, SameRow
<1>7. GoodLookup(r)'
  BY <1>1, <1>2, <1>4, <1>5 DEF TypeOK, GoodLookup, Ttl
<1> QED BY <1>5, <1>6, <1>7, QuietInv

LEMMA QuietStepInv ==
    ASSUME IInv, NEW r \in Reader,
           Miss(r) \/ FindFails(r) \/ FindNone(r) \/ Found(r) \/ SetFails(r)
    PROVE  IInv'
<1>1. UNCHANGED <<db, redis>>
  BY DEF Miss, FindFails, FindNone, Found, SetFails
<1>2. TypeOK /\ GoodLookup(r) /\ MaxFill \in Nat
  BY TimeAssumption DEF IInv, TimeAssumption
<1>3. key[r] \in Key /\ db[key[r]] \in Nat /\ started[r] \in Nat
  BY <1>2 DEF Miss, FindFails, FindNone, Found, SetFails, GoodLookup, TypeOK
<1>4. TypeOK' /\ \A q \in Reader \ {r} : SameRow(q)
  BY <1>2, <1>3 DEF Miss, FindFails, FindNone, Found, SetFails, Answer, TypeOK, SameRow
<1>5. GoodLookup(r)'
  <2>1. CASE Miss(r) \/ FindFails(r)
    BY <1>2, <2>1 DEF Miss, FindFails, Answer, GoodLookup, TypeOK
  <2>2. CASE FindNone(r)
    BY <1>2, <1>3, <2>2 DEF FindNone, Answer, GoodLookup, TypeOK
  <2>3. CASE Found(r)
    BY <1>2, <1>3, <2>3 DEF Found, GoodLookup, TypeOK
  <2>4. CASE SetFails(r)
    BY <1>2, <1>3, <2>4 DEF SetFails, Answer, GoodLookup, TypeOK
  <2> QED BY <2>1, <2>2, <2>3, <2>4
<1> QED BY <1>1, <1>4, <1>5, QuietInv

LEMMA SetInv ==
    ASSUME IInv, NEW r \in Reader, setWithExpirationTask(r)
    PROVE  IInv'
<1> DEFINE k == key[r]
           e == [is |-> "value", version |-> held[r], left |-> Ttl(k), stale |-> late[r]]
<1>1. TypeOK /\ GoodLookup(r) /\ MaxFill \in Nat /\ pc[r] = "set"
  BY TimeAssumption DEF IInv, TimeAssumption, setWithExpirationTask
<1>2. /\ k \in Key /\ held[r] \in 1..db[k]
      /\ late[r] <= spent[r] /\ spent[r] <= MaxFill
      /\ late[r] \in Nat /\ spent[r] \in Nat /\ held[r] \in Nat
      /\ started[r] <= db[k]
  BY <1>1 DEF GoodLookup, TypeOK
<1>3. Ttl(k) \in Nat /\ Ttl(k) > 0
  BY TtlType DEF setWithExpirationTask
<1>4. /\ e \in Entry /\ e.version \in 1..db[k] /\ e.left >= 1
      /\ e.stale + e.left <= Ttl(k) + MaxFill
  BY <1>1, <1>2, <1>3 DEF Entry
<1>5. /\ redis' = [redis EXCEPT ![k] = e]
      /\ pc' = [pc EXCEPT ![r] = "answered"]
      /\ answer' = [answer EXCEPT ![r] = "some"]
      /\ spent' = [spent EXCEPT ![r] = 0]
      /\ UNCHANGED <<db, op, key, held, late, started>>
  BY DEF setWithExpirationTask, Answer
<1> HIDE DEF e
<1>6. TypeOK' /\ \A q \in Reader \ {r} : SameRow(q)
  BY <1>1, <1>2, <1>4, <1>5 DEF TypeOK, SameRow
<1>7. \A j \in Key : GoodEntry(j)'
  BY <1>1, <1>2, <1>4, <1>5 DEF IInv, TypeOK, GoodEntry, Ttl
<1>8. GoodLookup(r)'
  BY <1>1, <1>2, <1>5 DEF GoodLookup, TypeOK
<1>9. \A q \in Reader \ {r} : GoodLookup(q)'
  BY <1>1, <1>5, <1>6, LookupStays DEF IInv, TypeOK
<1> QED BY <1>6, <1>7, <1>8, <1>9 DEF IInv

LEMMA StutterInv == IInv /\ UNCHANGED vars => IInv'
BY DEF IInv, TypeOK, GoodEntry, GoodLookup, Ttl, vars

-----------------------------------------------------------------------------
(* The theorems.                                                           *)

\* The inductive invariant holds in every reachable state.
THEOREM Inductive == Spec => []IInv
<1>1. IInv /\ [Next]_vars => IInv'
  <2> SUFFICES ASSUME IInv, [Next]_vars  PROVE IInv'
    OBVIOUS
  <2>1. CASE UNCHANGED vars
    BY <2>1, StutterInv
  <2>2. ASSUME NEW k \in Key, Publish(k) \/ Evict(k) \/ Garble(k)
        PROVE  IInv'
    BY <2>2, PublishInv, RedisInv
  <2>3. CASE Tick
    BY <2>3, TickInv
  <2>4. ASSUME NEW r \in Reader, NEW s \in ServiceId, getOrCacheService(r, s)
        PROVE  IInv'
    BY <2>4, AskInv DEF getOrCacheService, Operation, Key
  <2>5. ASSUME NEW r \in Reader, NEW s \in ServiceId,
               NEW c \in ConfigurationId \cup {undefined},
               getOrCacheRCConfigurationWithFallback(r, s, c)
        PROVE  IInv'
    BY <2>5, FallbackInv
  <2>6. ASSUME NEW r \in Reader, NEW c \in ConfigurationId,
               getOrCacheMaybeRCConfigurationById(r, c)
        PROVE  IInv'
    BY <2>6, AskInv DEF getOrCacheMaybeRCConfigurationById, Operation, Key
  <2>7. ASSUME NEW r \in Reader, Step(r)
        PROVE  IInv'
    BY <2>7, HitInv, QuietStepInv, SetInv DEF Step
  <2> QED BY <2>1, <2>2, <2>3, <2>4, <2>5, <2>6, <2>7 DEF Next
<1> QED BY InitInv, <1>1, PTL DEF Spec

\* Every variable has its type.
THEOREM TypeCorrect == Spec => []TypeOK
<1>1. IInv => TypeOK
  BY DEF IInv
<1> QED BY <1>1, Inductive, PTL

\* No answer is staler than the TTL and one fill: nothing but the expiration of the
\* entries invalidates them, and it is enough.
THEOREM Bounded == Spec => []BoundedStaleness
<1>1. IInv => BoundedStaleness
  BY DEF IInv, GoodLookup, BoundedStaleness
<1> QED BY <1>1, Inductive, PTL

\* Only what was published is cached or answered: an unreadable entry is not.
THEOREM OnlyPublished == Spec => []PublishedOnly
<1>1. IInv => PublishedOnly
  BY DEF IInv, GoodLookup, GoodEntry, PublishedOnly
<1> QED BY <1>1, Inductive, PTL

\* A document that exists when a lookup starts is not reported missing.
THEOREM NothingMissing == Spec => []NoFalseAbsence
<1>1. IInv => NoFalseAbsence
  BY DEF IInv, GoodLookup, NoFalseAbsence, GetRCConfigurationHandler
<1> QED BY <1>1, Inductive, PTL

-----------------------------------------------------------------------------
(* The lookups implement CachedLookups.                                    *)

Lookups == [r \in Reader |-> LookupOf(r)]
Entries == [k \in Key |-> EntryOf(k)]

\* What a lookup of key k has been told: version v.
Told(k, v) == [key |-> k, is |-> "told", version |-> v]

\* A step of lookup r changes what it has been asked and told, at most.
LEMMA OneLookup ==
    ASSUME NEW r \in Reader, NEW q \in Reader \ {r}, SameRow(q)
    PROVE  Abstract!Stay(q)
BY DEF LookupOf, SameRow, Abstract!Stay, Lookups

LEMMA SameLookups ==
    ASSUME UNCHANGED <<pc, key, held, answer>>
    PROVE  Lookups' = Lookups
BY DEF Lookups, LookupOf

LEMMA SameEntries == redis' = redis => Entries' = Entries
BY DEF Entries, EntryOf

\* A step of lookup r, in which Redis stays as it is.
LEMMA LookupStep ==
    ASSUME NEW r \in Reader, \A q \in Reader \ {r} : SameRow(q),
           UNCHANGED <<db, redis>>,
           Abstract!Stay(r) \/ Abstract!Ask(r) \/ Abstract!Tell(r) \/ Abstract!Fail(r)
    PROVE  Abstract!Serve
<1>1. \A q \in Reader \ {r} : Abstract!Stay(q)
  BY OneLookup
<1>2. DOMAIN Lookups' = Reader /\ DOMAIN Entries' = Key
  BY DEF Lookups, Entries
<1>3. \A k \in Key : Entries'[k] = Entries[k]
  BY SameEntries
<1> QED BY <1>1, <1>2, <1>3 DEF Abstract!Serve, Lookups, Entries

\* A change of Redis alone, to entries of versions there are, is a refill.
LEMMA RefillStep ==
    ASSUME db' = db, UNCHANGED <<pc, key, held, answer>> \/ Lookups' = Lookups,
           \A k \in Key : EntryOf(k)' = EntryOf(k) \/ EntryOf(k)' \in 0..db[k]
    PROVE  Abstract!Serve
<1>1. \A r \in Reader : Abstract!Stay(r)
  BY SameLookups DEF Abstract!Stay, Lookups
<1>2. DOMAIN Lookups' = Reader /\ DOMAIN Entries' = Key
  BY DEF Lookups, Entries
<1>3. \A k \in Key : Entries'[k] = Entries[k] \/ Entries'[k] \in 0..db[k]
  BY DEF Entries
<1> QED BY <1>1, <1>2, <1>3 DEF Abstract!Serve, Entries, Lookups

LEMMA WorldImplements ==
    ASSUME IInv, Tick \/ \E k \in Key : Publish(k) \/ Evict(k) \/ Garble(k)
    PROVE  Abstract!Next
<1>1. ASSUME NEW k \in Key, Publish(k)
      PROVE  Abstract!Publish(k)
  <2>1. Lookups' = Lookups /\ Entries' = Entries
    BY <1>1, SameLookups, SameEntries DEF Publish
  <2> QED BY <1>1, <2>1 DEF Publish, Abstract!Publish, Lookups, Entries
<1>2. ASSUME NEW k \in Key, Evict(k) \/ Garble(k)
      PROVE  Abstract!Serve
  <2>1. \A j \in Key : db[j] \in Nat /\ redis[j] \in Entry
    BY DEF IInv, TypeOK
  <2>2. \A j \in Key : EntryOf(j)' = EntryOf(j) \/ EntryOf(j)' = 0
    BY <1>2, <2>1 DEF IInv, TypeOK, Evict, Garble, EntryOf, absent, unreadable
  <2> QED BY <1>2, <2>1, <2>2, RefillStep DEF Evict, Garble
<1>3. ASSUME Tick
      PROVE  Abstract!Serve
  <2>1. \A k \in Key : db[k] \in Nat
    BY DEF IInv, TypeOK
  <2>2. ASSUME NEW k \in Key
        PROVE  EntryOf(k)' \in 0..db[k]
    <3>1. redis'[k] = Aged(k)
      BY <1>3 DEF Tick
    <3> QED BY <2>1, <3>1, AgedEntry DEF EntryOf
  <2> QED BY <1>3, <2>2, RefillStep DEF Tick
<1> QED BY <1>1, <1>2, <1>3 DEF Abstract!Next

LEMMA CallImplements ==
    ASSUME IInv, NEW r \in Reader,
           \/ \E o \in Operation, k \in Key : Ask(r, o, k)
           \/ \E s \in ServiceId, c \in ConfigurationId \cup {undefined} :
                 getOrCacheRCConfigurationWithFallback(r, s, c)
    PROVE  Abstract!Serve
<1>1. ASSUME NEW o \in Operation, NEW k \in Key, Ask(r, o, k)
      PROVE  Abstract!Serve
  <2>1. UNCHANGED <<db, redis>> /\ \A q \in Reader \ {r} : SameRow(q)
    BY <1>1 DEF Ask, IInv, TypeOK, SameRow
  <2>2. Lookups'[r] = [key |-> k, is |-> "asked", version |-> 0]
    BY <1>1 DEF IInv, TypeOK, Ask, LookupOf, Lookups
  <2>3. Lookups[r].is # "asked"
    BY <1>1 DEF Ask, Lookups, LookupOf
  <2>4. Abstract!Ask(r)
    BY <2>2, <2>3 DEF Abstract!Ask, Abstract!Lookup, Lookups
  <2> QED BY <2>1, <2>4, LookupStep
<1>2. ASSUME NEW s \in ServiceId, NEW c \in ConfigurationId \cup {undefined},
             getOrCacheRCConfigurationWithFallback(r, s, c), configId(s, c) = undefined
      PROVE  Abstract!Serve
  <2>1. /\ UNCHANGED <<db, redis>>
        /\ \A q \in Reader \ {r} : SameRow(q)
        /\ pc'[r] = "answered" /\ answer'[r] = "invalid" /\ key'[r] = undefined
    BY <1>2 DEF getOrCacheRCConfigurationWithFallback, IInv, TypeOK, SameRow
  <2>2. Abstract!Fail(r)
    BY <2>1 DEF LookupOf, Lookups, Abstract!Fail, Abstract!Failed, Abstract!Lookup
  <2> QED BY <2>1, <2>2, LookupStep
<1> QED BY <1>1, <1>2, AskedKey DEF getOrCacheRCConfigurationWithFallback, Operation

LEMMA LookupImplements ==
    ASSUME IInv, NEW r \in Reader, Step(r)
    PROVE  Abstract!Serve
<1>0. TypeOK /\ GoodLookup(r) /\ \A k \in Key : GoodEntry(k)
  BY DEF IInv
<1>1. ASSUME NEW v \in {Entries[key[r]], db[key[r]]}, v = 0 => db[key[r]] = 0,
             pc[r] \in {"get", "find"}, LookupOf(r)' = Told(key[r], v)
      PROVE  Abstract!Tell(r)
  <2>1. Lookups[r].is = "asked" /\ Lookups[r].key = key[r]
    BY <1>0, <1>1 DEF Lookups, LookupOf, GoodLookup
  <2>2. Lookups'[r] = Told(key[r], v)
    BY <1>1 DEF Lookups
  <2> QED BY <1>1, <2>1, <2>2 DEF Abstract!Tell, Abstract!Lookup, Told, Lookups, Entries
<1>2. CASE Hit(r)
  <2>1. /\ key[r] \in Key /\ redis[key[r]].version \in 1..db[key[r]]
        /\ db[key[r]] \in Nat
    BY <1>0, <1>2 DEF Hit, GoodLookup, GoodEntry, TypeOK
  <2>2. Entries[key[r]] = redis[key[r]].version /\ Entries[key[r]] # 0
    BY <1>2, <2>1 DEF Hit, Entries, EntryOf
  <2>3. LookupOf(r)' = Told(key[r], redis[key[r]].version)
    <3>1. /\ pc'[r] = "answered" /\ answer'[r] = "some" /\ key'[r] = key[r]
          /\ held'[r] = redis[key[r]].version
      BY <1>0, <1>2 DEF Hit, Answer, TypeOK
    <3> QED BY <3>1 DEF LookupOf, Told
  <2>4. \A q \in Reader \ {r} : SameRow(q)
    BY <1>0, <1>2 DEF Hit, Answer, TypeOK, SameRow
  <2> QED BY <1>1, <1>2, <2>2, <2>3, <2>4, LookupStep DEF Hit
<1>3. CASE Miss(r)
  <2>1. LookupOf(r)' = LookupOf(r) /\ \A q \in Reader \ {r} : SameRow(q)
    BY <1>0, <1>3 DEF Miss, TypeOK, LookupOf, SameRow
  <2>2. Abstract!Stay(r)
    BY <2>1 DEF Abstract!Stay, Lookups
  <2> QED BY <1>3, <2>1, <2>2, LookupStep DEF Miss
<1>4. CASE FindFails(r)
  <2>1. /\ pc'[r] = "answered" /\ answer'[r] = "left"
        /\ \A q \in Reader \ {r} : SameRow(q)
    BY <1>0, <1>4 DEF FindFails, Answer, TypeOK, GoodLookup, SameRow
  <2>2. Abstract!Fail(r)
    BY <2>1 DEF LookupOf, Lookups, Abstract!Fail, Abstract!Failed, Abstract!Lookup
  <2> QED BY <1>4, <2>1, <2>2, LookupStep DEF FindFails
<1>5. CASE FindNone(r)
  <2>1. LookupOf(r)' = Told(key[r], 0) /\ \A q \in Reader \ {r} : SameRow(q)
    <3>1. pc'[r] = "answered" /\ answer'[r] \in {"nothing", "empty"} /\ key'[r] = key[r]
      BY <1>0, <1>5 DEF FindNone, Answer, TypeOK
    <3>2. \A q \in Reader \ {r} : SameRow(q)
      BY <1>0, <1>5 DEF FindNone, Answer, TypeOK, SameRow
    <3> QED BY <3>1, <3>2 DEF LookupOf, Told
  <2> QED BY <1>1, <1>5, <2>1, LookupStep DEF FindNone
<1>6. CASE Found(r)
  <2>1. /\ LookupOf(r)' = Told(key[r], db[key[r]])
        /\ \A q \in Reader \ {r} : SameRow(q)
    <3>1. /\ pc'[r] = "set" /\ answer'[r] = "none" /\ key'[r] = key[r]
          /\ held'[r] = db[key[r]]
      BY <1>0, <1>6 DEF Found, TypeOK, GoodLookup
    <3>2. \A q \in Reader \ {r} : SameRow(q)
      BY <1>0, <1>6 DEF Found, TypeOK, SameRow
    <3> QED BY <3>1, <3>2 DEF LookupOf, Told
  <2> QED BY <1>1, <1>6, <2>1, LookupStep DEF Found
<1>7. CASE setWithExpirationTask(r) \/ SetFails(r)
  <2>1. /\ LookupOf(r)' = LookupOf(r) /\ \A q \in Reader \ {r} : SameRow(q)
        /\ db' = db
    BY <1>0, <1>7 DEF setWithExpirationTask, SetFails, Answer, TypeOK, GoodLookup,
                      LookupOf, SameRow
  <2>2. \A q \in Reader : LookupOf(q)' = LookupOf(q)
    BY <2>1 DEF LookupOf, SameRow
  <2>3. Lookups' = Lookups
    BY <2>2 DEF Lookups
  <2>4. \A k \in Key : EntryOf(k)' = EntryOf(k) \/ EntryOf(k)' \in 0..db[k]
    BY <1>0, <1>7 DEF setWithExpirationTask, SetFails, TypeOK, GoodLookup, EntryOf
  <2> QED BY <2>1, <2>3, <2>4, RefillStep
<1> QED BY <1>2, <1>3, <1>4, <1>5, <1>6, <1>7 DEF Step

\* A cached lookup, with all its awaits, is a lookup of one step: told what Redis or
\* Cosmos has at one moment of its life, of entries that are or were published.
THEOREM Implements == Spec => ImplementsCachedLookups
<1>1. Init => Abstract!Init
  BY DEF Init, Abstract!Init, Abstract!Lookup, EntryOf, LookupOf, absent
<1>2. IInv /\ [Next]_vars => [Abstract!Next]_(Abstract!vars)
  <2> SUFFICES ASSUME IInv, [Next]_vars  PROVE [Abstract!Next]_(Abstract!vars)
    OBVIOUS
  <2>1. CASE UNCHANGED vars
    BY <2>1, SameLookups, SameEntries DEF vars, Abstract!vars, Lookups, Entries
  <2> QED BY <2>1, WorldImplements, CallImplements, LookupImplements
          DEF Next, Abstract!Next, getOrCacheService, getOrCacheMaybeRCConfigurationById, Operation, Key
<1> QED BY <1>1, <1>2, Inductive, PTL DEF Spec, ImplementsCachedLookups, Abstract!Spec

=============================================================================
