----------------------- MODULE MessageEnrichmentProofs ------------------------
(***************************************************************************)
(* Proofs about MessageEnrichment, for any routes, contents and changes.   *)
(* The invariant says what a route knows at each of its reads, and that    *)
(* what it knows in a calm is what the collections have now.  It is about  *)
(* one row per route: its state st, its outstanding reads rs and the       *)
(* message m as enriched so far.                                           *)
(***************************************************************************)
EXTENDS MessageEnrichment, TLAPS

\* The payee that the payment data name, as route r sees it.
NamedPayee(r) == IF content.payee /\ r # "view" THEN Payee ELSE Undefined

\* The reads that a route may have outstanding.
Awaits(r, st, rs) ==
    /\ st = "busy" <=> rs # {}
    /\ r \in {"detail", "plain"} =>
          \/ rs \subseteq {"document", "content"}
          \/ rs = {"payee"} /\ NeedsPayee
          \/ r = "detail" /\ rs \subseteq {"status", "service"}
    /\ r = "fallback" =>
          rs \in {{}, {"status"}, {"content"}, {"configuration"}, {"service"}}
    /\ r = "view" => rs \in {{}, {"document"}, {"configuration"}, {"service"}}
    /\ rs = {"configuration"} => NeedsConfiguration

\* A route has been answered, or awaits reads among some.
Reached(st, rs, some) == st = "ok" \/ (st = "busy" /\ rs \subseteq some)

\* What the message of a route says of the payment.
Paid(r, st, rs, m) ==
    /\ r \in {"fallback", "view"} /\ Reached(st, rs, {"configuration", "service"}) =>
          m.tag = categoryTag(content.data) /\ m.payeeFiscalCode = NamedPayee(r)
    /\ r # "plain" /\ st = "ok" =>
          /\ m.tag = categoryTag(content.data)
          /\ m.rptId = Rpt(m, NamedPayee(r), m.organization)

\* Third party data have a configuration id.
Identified ==
    "third_party_data" \in content.data => content.configuration_id \/ isMapped

\* What the message of a route has been told by now, whatever has changed since.
Whole(r, st, rs, m) ==
    /\ r \in {"detail", "plain"} =>
          /\ Reached(st, rs, {"status", "service"}) =>
                /\ NeedsPayee => m.payee > 0
                /\ r = "detail" /\ "service" \notin rs => m.organization > 0
          /\ st = "ok" => Identified
    /\ r \in {"fallback", "view"} /\ st = "ok" => m.organization > 0
    /\ r \in {"fallback", "view"} /\ ~NeedsConfiguration =>
          /\ st = "busy" /\ rs = {"service"} =>
                m.has_precondition = OwnPrecondition(m.is_read)
          /\ st = "ok" => m.has_precondition = (OwnPrecondition(m.is_read) \/ m.tag = "PN")

PayeeNow ==
    IF "payment_data" \notin content.data THEN Undefined
    ELSE IF content.payee THEN Payee ELSE service

PreconditionNow ==
    /\ "third_party_data" \in content.data
    /\ computeFlagFromHasPrecondition(
          IF content.has_precondition = "undefined" THEN configuration
                                                    ELSE content.has_precondition, isRead)

\* What a route knows is so now.
True(r, st, rs, m) ==
    /\ r = "plain" /\ st = "ok" => m.payee = PayeeNow
    /\ r = "detail" /\ Reached(st, rs, {"status", "service"}) =>
          /\ m.payee = PayeeNow
          /\ "status" \notin rs => m.is_read = isRead
          /\ "service" \notin rs => m.organization = service
    /\ r \in {"fallback", "view"} =>
          /\ Reached(st, rs, {"content", "configuration", "service"}) => m.is_read = isRead
          /\ st = "busy" /\ rs = {"service"} => m.has_precondition = PreconditionNow
          /\ st = "ok" =>
                /\ m.organization = service
                /\ m.has_precondition = (PreconditionNow \/ m.tag = "PN")

\* Nothing has changed since route r asked.
Current(r) == r \in calm /\ asked[r] = changes

Calm(r) ==
    /\ asked[r] <= changes
    /\ state[r] = "busy" /\ r \in calm => asked[r] = changes
    /\ state[r] = "idle" => r \notin calm
    /\ Current(r) => Coherent

\* A row that the code may leave.
GoodRow(r, st, rs, m) ==
    /\ Awaits(r, st, rs)
    /\ Paid(r, st, rs, m)
    /\ Whole(r, st, rs, m)
    /\ Current(r) => True(r, st, rs, m)

Good(r) == GoodRow(r, state[r], reads[r], message[r])

\* Every route sees the same payee.
SamePayee == "view" \in Route => \A c \in Contents : ~c.payee

IInv ==
    /\ TypeOK
    /\ \A r \in Route : Calm(r) /\ Good(r)
    /\ SamePayee => RoutesAgree

-----------------------------------------------------------------------------
(* Categories.                                                             *)

Tag == {"EU_COVID_CERT", "LEGAL_MESSAGE", "PN", "GENERIC", "PAYMENT"}

\* Data that are not empty have a first of them.
LEMMA FirstIsThere ==
    ASSUME NEW data \in SUBSET Data, data # {}
    PROVE  First(data) \in data
<1>1. \E d \in data : \A e \in data : precedence[d] <= precedence[e]
  <2>1. CASE "eu_covid_cert" \in data
    BY <2>1 DEF Data, precedence
  <2>2. CASE "eu_covid_cert" \notin data /\ "legal_data" \in data
    BY <2>2 DEF Data, precedence
  <2>3. CASE /\ "eu_covid_cert" \notin data /\ "legal_data" \notin data
             /\ "third_party_data" \in data
    BY <2>3 DEF Data, precedence
  <2>4. CASE /\ "eu_covid_cert" \notin data /\ "legal_data" \notin data
             /\ "third_party_data" \notin data
    <3>1. data = {"payment_data"}
      BY <2>4 DEF Data
    <3> QED BY <3>1 DEF precedence
  <2> QED BY <2>1, <2>2, <2>3, <2>4
<1> QED BY <1>1 DEF First

\* The category is one of the tags, and of a payment only if there is one.
LEMMA CategoryTag ==
    ASSUME NEW data \in SUBSET Data
    PROVE  /\ categoryTag(data) \in Tag
           /\ categoryTag(data) = "PAYMENT" => "payment_data" \in data
<1>1. CASE data = {}
  BY <1>1 DEF categoryTag, Tag
<1>2. CASE data # {}
  <2>1. First(data) \in data /\ First(data) \in Data
    BY <1>2, FirstIsThere
  <2> QED BY <1>2, <2>1 DEF categoryTag, tag, Tag, Data
<1> QED BY <1>1, <1>2

\* What is known of the content.
LEMMA ContentFacts ==
    ASSUME TypeOK
    PROVE  /\ content.data \in SUBSET Data
           /\ content.payee \in BOOLEAN
           /\ content.has_precondition \in HasPrecondition \cup {"undefined"}
           /\ categoryTag(content.data) \in Tag
           /\ categoryTag(content.data) = "PAYMENT" => "payment_data" \in content.data
           /\ SamePayee /\ "view" \in Route => ~content.payee
<1>1. content \in Contents /\ content \in ContentType
  BY EnrichmentAssumption DEF EnrichmentAssumption, TypeOK
<1>2. content.data \in SUBSET Data
  BY <1>1 DEF ContentType
<1> QED BY <1>1, <1>2, CategoryTag DEF ContentType, SamePayee

\* Versions are fiscal codes.
LEMMA Codes ==
    ASSUME TypeOK
    PROVE  /\ service \in Nat /\ service \in FiscalCode
           /\ Payee \in FiscalCode /\ Undefined \in FiscalCode
           /\ \A s \in 1..service : s \in FiscalCode /\ s \in 1..MaxVersion
BY EnrichmentAssumption DEF EnrichmentAssumption, TypeOK, FiscalCode, Payee, Undefined

-----------------------------------------------------------------------------
(* Rows.                                                                   *)

AgreeOf(r, s, mr, ms) ==
    /\ {r, s} \subseteq Public =>
          \A a \in {"tag", "rptId", "organization", "is_read"} : mr[a] = ms[a]
    /\ {r, s} \subseteq List => mr.has_precondition = ms.has_precondition
    /\ r \notin List /\ s \in Public /\ ms.tag = "PAYMENT" => mr.payee = ms.rptId

\* Answers that are true of the same moment agree.
LEMMA SameAnswer ==
    ASSUME TypeOK, SamePayee,
           NEW r \in Route, NEW s \in Route, NEW mr \in Message, NEW ms \in Message,
           Paid(r, "ok", {}, mr), True(r, "ok", {}, mr),
           Paid(s, "ok", {}, ms), True(s, "ok", {}, ms)
    PROVE  AgreeOf(r, s, mr, ms)
<1>1. {r, s} \subseteq {"detail", "plain", "fallback", "view"}
  BY EnrichmentAssumption DEF EnrichmentAssumption
<1>2. "view" \in Route => ~content.payee
  BY ContentFacts
<1>3. NamedPayee(r) = NamedPayee(s)
  BY <1>2 DEF NamedPayee
<1>4. \A q \in Route, m \in Message :
         /\ Paid(q, "ok", {}, m) /\ q # "plain" => 
               m.tag = categoryTag(content.data) /\ m.rptId = Rpt(m, NamedPayee(q), m.organization)
         /\ True(q, "ok", {}, m) /\ q # "plain" =>
               m.organization = service /\ m.is_read = isRead
         /\ True(q, "ok", {}, m) /\ q \in {"detail", "plain"} => m.payee = PayeeNow
         /\ True(q, "ok", {}, m) /\ q \in {"fallback", "view"} =>
               m.has_precondition = (PreconditionNow \/ m.tag = "PN")
  BY EnrichmentAssumption DEF EnrichmentAssumption, Paid, True, Reached
<1>5. ASSUME {r, s} \subseteq Public
      PROVE  \A a \in {"tag", "rptId", "organization", "is_read"} : mr[a] = ms[a]
  <2>1. r # "plain" /\ s # "plain"
    BY <1>5 DEF Public
  <2>2. mr.tag = ms.tag /\ mr.organization = ms.organization /\ mr.is_read = ms.is_read
    BY <1>4, <2>1
  <2>3. mr.rptId = ms.rptId
    BY <1>3, <1>4, <2>1, <2>2 DEF Rpt
  <2> QED BY <2>2, <2>3
<1>6. {r, s} \subseteq List => mr.has_precondition = ms.has_precondition
  BY <1>4 DEF List
<1>7. ASSUME r \notin List, s \in Public, ms.tag = "PAYMENT"
      PROVE  mr.payee = ms.rptId
  <2>1. mr.payee = PayeeNow
    BY <1>1, <1>4, <1>7 DEF List
  <2>2. s # "plain"
    BY <1>7 DEF Public
  <2>3. /\ ms.tag = categoryTag(content.data) /\ ms.organization = service
        /\ ms.rptId = Rpt(ms, NamedPayee(s), ms.organization)
    BY <1>4, <2>2
  <2>4. "payment_data" \in content.data
    BY <1>7, <2>3, ContentFacts
  <2>5. CASE content.payee
    <3>1. s # "view"
      BY <1>2, <2>5
    <3>2. NamedPayee(s) = Payee /\ PayeeNow = Payee
      BY <2>4, <2>5, <3>1 DEF NamedPayee, PayeeNow
    <3> QED BY <1>7, <2>1, <2>3, <3>2 DEF Rpt, Payee, Undefined
  <2>6. CASE ~content.payee
    <3>1. NamedPayee(s) = Undefined /\ PayeeNow = service
      BY <2>4, <2>6 DEF NamedPayee, PayeeNow
    <3> QED BY <1>7, <2>1, <2>3, <3>1 DEF Rpt
  <2> QED BY <2>5, <2>6
<1> QED BY <1>5, <1>6, <1>7 DEF AgreeOf

\* A step of a request leaves all but the caches, its own row and, for Ask, its history.
Quiet ==
    /\ UNCHANGED <<content, service, configuration, isRead, viewRead, changes>>
    /\ redisService' \in {Undefined} \cup 1..MaxVersion
    /\ redisConfiguration' \in {"undefined"} \cup HasPrecondition
    /\ Coherent => Coherent'

Row(r, st, rs, m) ==
    /\ state' = [state EXCEPT ![r] = st]
    /\ reads' = [reads EXCEPT ![r] = rs]
    /\ message' = [message EXCEPT ![r] = m]

\* What a row may be depends on the content alone ...
LEMMA RowKeeps ==
    ASSUME UNCHANGED content, NEW r, NEW st, NEW rs, NEW m,
           Awaits(r, st, rs), Paid(r, st, rs, m), Whole(r, st, rs, m)
    PROVE  Awaits(r, st, rs)' /\ Paid(r, st, rs, m)' /\ Whole(r, st, rs, m)'
<1>1. Awaits(r, st, rs)' /\ Paid(r, st, rs, m)'
  BY DEF Awaits, NeedsPayee, NeedsConfiguration, Paid, Reached, NamedPayee, Rpt,
     categoryTag, First, tag, precedence
<1>2. Whole(r, st, rs, m)'
  BY DEF Whole, Identified, NeedsPayee, NeedsConfiguration, Reached, OwnPrecondition,
     computeFlagFromHasPrecondition
<1> QED BY <1>1, <1>2

\* ... and a row is good whatever the caches have.
LEMMA RowStays ==
    ASSUME UNCHANGED <<content, service, configuration, isRead, changes>>,
           NEW r, NEW st, NEW rs, NEW m,
           Awaits(r, st, rs), Paid(r, st, rs, m), Whole(r, st, rs, m),
           Current(r)' => True(r, st, rs, m)
    PROVE  GoodRow(r, st, rs, m)'
<1>1. Awaits(r, st, rs)' /\ Paid(r, st, rs, m)' /\ Whole(r, st, rs, m)'
  BY RowKeeps
<1>2. True(r, st, rs, m) => True(r, st, rs, m)'
  BY DEF True, Reached, PayeeNow, PreconditionNow, computeFlagFromHasPrecondition
<1> QED BY <1>1, <1>2 DEF GoodRow

\* A step of a request of route r that leaves it a good row leaves the invariant.
LEMMA RowStep ==
    ASSUME IInv, Quiet, UNCHANGED <<asked, calm>>,
           NEW r \in Route, state[r] = "busy",
           NEW st \in {"busy", "ok", "error"}, NEW rs \in SUBSET Read, NEW m \in Message,
           Row(r, st, rs, m), GoodRow(r, st, rs, m)
    PROVE  IInv'
<1>0. TypeOK /\ \A q \in Route : Calm(q) /\ Good(q)
  BY DEF IInv
<1>1. TypeOK'
  BY <1>0 DEF TypeOK, Quiet, Row
<1>2. /\ state'[r] = st /\ reads'[r] = rs /\ message'[r] = m
      /\ \A q \in Route \ {r} : /\ state'[q] = state[q] /\ reads'[q] = reads[q]
                                /\ message'[q] = message[q]
  BY <1>0 DEF TypeOK, Row
<1>3. \A q \in Route : Current(q)' <=> Current(q)
  BY DEF Current, Quiet
<1>4. \A q \in Route : Good(q)'
  <2> SUFFICES ASSUME NEW q \in Route PROVE Good(q)'
    OBVIOUS
  <2>1. GoodRow(q, state'[q], reads'[q], message'[q])
    BY <1>0, <1>2 DEF Good
  <2> QED BY <1>3, <2>1, RowStays DEF Good, GoodRow, Quiet
<1>5. \A q \in Route : Calm(q)'
  BY <1>0, <1>2, <1>3 DEF Calm, Quiet
<1>6. ASSUME SamePayee PROVE RoutesAgree'
  <2> SUFFICES ASSUME NEW p \in Route, NEW q \in Route, p \in calm, q \in calm,
                      state'[p] = "ok", state'[q] = "ok", asked[p] = asked[q]
               PROVE  AgreeOf(p, q, message'[p], message'[q])
    BY <1>1 DEF RoutesAgree, AgreeOf, TypeOK
  <2>1. CASE asked[p] = changes
    <3>1. Current(p) /\ Current(q)
      BY <2>1 DEF Current
    <3>2. /\ GoodRow(p, "ok", reads'[p], message'[p])
          /\ GoodRow(q, "ok", reads'[q], message'[q])
      BY <1>0, <1>2 DEF Good
    <3>3. reads'[p] = {} /\ reads'[q] = {}
      BY <3>2 DEF GoodRow, Awaits
    <3>4. message'[p] \in Message /\ message'[q] \in Message
      BY <1>1 DEF TypeOK
    <3> QED BY <1>0, <1>6, <3>1, <3>2, <3>3, <3>4, SameAnswer DEF GoodRow
  <2>2. CASE asked[p] # changes
    <3>1. p # r /\ q # r
      BY <1>0, <2>2 DEF Calm
    <3> QED BY <1>2, <1>6, <3>1 DEF IInv, RoutesAgree, AgreeOf
  <2> QED BY <2>1, <2>2
<1> QED BY <1>1, <1>4, <1>5, <1>6 DEF IInv, SamePayee

-----------------------------------------------------------------------------
(* The ways a step ends.                                                   *)

\* A route that awaits a read is busy, and its message is one.
LEMMA Busy ==
    ASSUME IInv, NEW r \in Route, reads[r] # {}
    PROVE  state[r] = "busy" /\ message[r] \in Message /\ reads[r] \in SUBSET Read
BY DEF IInv, Good, GoodRow, Awaits, TypeOK

LEMMA Fails ==
    ASSUME IInv, Quiet, UNCHANGED <<asked, calm>>, NEW r \in Route, reads[r] # {}, Fail(r)
    PROVE  IInv'
<1>1. state[r] = "busy" /\ message[r] \in Message
  BY Busy
<1>2. Row(r, "error", {}, message[r])
  BY DEF Row, Fail, IInv, TypeOK
<1>3. GoodRow(r, "error", {}, message[r])
  BY DEF GoodRow, Awaits, Paid, Whole, True, Reached
<1> QED BY <1>1, <1>2, <1>3, RowStep

LEMMA Continues ==
    ASSUME IInv, Quiet, UNCHANGED <<asked, calm>>, NEW r \in Route, reads[r] # {},
           NEW m \in Message, NEW rs \in SUBSET Read, rs # {},
           Continue(r, m, rs), GoodRow(r, "busy", rs, m)
    PROVE  IInv'
<1>1. state[r] = "busy"
  BY Busy
<1>2. Row(r, "busy", rs, m)
  BY DEF Row, Continue
<1> QED BY <1>1, <1>2, RowStep

LEMMA Answers ==
    ASSUME IInv, Quiet, UNCHANGED <<asked, calm>>, NEW r \in Route, reads[r] # {},
           NEW m \in Message, Continue(r, m, {}), GoodRow(r, "ok", {}, m)
    PROVE  IInv'
<1>1. state[r] = "busy"
  BY Busy
<1>2. Row(r, "ok", {}, m)
  BY DEF Row, Continue
<1>3. {} \in SUBSET Read
  OBVIOUS
<1> QED BY <1>1, <1>2, <1>3, RowStep

\* A read through the cache answers, in a calm, what is there now.
LEMMA ServiceRead ==
    ASSUME IInv, NEW s \in 1..service, getOrCacheService(s)
    PROVE  /\ Quiet /\ UNCHANGED <<asked, calm>>
           /\ s \in FiscalCode
           /\ Coherent => s = service
<1>1. TypeOK
  BY DEF IInv
<1>2. s \in FiscalCode /\ s \in 1..MaxVersion
  BY <1>1, Codes
<1>3. Coherent => s = service
  BY DEF getOrCacheService, Coherent
<1>4. UNCHANGED <<content, service, configuration, isRead, viewRead, redisConfiguration, changes,
                  asked, calm>>
  BY DEF getOrCacheService, hist
<1>5. redisService' \in {redisService, s}
  BY DEF getOrCacheService
<1>6. Coherent => Coherent'
  BY <1>3, <1>4, <1>5 DEF Coherent
<1> QED BY <1>1, <1>2, <1>3, <1>4, <1>5, <1>6 DEF Quiet, TypeOK

LEMMA ConfigurationRead ==
    ASSUME IInv, NEW p \in HasPrecondition, getOrCacheRCConfiguration(p)
    PROVE  /\ Quiet /\ UNCHANGED <<asked, calm>>
           /\ Coherent => p = configuration
<1>1. TypeOK
  BY DEF IInv
<1>2. Coherent => p = configuration
  BY DEF getOrCacheRCConfiguration, Coherent
<1>3. UNCHANGED <<content, service, configuration, isRead, viewRead, redisService, changes,
                  asked, calm>>
  BY DEF getOrCacheRCConfiguration, hist
<1>4. redisConfiguration' \in {redisConfiguration, p}
  BY DEF getOrCacheRCConfiguration
<1>5. Coherent => Coherent'
  BY <1>2, <1>3, <1>4 DEF Coherent
<1> QED BY <1>1, <1>2, <1>3, <1>4, <1>5 DEF Quiet, TypeOK

\* So does a read of a collection.
LEMMA CollectionRead ==
    ASSUME IInv, UNCHANGED <<content, env, hist>>
    PROVE  Quiet /\ UNCHANGED <<asked, calm>>
BY DEF IInv, TypeOK, Quiet, env, hist, Coherent

\* In a calm the caches are coherent.
LEMMA InACalm ==
    ASSUME IInv, NEW r \in Route, Current(r)
    PROVE  Coherent /\ Good(r)
BY DEF IInv, Calm

LEMMA ReadFailsInv ==
    ASSUME IInv, NEW r \in Route, ReadFails(r)
    PROVE  IInv'
BY CollectionRead, Fails DEF ReadFails

-----------------------------------------------------------------------------
(* GetMessage.                                                             *)

LEMMA ThirdPartyDataInv ==
    ASSUME IInv, Quiet, UNCHANGED <<asked, calm>>, NEW r \in Route, reads[r] # {},
           NEW m \in Message, getErrorOrMaybeThirdPartyData(r, m),
           Identified => GoodRow(r, "ok", {}, m)
    PROVE  IInv'
<1>1. CASE Identified
  <2>1. Continue(r, m, {})
    BY <1>1 DEF getErrorOrMaybeThirdPartyData, Identified
  <2> QED BY <1>1, <2>1, Answers
<1>2. CASE ~Identified
  <2>1. Fail(r)
    BY <1>2 DEF getErrorOrMaybeThirdPartyData, Identified
  <2> QED BY <2>1, Fails
<1> QED BY <1>1, <1>2

LEMMA PublicDataInv ==
    ASSUME IInv, Quiet, UNCHANGED <<asked, calm>>,
           NEW r \in Route, r \in {"detail", "plain"}, reads[r] # {},
           NEW m \in Message, PublicData(r, m),
           NeedsPayee => m.payee > 0, Current(r) => m.payee = PayeeNow
    PROVE  IInv'
<1>1. CASE r = "detail"
  <2>1. Continue(r, m, {"status", "service"}) /\ {"status", "service"} \in SUBSET Read
    BY <1>1 DEF PublicData, Read
  <2>2. GoodRow(r, "busy", {"status", "service"}, m)
    BY <1>1 DEF GoodRow, Awaits, Paid, Whole, True, Reached
  <2> QED BY <2>1, <2>2, Continues
<1>2. CASE r = "plain"
  <2>1. getErrorOrMaybeThirdPartyData(r, m)
    BY <1>2 DEF PublicData
  <2>2. Identified => GoodRow(r, "ok", {}, m)
    BY <1>2 DEF GoodRow, Awaits, Paid, Whole, True, Reached
  <2> QED BY <2>1, <2>2, ThirdPartyDataInv
<1> QED BY <1>1, <1>2

LEMMA FindMessageInv ==
    ASSUME IInv, NEW r \in Route, FindMessage(r)
    PROVE  IInv'
<1>1. Quiet /\ UNCHANGED <<asked, calm>>
  BY CollectionRead DEF FindMessage
<1>2. r \in {"detail", "plain"}
  BY DEF FindMessage
<1>3. PICK read \in reads[r] \cap {"document", "content"} :
          IF reads[r] # {read} THEN Continue(r, message[r], reads[r] \ {read})
          ELSE IF NeedsPayee THEN Continue(r, message[r], {"payee"})
          ELSE PublicData(r, [message[r] EXCEPT
                   !.payee = IF "payment_data" \in content.data THEN Payee ELSE Undefined])
  BY DEF FindMessage
<1>4. reads[r] # {} /\ message[r] \in Message /\ reads[r] \in SUBSET Read
  BY <1>3, Busy
<1>5. reads[r] \subseteq {"document", "content"}
  <2>1. Awaits(r, state[r], reads[r])
    BY DEF IInv, Good, GoodRow
  <2> QED BY <1>2, <1>3, <2>1 DEF Awaits
<1>6. CASE reads[r] # {read}
  <2>1. Continue(r, message[r], reads[r] \ {read}) /\ reads[r] \ {read} # {}
    BY <1>3, <1>6
  <2>2. GoodRow(r, "busy", reads[r] \ {read}, message[r])
    BY <1>2, <1>5, <2>1 DEF GoodRow, Awaits, Paid, Whole, True, Reached
  <2> QED BY <1>1, <1>4, <2>1, <2>2, Continues
<1>7. CASE reads[r] = {read} /\ NeedsPayee
  <2>1. Continue(r, message[r], {"payee"}) /\ {"payee"} \in SUBSET Read
    BY <1>3, <1>7 DEF Read
  <2>2. GoodRow(r, "busy", {"payee"}, message[r])
    BY <1>2, <1>7 DEF GoodRow, Awaits, Paid, Whole, True, Reached
  <2> QED BY <1>1, <1>4, <2>1, <2>2, Continues
<1>8. CASE reads[r] = {read} /\ ~NeedsPayee
  <2> DEFINE c == IF "payment_data" \in content.data THEN Payee ELSE Undefined
             m == [message[r] EXCEPT !.payee = c]
  <2>1. PublicData(r, m)
    BY <1>3, <1>8
  <2>2. c \in FiscalCode
    BY DEF FiscalCode
  <2>3. c = PayeeNow
    BY <1>8 DEF NeedsPayee, PayeeNow
  <2> HIDE DEF c
  <2>4. m \in Message /\ m.payee = PayeeNow
    BY <1>4, <2>2, <2>3 DEF Message
  <2> HIDE DEF m
  <2> QED BY <1>1, <1>2, <1>4, <1>8, <2>1, <2>4, PublicDataInv
<1> QED BY <1>6, <1>7, <1>8

LEMMA PaymentDataInv ==
    ASSUME IInv, NEW r \in Route, getErrorOrPaymentData(r)
    PROVE  IInv'
<1>1. r \in {"detail", "plain"} /\ "payee" \in reads[r]
  BY DEF getErrorOrPaymentData
<1>2. PICK s \in 1..service :
          getOrCacheService(s) /\ PublicData(r, [message[r] EXCEPT !.payee = s])
  BY DEF getErrorOrPaymentData
<1>3. Quiet /\ UNCHANGED <<asked, calm>> /\ s \in FiscalCode /\ (Coherent => s = service)
  BY <1>2, ServiceRead
<1>4. message[r] \in Message
  BY <1>1, Busy
<1>5. NeedsPayee
  <2>1. Awaits(r, state[r], reads[r])
    BY DEF IInv, Good, GoodRow
  <2> QED BY <1>1, <2>1 DEF Awaits
<1> DEFINE m == [message[r] EXCEPT !.payee = s]
<1>6. m \in Message /\ m.payee = s
  BY <1>3, <1>4 DEF Message
<1>7. Current(r) => s = PayeeNow
  BY <1>3, <1>5, InACalm DEF NeedsPayee, PayeeNow
<1>8. PublicData(r, m)
  BY <1>2
<1>9. s > 0
  BY Codes DEF IInv
<1> HIDE DEF m
<1> QED BY <1>1, <1>3, <1>6, <1>7, <1>8, <1>9, PublicDataInv

\* One of the parallel reads of the public attributes, or the last.
LEMMA EnrichedInv ==
    ASSUME IInv, Quiet, UNCHANGED <<asked, calm>>, NEW r \in Route, r = "detail",
           NEW read \in {"status", "service"}, read \in reads[r],
           NEW m \in Message, Enriched(r, read, m), Whole(r, "busy", reads[r] \ {read}, m),
           Current(r) => True(r, "busy", reads[r] \ {read}, m)
    PROVE  IInv'
<1>1. reads[r] \subseteq {"status", "service"} /\ reads[r] \in SUBSET Read
  <2>1. Awaits(r, state[r], reads[r])
    BY DEF IInv, Good, GoodRow
  <2> QED BY <2>1, Busy DEF Awaits
<1>2. CASE reads[r] # {read}
  <2>1. Continue(r, m, reads[r] \ {read}) /\ reads[r] \ {read} # {}
    BY <1>2 DEF Enriched
  <2>2. GoodRow(r, "busy", reads[r] \ {read}, m)
    BY <1>1, <2>1 DEF GoodRow, Awaits, Paid, Reached
  <2> QED BY <1>1, <2>1, <2>2, Continues
<1>3. CASE reads[r] = {read}
  <2> DEFINE t == [m EXCEPT !.tag = mapMessageCategory(content).tag]
             c == Rpt(t, IF content.payee THEN Payee ELSE Undefined, t.organization)
             a == [t EXCEPT !.rptId = c]
  <2>1. getErrorOrMaybeThirdPartyData(r, a)
    BY <1>3 DEF Enriched
  <2>2. mapMessageCategory(content).tag = categoryTag(content.data)
    BY DEF mapMessageCategory
  <2>3. categoryTag(content.data) \in Tag
    BY ContentFacts DEF IInv
  <2>4. /\ t \in Message /\ t.tag = categoryTag(content.data)
        /\ t.organization = m.organization /\ t.payee = m.payee /\ t.is_read = m.is_read
    BY <2>2, <2>3 DEF Message, Tag
  <2> HIDE DEF t
  <2>5. c \in FiscalCode /\ c = Rpt(t, NamedPayee(r), t.organization)
    BY <2>4, Codes DEF Rpt, NamedPayee, Message, IInv
  <2>6. /\ a \in Message /\ a.rptId = c /\ a.tag = t.tag /\ a.organization = t.organization
        /\ a.payee = t.payee /\ a.is_read = t.is_read
    BY <2>4, <2>5 DEF Message
  <2> HIDE DEF a, c
  <2>7. Rpt(a, NamedPayee(r), a.organization) = Rpt(t, NamedPayee(r), t.organization)
    BY <2>6 DEF Rpt
  <2>8. Awaits(r, "ok", {}) /\ Paid(r, "ok", {}, a)
    BY <2>4, <2>5, <2>6, <2>7 DEF Awaits, Paid
  <2>9. Identified => Whole(r, "ok", {}, a)
    BY <1>3, <2>4, <2>6 DEF Whole, Reached
  <2>10. Current(r) => True(r, "ok", {}, a)
    BY <1>3, <2>4, <2>6 DEF True, Reached
  <2> QED BY <2>1, <2>6, <2>8, <2>9, <2>10, ThirdPartyDataInv DEF GoodRow
<1> QED BY <1>2, <1>3

LEMMA DetailStatusInv ==
    ASSUME IInv, NEW r \in Route, DetailStatus(r)
    PROVE  IInv'
<1> DEFINE m == [message[r] EXCEPT !.is_read = isRead]
<1>1. /\ r = "detail" /\ "status" \in reads[r] /\ Enriched(r, "status", m)
      /\ Quiet /\ UNCHANGED <<asked, calm>>
  BY CollectionRead DEF DetailStatus
<1>2. message[r] \in Message /\ state[r] = "busy" /\ isRead \in BOOLEAN
  BY <1>1, Busy DEF IInv, TypeOK
<1>3. /\ m \in Message /\ m.is_read = isRead
      /\ m.payee = message[r].payee /\ m.organization = message[r].organization
  BY <1>2 DEF Message
<1> HIDE DEF m
<1>4. ASSUME Current(r) PROVE True(r, "busy", reads[r] \ {"status"}, m)
  <2>1. True(r, "busy", reads[r], message[r]) /\ Awaits(r, "busy", reads[r])
    BY <1>2, <1>4, InACalm DEF Good, GoodRow
  <2> QED BY <1>1, <1>3, <2>1 DEF True, Reached, Awaits
<1>5. Whole(r, "busy", reads[r] \ {"status"}, m)
  <2>1. Whole(r, "busy", reads[r], message[r]) /\ Awaits(r, "busy", reads[r])
    BY <1>2 DEF IInv, Good, GoodRow
  <2> QED BY <1>1, <1>3, <2>1 DEF Whole, Reached, Awaits
<1> QED BY <1>1, <1>3, <1>4, <1>5, EnrichedInv

LEMMA DetailServiceInv ==
    ASSUME IInv, NEW r \in Route, DetailService(r)
    PROVE  IInv'
<1>1. r = "detail" /\ "service" \in reads[r]
  BY DEF DetailService
<1>2. PICK s \in 1..service :
          /\ getOrCacheService(s)
          /\ Enriched(r, "service", [message[r] EXCEPT !.organization = s])
  BY DEF DetailService
<1> DEFINE m == [message[r] EXCEPT !.organization = s]
<1>3. Quiet /\ UNCHANGED <<asked, calm>> /\ s \in FiscalCode /\ (Coherent => s = service)
  BY <1>2, ServiceRead
<1>4. message[r] \in Message /\ state[r] = "busy"
  BY <1>1, Busy
<1>5. /\ m \in Message /\ m.organization = s
      /\ m.payee = message[r].payee /\ m.is_read = message[r].is_read
  BY <1>3, <1>4 DEF Message
<1>6. Enriched(r, "service", m)
  BY <1>2
<1> HIDE DEF m
<1>7. ASSUME Current(r) PROVE True(r, "busy", reads[r] \ {"service"}, m)
  <2>1. True(r, "busy", reads[r], message[r]) /\ Awaits(r, "busy", reads[r]) /\ s = service
    BY <1>3, <1>4, <1>7, InACalm DEF Good, GoodRow
  <2> QED BY <1>1, <1>5, <2>1 DEF True, Reached, Awaits
<1>8. Whole(r, "busy", reads[r] \ {"service"}, m)
  <2>1. Whole(r, "busy", reads[r], message[r]) /\ Awaits(r, "busy", reads[r])
    BY <1>4 DEF IInv, Good, GoodRow
  <2>2. s > 0
    BY Codes DEF IInv
  <2> QED BY <1>1, <1>5, <2>1, <2>2 DEF Whole, Reached, Awaits
<1> QED BY <1>1, <1>3, <1>5, <1>6, <1>7, <1>8, EnrichedInv

-----------------------------------------------------------------------------
(* GetMessages.                                                            *)

LEMMA FallbackStatusInv ==
    ASSUME IInv, NEW r \in Route, FallbackStatus(r)
    PROVE  IInv'
<1> DEFINE m == [message[r] EXCEPT !.is_read = isRead]
<1>1. /\ r = "fallback" /\ reads[r] # {} /\ Continue(r, m, {"content"})
      /\ Quiet /\ UNCHANGED <<asked, calm>>
  BY CollectionRead DEF FallbackStatus
<1>2. m \in Message /\ m.is_read = isRead
  BY <1>1, Busy DEF Message, IInv, TypeOK
<1> HIDE DEF m
<1>3. {"content"} \in SUBSET Read /\ {"content"} # {}
  BY DEF Read
<1>4. GoodRow(r, "busy", {"content"}, m)
  BY <1>1, <1>2 DEF GoodRow, Awaits, Paid, Whole, True, Reached
<1> QED BY <1>1, <1>2, <1>3, <1>4, Continues

\* A list item with the category c, which has the payee that its route sees.
LEMMA WithCategoryInv ==
    ASSUME IInv, Quiet, UNCHANGED <<asked, calm>>,
           NEW r \in Route, r \in {"fallback", "view"}, reads[r] # {},
           NEW read \in BOOLEAN, NEW c, WithCategory(r, read, c),
           c.tag = categoryTag(content.data), c.payeeFiscalCode = NamedPayee(r),
           Current(r) => read = isRead
    PROVE  IInv'
<1> DEFINE m == [message[r] EXCEPT !.is_read = read, !.tag = c.tag,
                                   !.payeeFiscalCode = c.payeeFiscalCode,
                                   !.has_precondition = OwnPrecondition(read)]
           rs == IF NeedsConfiguration THEN {"configuration"} ELSE {"service"}
<1>1. Continue(r, m, rs)
  BY DEF WithCategory
<1>2. /\ c.tag \in Tag /\ c.payeeFiscalCode \in FiscalCode
      /\ OwnPrecondition(read) \in BOOLEAN /\ message[r] \in Message
  BY ContentFacts, Codes, Busy
     DEF IInv, NamedPayee, OwnPrecondition, computeFlagFromHasPrecondition
<1>3. /\ m \in Message /\ m.tag = c.tag /\ m.payeeFiscalCode = c.payeeFiscalCode
      /\ m.is_read = read /\ m.has_precondition = OwnPrecondition(read)
  BY <1>2 DEF Message, Tag
<1>4. rs \in SUBSET Read /\ rs # {}
  BY DEF Read
<1>5. ~NeedsConfiguration => OwnPrecondition(isRead) = PreconditionNow
  BY DEF NeedsConfiguration, OwnPrecondition, PreconditionNow
<1> HIDE DEF m
<1>6. Awaits(r, "busy", rs) /\ Paid(r, "busy", rs, m)
  BY <1>3 DEF Awaits, Paid, Reached
<1>7. Current(r) => True(r, "busy", rs, m)
  BY <1>3, <1>5 DEF True, Reached
<1>8. Whole(r, "busy", rs, m)
  BY <1>3 DEF Whole
<1> HIDE DEF rs
<1> QED BY <1>1, <1>3, <1>4, <1>6, <1>7, <1>8, Continues DEF GoodRow

LEMMA FallbackContentInv ==
    ASSUME IInv, NEW r \in Route, FallbackContent(r)
    PROVE  IInv'
<1> DEFINE c == mapMessageCategory(content)
<1>1. /\ r = "fallback" /\ "content" \in reads[r]
      /\ WithCategory(r, message[r].is_read, c)
      /\ Quiet /\ UNCHANGED <<asked, calm>>
  BY CollectionRead DEF FallbackContent
<1>2. state[r] = "busy" /\ message[r].is_read \in BOOLEAN
  BY <1>1, Busy DEF Message
<1>3. c.tag = categoryTag(content.data) /\ c.payeeFiscalCode = NamedPayee(r)
  BY <1>1 DEF mapMessageCategory, NamedPayee
<1>4. ASSUME Current(r) PROVE message[r].is_read = isRead
  <2>1. True(r, "busy", reads[r], message[r]) /\ Awaits(r, "busy", reads[r])
    BY <1>2, <1>4, InACalm DEF Good, GoodRow
  <2> QED BY <1>1, <2>1 DEF True, Reached, Awaits
<1> HIDE DEF c
<1> QED BY <1>1, <1>2, <1>3, <1>4, WithCategoryInv

LEMMA ViewDocumentInv ==
    ASSUME IInv, NEW r \in Route, ViewDocument(r)
    PROVE  IInv'
<1> DEFINE c == toCategory(content)
<1>1. /\ r = "view" /\ "document" \in reads[r] /\ WithCategory(r, viewRead, c)
      /\ Quiet /\ UNCHANGED <<asked, calm>> /\ viewRead \in BOOLEAN
  BY CollectionRead DEF ViewDocument, IInv, TypeOK
<1>2. c.tag = categoryTag(content.data) /\ c.payeeFiscalCode = NamedPayee(r)
  BY <1>1 DEF toCategory, NamedPayee
<1>3. Current(r) => viewRead = isRead
  BY InACalm DEF Coherent
<1> HIDE DEF c
<1> QED BY <1>1, <1>2, <1>3, WithCategoryInv

LEMMA ListConfigurationInv ==
    ASSUME IInv, NEW r \in Route, ListConfiguration(r)
    PROVE  IInv'
<1>1. "configuration" \in reads[r]
  BY DEF ListConfiguration
<1>2. PICK p \in HasPrecondition :
          /\ getOrCacheRCConfiguration(p)
          /\ Continue(r, [message[r] EXCEPT
                 !.has_precondition = computeFlagFromHasPrecondition(p, message[r].is_read)],
                 {"service"})
  BY DEF ListConfiguration
<1> DEFINE b == computeFlagFromHasPrecondition(p, message[r].is_read)
           m == [message[r] EXCEPT !.has_precondition = b]
<1>3. Quiet /\ UNCHANGED <<asked, calm>> /\ (Coherent => p = configuration)
  BY <1>2, ConfigurationRead
<1>4. message[r] \in Message /\ state[r] = "busy" /\ b \in BOOLEAN
  BY <1>1, Busy DEF computeFlagFromHasPrecondition
<1>5. /\ m \in Message /\ m.has_precondition = b /\ m.is_read = message[r].is_read
      /\ m.tag = message[r].tag /\ m.payeeFiscalCode = message[r].payeeFiscalCode
  BY <1>4 DEF Message
<1>6. Continue(r, m, {"service"})
  BY <1>2
<1> HIDE DEF m
<1>7. GoodRow(r, "busy", reads[r], message[r])
  BY <1>4 DEF IInv, Good
<1>8. r \in {"fallback", "view"} /\ reads[r] = {"configuration"}
  BY <1>1, <1>7, EnrichmentAssumption DEF EnrichmentAssumption, GoodRow, Awaits
<1>9. GoodRow(r, "busy", {"service"}, m)
  <2>1. Awaits(r, "busy", {"service"}) /\ Paid(r, "busy", {"service"}, m)
    BY <1>5, <1>7, <1>8 DEF GoodRow, Awaits, Paid, Reached
  <2>2. ASSUME Current(r) PROVE True(r, "busy", {"service"}, m)
    <3>1. message[r].is_read = isRead /\ p = configuration
      BY <1>3, <1>7, <1>8, <2>2, InACalm DEF GoodRow, True, Reached
    <3>2. m.has_precondition = PreconditionNow
      BY <1>5, <1>7, <1>8, <3>1
         DEF GoodRow, Awaits, NeedsConfiguration, PreconditionNow,
             computeFlagFromHasPrecondition
    <3> QED BY <1>5, <1>8, <3>1, <3>2 DEF True, Reached
  <2>3. Whole(r, "busy", {"service"}, m)
    BY <1>7, <1>8 DEF GoodRow, Awaits, Whole
  <2> QED BY <2>1, <2>2, <2>3 DEF GoodRow
<1> QED BY <1>1, <1>3, <1>5, <1>6, <1>9, Continues DEF Read

LEMMA ListServiceInv ==
    ASSUME IInv, NEW r \in Route, ListService(r)
    PROVE  IInv'
<1>1. r \in {"fallback", "view"} /\ "service" \in reads[r]
  BY DEF ListService
<1>2. PICK s \in 1..service :
          /\ getOrCacheService(s)
          /\ Continue(r, [message[r] EXCEPT
                 !.organization = s,
                 !.rptId = Rpt(message[r], message[r].payeeFiscalCode, s),
                 !.has_precondition = @ \/ message[r].tag = "PN"], {})
  BY DEF ListService
<1> DEFINE c == Rpt(message[r], message[r].payeeFiscalCode, s)
           b == message[r].has_precondition \/ message[r].tag = "PN"
           m == [message[r] EXCEPT !.organization = s, !.rptId = c, !.has_precondition = b]
<1>3. /\ Quiet /\ UNCHANGED <<asked, calm>>
      /\ s \in FiscalCode /\ (Coherent => s = service)
  BY <1>2, ServiceRead
<1>4. message[r] \in Message /\ state[r] = "busy"
  BY <1>1, Busy
<1>5. c \in FiscalCode /\ b \in BOOLEAN
  BY <1>3, <1>4, Codes DEF Rpt, Message, IInv
<1>6. Continue(r, m, {})
  BY <1>2, <1>4 DEF Message
<1>7. GoodRow(r, "busy", reads[r], message[r])
  BY <1>4 DEF IInv, Good
<1>8. reads[r] = {"service"}
  BY <1>1, <1>7 DEF GoodRow, Awaits
<1>9. /\ message[r].tag = categoryTag(content.data)
      /\ message[r].payeeFiscalCode = NamedPayee(r)
  BY <1>1, <1>7, <1>8 DEF GoodRow, Paid, Reached
<1> HIDE DEF c, b
<1>10. /\ m \in Message /\ m.organization = s /\ m.rptId = c /\ m.has_precondition = b
       /\ m.tag = message[r].tag /\ m.payeeFiscalCode = message[r].payeeFiscalCode
       /\ m.is_read = message[r].is_read
  BY <1>3, <1>4, <1>5 DEF Message
<1> HIDE DEF m
<1>11. c = Rpt(m, NamedPayee(r), m.organization)
  BY <1>9, <1>10 DEF c, Rpt
<1>12. Awaits(r, "ok", {}) /\ Paid(r, "ok", {}, m)
  BY <1>1, <1>9, <1>10, <1>11 DEF Awaits, Paid
<1>13. ASSUME Current(r) PROVE True(r, "ok", {}, m)
  <2>1. /\ message[r].is_read = isRead /\ s = service
        /\ message[r].has_precondition = PreconditionNow
    BY <1>1, <1>3, <1>7, <1>8, <1>13, InACalm DEF GoodRow, True, Reached
  <2>2. m.has_precondition = (PreconditionNow \/ m.tag = "PN")
    BY <1>10, <2>1 DEF b
  <2> QED BY <1>1, <1>10, <2>1, <2>2 DEF True, Reached
<1>14. Whole(r, "ok", {}, m)
  <2>1. s > 0
    BY Codes DEF IInv
  <2>2. ~NeedsConfiguration => message[r].has_precondition = OwnPrecondition(message[r].is_read)
    BY <1>1, <1>7, <1>8 DEF GoodRow, Whole
  <2> QED BY <1>1, <1>10, <2>1, <2>2 DEF Whole, b
<1> QED BY <1>1, <1>3, <1>6, <1>10, <1>12, <1>13, <1>14, Answers DEF GoodRow

-----------------------------------------------------------------------------
(* The invariant.                                                          *)

LEMMA InitInv == Init => IInv
<1> SUFFICES ASSUME Init PROVE IInv
  OBVIOUS
<1>1. 1 \in 1..MaxVersion /\ 0 \in 0..MaxChanges
  BY EnrichmentAssumption DEF EnrichmentAssumption
<1>2. nothing \in Message
  BY DEF nothing, Message, FiscalCode
<1>3. TypeOK
  BY <1>1, <1>2 DEF Init, TypeOK
<1>4. \A r \in Route : Calm(r) /\ Good(r)
  BY <1>1 DEF Init, Calm, Current, Good, GoodRow, Awaits, Paid, Whole, True, Reached
<1>5. RoutesAgree
  BY DEF Init, RoutesAgree
<1> QED BY <1>3, <1>4, <1>5 DEF IInv

LEMMA AskInv ==
    ASSUME IInv, NEW r \in Route, Ask(r)
    PROVE  IInv'
<1> DEFINE rs == CASE r \in {"detail", "plain"} -> {"document", "content"}
                   [] r = "fallback"            -> {"status"}
                   [] r = "view"                -> {"document"}
<1>0. TypeOK /\ \A q \in Route : Calm(q) /\ Good(q)
  BY DEF IInv
<1>1. rs \in SUBSET Read /\ rs # {}
  BY EnrichmentAssumption DEF EnrichmentAssumption, Read
<1>2. Row(r, "busy", rs, nothing)
  BY <1>1 DEF Ask, Continue, Row
<1>3. nothing \in Message
  BY DEF nothing, Message, FiscalCode
<1>4. /\ UNCHANGED <<content, service, configuration, isRead, viewRead, redisService,
                     redisConfiguration, changes>>
      /\ asked' = [asked EXCEPT ![r] = changes]
      /\ calm' = IF Coherent THEN calm \cup {r} ELSE calm
      /\ state[r] = "idle"
  BY DEF Ask, env
<1>5. /\ Awaits(r, "busy", rs) /\ Paid(r, "busy", rs, nothing)
      /\ Whole(r, "busy", rs, nothing) /\ True(r, "busy", rs, nothing)
  BY EnrichmentAssumption DEF EnrichmentAssumption, Awaits, Paid, Whole, True, Reached
<1> HIDE DEF rs
<1>6. TypeOK'
  BY <1>0, <1>1, <1>2, <1>3, <1>4 DEF TypeOK, Row
<1>7. /\ state'[r] = "busy" /\ reads'[r] = rs /\ message'[r] = nothing /\ asked'[r] = changes
      /\ \A q \in Route \ {r} : /\ state'[q] = state[q] /\ reads'[q] = reads[q]
                                /\ message'[q] = message[q] /\ asked'[q] = asked[q]
                                /\ q \in calm' <=> q \in calm
  BY <1>0, <1>2, <1>4 DEF TypeOK, Row
<1>8. Coherent' <=> Coherent
  BY <1>4 DEF Coherent
<1>9. \A q \in Route : Calm(q)'
  <2>1. Calm(r)'
    BY <1>0, <1>4, <1>6, <1>7, <1>8 DEF Calm, Current, TypeOK
  <2>2. \A q \in Route \ {r} : Calm(q)'
    BY <1>0, <1>4, <1>7, <1>8 DEF Calm, Current
  <2> QED BY <2>1, <2>2
<1>10. \A q \in Route \ {r} : Good(q)'
  <2> SUFFICES ASSUME NEW q \in Route \ {r} PROVE Good(q)'
    OBVIOUS
  <2>1. GoodRow(q, state'[q], reads'[q], message'[q])
    BY <1>0, <1>7 DEF Good
  <2>2. Current(q)' => Current(q)
    BY <1>4, <1>7 DEF Current
  <2> QED BY <1>4, <2>1, <2>2, RowStays DEF Good, GoodRow
<1>11. Good(r)'
  <2>1. GoodRow(r, "busy", rs, nothing)'
    BY <1>4, <1>5, RowStays
  <2> QED BY <1>7, <2>1 DEF Good, GoodRow, Awaits, Paid, Whole, True, Current
<1>12. ASSUME RoutesAgree PROVE RoutesAgree'
  <2> SUFFICES ASSUME NEW p \in Route, NEW q \in Route, p \in calm', q \in calm',
                      state'[p] = "ok", state'[q] = "ok", asked'[p] = asked'[q]
               PROVE  AgreeOf(p, q, message'[p], message'[q])
    BY <1>6 DEF RoutesAgree, AgreeOf, TypeOK
  <2>1. p # r /\ q # r
    BY <1>7
  <2> QED BY <1>7, <1>12, <2>1 DEF RoutesAgree, AgreeOf
<1> QED BY <1>4, <1>6, <1>9, <1>10, <1>11, <1>12 DEF IInv, SamePayee

\* After a change no route is current.
LEMMA ChangedInv ==
    ASSUME IInv, Changed,
           service' \in 1..MaxVersion, configuration' \in HasPrecondition,
           isRead' \in BOOLEAN, viewRead' \in BOOLEAN,
           redisService' \in {Undefined} \cup 1..MaxVersion,
           redisConfiguration' \in {"undefined"} \cup HasPrecondition
    PROVE  IInv'
<1>0. TypeOK /\ \A q \in Route : Calm(q) /\ Good(q)
  BY DEF IInv
<1>1. /\ changes' = changes + 1 /\ changes < MaxChanges /\ changes \in Nat
      /\ calm' = {r \in calm : state[r] # "busy"}
      /\ UNCHANGED <<content, state, reads, message, asked>>
  BY <1>0, EnrichmentAssumption DEF Changed, TypeOK, EnrichmentAssumption
<1>2. changes' \in 0..MaxChanges
  BY <1>1, EnrichmentAssumption DEF EnrichmentAssumption
<1>3. TypeOK'
  BY <1>0, <1>1, <1>2 DEF TypeOK
<1>4. \A q \in Route : asked[q] \in Nat /\ asked[q] <= changes
  BY <1>0, EnrichmentAssumption DEF TypeOK, Calm, EnrichmentAssumption
<1>5. \A q \in Route : ~Current(q)'
  BY <1>1, <1>4 DEF Current
<1>6. \A q \in Route : Calm(q)'
  BY <1>0, <1>1, <1>4, <1>5 DEF Calm
<1>7. \A q \in Route : Good(q)'
  <2> SUFFICES ASSUME NEW q \in Route PROVE Good(q)'
    OBVIOUS
  <2>1. /\ Awaits(q, state[q], reads[q]) /\ Paid(q, state[q], reads[q], message[q])
        /\ Whole(q, state[q], reads[q], message[q])
    BY <1>0 DEF Good, GoodRow
  <2>2. /\ Awaits(q, state'[q], reads'[q])
        /\ Paid(q, state'[q], reads'[q], message'[q])
        /\ Whole(q, state'[q], reads'[q], message'[q])
    BY <1>1, <2>1
  <2> QED BY <1>1, <1>5, <2>2, RowKeeps DEF Good, GoodRow
<1>8. RoutesAgree => RoutesAgree'
  BY <1>1 DEF RoutesAgree
<1> QED BY <1>1, <1>3, <1>6, <1>7, <1>8 DEF IInv, SamePayee

LEMMA EnvironmentInv ==
    ASSUME IInv,
           PublishService \/ PublishConfiguration \/ UpsertStatus \/ UpdateView \/ Refill
    PROVE  IInv'
<1>0. TypeOK /\ Changed
  BY DEF IInv, PublishService, PublishConfiguration, UpsertStatus, UpdateView, Refill
<1>1. CASE PublishService
  <2>1. service' \in 1..MaxVersion
    BY <1>0, <1>1, EnrichmentAssumption DEF PublishService, TypeOK, EnrichmentAssumption
  <2> QED BY <1>0, <1>1, <2>1, ChangedInv DEF PublishService, TypeOK
<1>2. CASE PublishConfiguration
  BY <1>0, <1>2, ChangedInv DEF PublishConfiguration, TypeOK
<1>3. CASE UpsertStatus \/ UpdateView
  BY <1>0, <1>3, ChangedInv DEF UpsertStatus, UpdateView, TypeOK
<1>4. CASE Refill
  <2>1. 1..service \subseteq 1..MaxVersion
    BY <1>0, Codes
  <2> QED BY <1>0, <1>4, <2>1, ChangedInv DEF Refill, TypeOK
<1> QED BY <1>1, <1>2, <1>3, <1>4

LEMMA StepInv == IInv /\ [Next]_vars => IInv'
<1> SUFFICES ASSUME IInv, [Next]_vars PROVE IInv'
  OBVIOUS
<1>1. CASE UNCHANGED vars
  <2>0. TypeOK /\ \A q \in Route : Calm(q) /\ Good(q)
    BY DEF IInv
  <2>1. /\ UNCHANGED <<content, service, configuration, isRead, viewRead, redisService,
                       redisConfiguration, changes, state, reads, message, asked, calm>>
        /\ TypeOK'
    BY <1>1, <2>0 DEF vars, env, hist, TypeOK
  <2>2. \A q \in Route : Calm(q)'
    BY <2>0, <2>1 DEF Calm, Current, Coherent
  <2>3. \A q \in Route : Good(q)'
    <3> SUFFICES ASSUME NEW q \in Route PROVE Good(q)'
      OBVIOUS
    <3>1. GoodRow(q, state'[q], reads'[q], message'[q]) /\ (Current(q)' => Current(q))
      BY <2>0, <2>1 DEF Good, Current
    <3> QED BY <2>1, <3>1, RowStays DEF Good, GoodRow
  <2>4. RoutesAgree => RoutesAgree'
    BY <2>1 DEF RoutesAgree
  <2> QED BY <2>1, <2>2, <2>3, <2>4 DEF IInv, SamePayee
<1>2. ASSUME NEW r \in Route, Request(r) PROVE IInv'
  BY <1>2, AskInv, ReadFailsInv, FindMessageInv, PaymentDataInv, DetailStatusInv,
     DetailServiceInv, FallbackStatusInv, FallbackContentInv, ViewDocumentInv,
     ListConfigurationInv, ListServiceInv
     DEF Request
<1> QED BY <1>1, <1>2, EnvironmentInv DEF Next

\* The invariant is inductive.
THEOREM Inductive == Spec => []IInv
BY InitInv, StepInv, PTL DEF Spec

-----------------------------------------------------------------------------
(* Results.                                                                *)

\* The variables keep their types.
THEOREM TypeCorrect == Spec => []TypeOK
<1>1. IInv => TypeOK
  BY DEF IInv
<1> QED BY <1>1, Inductive, PTL

\* Where the view is not asked, or no content names a payee: routes that were asked in
\* the same calm tell the same of a message.
THEOREM Agreement == ASSUME SamePayee PROVE Spec => []RoutesAgree
<1>1. IInv => RoutesAgree
  BY DEF IInv
<1> QED BY <1>1, Inductive, PTL

\* Routes other than the view have a payment with a payee paid to the payee, whatever
\* happens to the service meanwhile.
THEOREM PaidToThePayee == ASSUME "view" \notin Route PROVE Spec => []PayeeWins
<1>1. ASSUME IInv PROVE PayeeWins
  <2> SUFFICES ASSUME NEW r \in Public, state[r] = "ok", content.payee,
                      message[r].tag = "PAYMENT"
               PROVE  message[r].rptId = Payee
    BY DEF PayeeWins
  <2>1. r \in Route /\ r # "plain" /\ r # "view"
    BY DEF Public
  <2>2. message[r].rptId = Rpt(message[r], NamedPayee(r), message[r].organization)
    BY <1>1, <2>1 DEF IInv, Good, GoodRow, Paid
  <2>3. NamedPayee(r) = Payee
    BY <2>1 DEF NamedPayee
  <2> QED BY <2>2, <2>3 DEF Rpt, Payee, Undefined
<1> QED BY <1>1, Inductive, PTL

\* By any route, a payment without a payee is paid to the organization that is shown.
THEOREM PaidAsShown == Spec => []PaidToTheShown
<1>1. ASSUME IInv PROVE PaidToTheShown
  <2> SUFFICES ASSUME NEW r \in Public, state[r] = "ok", ~content.payee,
                      message[r].tag = "PAYMENT"
               PROVE  message[r].rptId = message[r].organization
    BY DEF PaidToTheShown
  <2>1. r \in Route /\ r # "plain"
    BY DEF Public
  <2>2. message[r].rptId = Rpt(message[r], NamedPayee(r), message[r].organization)
    BY <1>1, <2>1 DEF IInv, Good, GoodRow, Paid
  <2> QED BY <2>2 DEF NamedPayee, Rpt
<1> QED BY <1>1, Inductive, PTL

\* By either source and whatever changes meanwhile, a list item that needs no
\* configuration has the precondition of the is_read that it shows.
THEOREM PreconditionFits == Spec => []PreconditionFitsTheItem
<1>1. ASSUME IInv PROVE PreconditionFitsTheItem
  <2> SUFFICES ASSUME NEW r \in List, state[r] = "ok", ~NeedsConfiguration
               PROVE  message[r].has_precondition =
                          (OwnPrecondition(message[r].is_read) \/ message[r].tag = "PN")
    BY DEF PreconditionFitsTheItem
  <2>1. r \in Route /\ r \in {"fallback", "view"}
    BY DEF List
  <2> QED BY <1>1, <2>1 DEF IInv, Good, GoodRow, Whole
<1> QED BY <1>1, Inductive, PTL

\* However the reads are ordered and whichever fail, a successful answer has the sender,
\* the payee and the configuration id that it needs.
THEOREM WholeAnswers == Spec => []AnswersAreWhole
<1>1. ASSUME IInv PROVE AnswersAreWhole
  <2> SUFFICES ASSUME NEW r \in Route, state[r] = "ok"
               PROVE  /\ r # "plain" => message[r].organization > 0
                      /\ r \notin List /\ NeedsPayee => message[r].payee > 0
                      /\ r \notin List => Identified
    BY DEF AnswersAreWhole, Identified
  <2>1. r \in {"detail", "plain", "fallback", "view"}
    BY EnrichmentAssumption DEF EnrichmentAssumption
  <2>2. Whole(r, "ok", {}, message[r])
    BY <1>1 DEF IInv, Good, GoodRow, Awaits
  <2> QED BY <2>1, <2>2 DEF Whole, Reached, List
<1> QED BY <1>1, Inductive, PTL
=============================================================================
