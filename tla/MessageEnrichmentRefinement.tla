---------------------- MODULE MessageEnrichmentRefinement ----------------------
(***************************************************************************)
(* MessageEnrichment implements CachedLookups: the sender that an answer   *)
(* tells of is that of a lookup, asked for and told while the route was    *)
(* busy.  A step of a route is a step of the lookups of its row; the       *)
(* invariant (Untold) is that no row has a version before it is told it.   *)
(***************************************************************************)
EXTENDS MessageEnrichmentProofs

\* A row tells of a version only after the lookup for it.
UntoldRow(r, st, rs, m) ==
    /\ m.payee > 0 =>
          /\ st # "idle" /\ r \in {"detail", "plain"}
          /\ rs \subseteq {"status", "service"}
    /\ m.organization > 0 =>
          /\ st # "idle"
          /\ rs \subseteq IF r = "detail" THEN {"status"} ELSE {}

Untold(r) == UntoldRow(r, state[r], reads[r], message[r])

UInv == IInv /\ \A r \in Route : Untold(r)

-----------------------------------------------------------------------------
(* The lookups of a row.                                                   *)

Asked     == [key |-> "service", is |-> "asked", version |-> 0]
Told(v)   == [key |-> "service", is |-> "told", version |-> v]
FailedOne == [key |-> "undefined", is |-> "failed", version |-> 0]
Idle      == [key |-> "undefined", is |-> "idle", version |-> 0]

Sender(m, read) == IF read = "payee" THEN m.payee ELSE m.organization

\* LookupOf, of a row.
LookupIn(st, rs, m, read) ==
    IF read \in rs THEN Asked
    ELSE IF Sender(m, read) > 0 THEN Told(Sender(m, read))
    ELSE IF st = "error" THEN FailedOne
    ELSE Idle

\* What a lookup of the service may answer.
Answered == (IF redisService = Undefined THEN {} ELSE {redisService}) \cup {service}

\* One lookup goes from k to l.
Moves(k, l) ==
    \/ l = k
    \/ k.is # "asked" /\ l = Asked
    \/ k.is = "asked" /\ \E v \in Answered : v > 0 /\ l = Told(v)
    \/ l = FailedOne

\* The row of r goes to st, rs, m by moves of its lookups.
RowMoves(r, st, rs, m) ==
    \A read \in {"payee", "service"} : <<r, read>> \in Lookups =>
        Moves(LookupIn(state[r], reads[r], message[r], read), LookupIn(st, rs, m, read))

SenderLookups == [l \in Lookups |-> LookupOf(l[1], l[2])]
Entry == [k \in {"service"} |-> IF redisService = Undefined THEN 0 ELSE redisService]

LEMMA LookupOfRow ==
    ASSUME NEW r, NEW read
    PROVE  LookupOf(r, read) = LookupIn(state[r], reads[r], message[r], read)
BY DEF LookupOf, LookupIn, Sender, Asked, Told, FailedOne, Idle

LEMMA LookupsAre ==
    ASSUME NEW l \in Lookups
    PROVE  l[1] \in Route /\ l[2] \in {"payee", "service"} /\ l = <<l[1], l[2]>>
BY DEF Lookups

\* Lookups that move, over a cache that keeps to what was published.
LEMMA MovesServe ==
    ASSUME TypeOK, service' = service,
           redisService' \in {redisService, Undefined} \cup 1..service,
           \A l \in Lookups : Moves(LookupOf(l[1], l[2]), LookupOf(l[1], l[2])')
    PROVE  Abstract!Serve
<1>1. DOMAIN SenderLookups' = Lookups /\ DOMAIN Entry' = {"service"}
  BY DEF SenderLookups, Entry
<1>2. service \in Nat /\ service > 0
  BY EnrichmentAssumption DEF EnrichmentAssumption, TypeOK
<1>3. Entry'["service"] \in {Entry["service"]} \cup 0..service
  BY <1>2 DEF Entry, Undefined
<1>4. ASSUME NEW l \in Lookups
      PROVE  Abstract!Stay(l) \/ Abstract!Ask(l) \/ Abstract!Tell(l) \/ Abstract!Fail(l)
  <2> DEFINE k == LookupOf(l[1], l[2])
  <2>1. SenderLookups[l] = k /\ SenderLookups'[l] = k'
    BY DEF SenderLookups
  <2>2. Moves(k, k')
    OBVIOUS
  <2> HIDE DEF k
  <2>3. CASE k' = k
    BY <2>1, <2>3 DEF Abstract!Stay, SenderLookups
  <2>4. CASE k.is # "asked" /\ k' = Asked
    BY <2>1, <2>4 DEF Abstract!Ask, Abstract!Lookup, Asked, SenderLookups
  <2>5. CASE k.is = "asked" /\ \E v \in Answered : v > 0 /\ k' = Told(v)
    <3>1. PICK v \in Answered : v > 0 /\ k' = Told(v)
      BY <2>5
    <3>2. k.key = "service"
      BY <2>5 DEF k, LookupOf
    <3>3. v \in {Entry["service"], service}
      BY <3>1 DEF Answered, Entry
    <3> QED BY <2>1, <2>5, <3>1, <3>2, <3>3
            DEF Abstract!Tell, Abstract!Lookup, Told, SenderLookups, Entry
  <2>6. CASE k' = FailedOne
    BY <2>1, <2>6 DEF Abstract!Fail, Abstract!Failed, Abstract!Lookup, FailedOne, SenderLookups
  <2> QED BY <2>2, <2>3, <2>4, <2>5, <2>6 DEF Moves
<1> QED BY <1>1, <1>3, <1>4 DEF Abstract!Serve, SenderLookups, Entry

\* A step of the row of r alone.
LEMMA RowServes ==
    ASSUME UInv, NEW r \in Route, NEW st, NEW rs, NEW m, Row(r, st, rs, m),
           service' = service, redisService' \in {redisService} \cup 1..service,
           UntoldRow(r, st, rs, m), RowMoves(r, st, rs, m)
    PROVE  Abstract!Serve /\ \A q \in Route : Untold(q)'
<1>0. TypeOK /\ \A q \in Route : Untold(q)
  BY DEF UInv, IInv
<1>1. /\ state'[r] = st /\ reads'[r] = rs /\ message'[r] = m
      /\ \A q \in Route \ {r} : /\ state'[q] = state[q] /\ reads'[q] = reads[q]
                                /\ message'[q] = message[q]
  BY <1>0 DEF TypeOK, Row
<1>2. \A q \in Route : Untold(q)'
  BY <1>0, <1>1 DEF Untold, UntoldRow
<1>3. ASSUME NEW l \in Lookups
      PROVE  Moves(LookupOf(l[1], l[2]), LookupOf(l[1], l[2])')
  <2>1. l[1] \in Route /\ l[2] \in {"payee", "service"} /\ <<l[1], l[2]>> \in Lookups
    BY LookupsAre
  <2>2. LookupOf(l[1], l[2])' = LookupIn(state'[l[1]], reads'[l[1]], message'[l[1]], l[2])
    BY DEF LookupOf, LookupIn, Sender, Asked, Told, FailedOne, Idle
  <2>3. CASE l[1] = r
    BY <1>1, <2>1, <2>2, <2>3, LookupOfRow DEF RowMoves
  <2>4. CASE l[1] # r
    BY <1>1, <2>1, <2>2, <2>4, LookupOfRow DEF Moves
  <2> QED BY <2>3, <2>4
<1> QED BY <1>0, <1>2, <1>3, MovesServe

-----------------------------------------------------------------------------
(* The ways a step ends.                                                   *)

\* A read of the cache of the sender, or of anything else, leaves the service.
LEMMA SenderRead ==
    ASSUME NEW s \in 1..service, getOrCacheService(s)
    PROVE  /\ service' = service /\ redisService' \in {redisService} \cup 1..service
           /\ s \in Answered
BY DEF getOrCacheService, Answered

LEMMA OtherRead ==
    ASSUME UNCHANGED <<content, env, hist>>
           \/ \E p \in HasPrecondition : getOrCacheRCConfiguration(p)
    PROVE  service' = service /\ redisService' = redisService
BY DEF env, getOrCacheRCConfiguration

\* A request that fails fails the lookups that it awaits and has not made.
LEMMA FailServes ==
    ASSUME UInv, NEW r \in Route, reads[r] # {}, Fail(r),
           service' = service, redisService' \in {redisService} \cup 1..service
    PROVE  Abstract!Serve /\ \A q \in Route : Untold(q)'
<1>1. state[r] = "busy" /\ message[r] \in Message /\ reads[r] \in SUBSET Read
  BY Busy DEF UInv
<1>2. Row(r, "error", {}, message[r])
  BY DEF Row, Fail, UInv, IInv, TypeOK
<1>3. UntoldRow(r, "error", {}, message[r])
  BY DEF UInv, Untold, UntoldRow
<1>4. RowMoves(r, "error", {}, message[r])
  <2> SUFFICES ASSUME NEW read \in {"payee", "service"}
               PROVE  Moves(LookupIn(state[r], reads[r], message[r], read),
                            LookupIn("error", {}, message[r], read))
    BY DEF RowMoves
  <2>1. CASE Sender(message[r], read) > 0
    <3>1. read \notin reads[r]
      BY <2>1 DEF UInv, Untold, UntoldRow, Sender
    <3> QED BY <2>1, <3>1 DEF Moves, LookupIn
  <2>2. CASE ~(Sender(message[r], read) > 0)
    BY <2>2 DEF Moves, LookupIn
  <2> QED BY <2>1, <2>2
<1> QED BY <1>2, <1>3, <1>4, RowServes

\* A request that goes on tells what its lookups have been told now or before.
LEMMA ContinueServes ==
    ASSUME UInv, NEW r \in Route, reads[r] # {},
           NEW m \in Message, NEW rs, Continue(r, m, rs),
           service' = service, redisService' \in {redisService} \cup 1..service,
           UntoldRow(r, "busy", rs, m),
           \A read \in {"payee", "service"} : <<r, read>> \in Lookups =>
              \/ /\ read \in reads[r] /\ read \notin rs
                 /\ Sender(m, read) \in Answered
              \/ /\ read \in reads[r] => read \in rs
                 /\ \/ Sender(m, read) = Sender(message[r], read)
                    \/ ~(Sender(m, read) > 0) /\ ~(Sender(message[r], read) > 0)
    PROVE  Abstract!Serve /\ \A q \in Route : Untold(q)'
<1> DEFINE st == IF rs = {} THEN "ok" ELSE "busy"
<1>1. state[r] = "busy" /\ message[r] \in Message /\ reads[r] \in SUBSET Read
  BY Busy DEF UInv
<1>2. Row(r, st, rs, m)
  BY DEF Row, Continue
<1>3. UntoldRow(r, st, rs, m)
  BY DEF UntoldRow
<1>4. \A v \in Answered : v > 0
  BY DEF Answered, UInv, IInv, TypeOK, Undefined
<1>5. RowMoves(r, st, rs, m)
  <2> SUFFICES ASSUME NEW read \in {"payee", "service"}, <<r, read>> \in Lookups
               PROVE  Moves(LookupIn(state[r], reads[r], message[r], read),
                            LookupIn(st, rs, m, read))
    BY DEF RowMoves
  <2>1. st # "error"
    OBVIOUS
  <2> HIDE DEF st
  <2>2. CASE read \in reads[r] /\ read \notin rs
    <3>1. Sender(m, read) \in Answered /\ Sender(m, read) > 0
      BY <1>4, <2>2
    <3>2. LookupIn(st, rs, m, read) = Told(Sender(m, read))
      BY <2>2, <3>1 DEF LookupIn
    <3>3. LookupIn(state[r], reads[r], message[r], read).is = "asked"
      BY <2>2 DEF LookupIn, Asked
    <3> QED BY <3>1, <3>2, <3>3 DEF Moves
  <2>3. CASE read \in reads[r] /\ read \in rs
    BY <2>3 DEF Moves, LookupIn
  <2>4. CASE read \notin reads[r] /\ read \in rs
    BY <2>4 DEF Moves, LookupIn, Asked, Told, FailedOne, Idle
  <2>5. CASE read \notin reads[r] /\ read \notin rs
    BY <1>1, <2>1, <2>5 DEF Moves, LookupIn
  <2> QED BY <2>2, <2>3, <2>4, <2>5
<1> HIDE DEF st
<1> QED BY <1>2, <1>3, <1>5, RowServes

-----------------------------------------------------------------------------
(* GetMessage.                                                             *)

Served == Abstract!Serve /\ \A q \in Route : Untold(q)'

LEMMA AskServes ==
    ASSUME UInv, NEW r \in Route, Ask(r)
    PROVE  Served
<1> DEFINE rs == CASE r \in {"detail", "plain"} -> {"document", "content"}
                   [] r = "fallback"            -> {"status"}
                   [] r = "view"                -> {"document"}
<1>1. rs \in {{"document", "content"}, {"status"}, {"document"}}
  BY EnrichmentAssumption DEF EnrichmentAssumption
<1>2. Continue(r, nothing, rs) /\ state[r] = "idle"
  BY DEF Ask
<1> HIDE DEF rs
<1>3. Row(r, "busy", rs, nothing)
  BY <1>1, <1>2 DEF Continue, Row
<1>4. service' = service /\ redisService' = redisService
  BY DEF Ask, env
<1>5. reads[r] = {}
  BY <1>2 DEF UInv, IInv, Good, GoodRow, Awaits
<1>6. UntoldRow(r, "busy", rs, nothing)
  BY DEF UntoldRow, nothing, Undefined
<1>7. RowMoves(r, "busy", rs, nothing)
  <2> SUFFICES ASSUME NEW read \in {"payee", "service"}
               PROVE  Moves(LookupIn("idle", {}, message[r], read),
                            LookupIn("busy", rs, nothing, read))
    BY <1>2, <1>5 DEF RowMoves
  <2>1. ~(Sender(message[r], read) > 0)
    BY <1>2 DEF UInv, Untold, UntoldRow, Sender
  <2>2. ~(Sender(nothing, read) > 0)
    BY DEF Sender, nothing, Undefined
  <2> QED BY <1>1, <2>1, <2>2 DEF Moves, LookupIn
<1> QED BY <1>3, <1>4, <1>6, <1>7, RowServes DEF Served

LEMMA ReadFailsServes ==
    ASSUME UInv, NEW r \in Route, ReadFails(r)
    PROVE  Served
BY OtherRead, FailServes DEF ReadFails, Served

\* The end of GetMessage: told of what has been told, or failed.
LEMMA ThirdPartyDataServes ==
    ASSUME UInv, NEW r \in Route, reads[r] # {},
           NEW m \in Message, getErrorOrMaybeThirdPartyData(r, m),
           service' = service, redisService' \in {redisService} \cup 1..service,
           UntoldRow(r, "busy", {}, m),
           \A read \in {"payee", "service"} : <<r, read>> \in Lookups =>
              \/ /\ read \in reads[r]
                 /\ Sender(m, read) \in Answered
              \/ /\ read \notin reads[r]
                 /\ \/ Sender(m, read) = Sender(message[r], read)
                    \/ ~(Sender(m, read) > 0) /\ ~(Sender(message[r], read) > 0)
    PROVE  Served
<1>1. Fail(r) \/ Continue(r, m, {})
  BY DEF getErrorOrMaybeThirdPartyData
<1>2. CASE Fail(r)
  BY <1>2, FailServes DEF Served
<1>3. CASE Continue(r, m, {})
  BY <1>3, ContinueServes DEF Served
<1> QED BY <1>1, <1>2, <1>3

\* After the payment data, the payee being told now or there being none to tell.
LEMMA PublicDataServes ==
    ASSUME UInv, NEW r \in Route, r \in {"detail", "plain"}, reads[r] # {},
           NEW m \in Message, PublicData(r, m),
           service' = service, redisService' \in {redisService} \cup 1..service,
           "service" \notin reads[r], ~(m.organization > 0),
           ~(message[r].organization > 0),
           \/ "payee" \in reads[r] /\ m.payee \in Answered
           \/ "payee" \notin reads[r] /\ ~(m.payee > 0) /\ ~(message[r].payee > 0)
    PROVE  Served
<1>1. CASE r = "detail"
  <2>1. Continue(r, m, {"status", "service"})
    BY <1>1 DEF PublicData
  <2>2. UntoldRow(r, "busy", {"status", "service"}, m)
    BY <1>1 DEF UntoldRow
  <2> QED BY <2>1, <2>2, ContinueServes DEF Served, Sender
<1>2. CASE r = "plain"
  <2>1. getErrorOrMaybeThirdPartyData(r, m)
    BY <1>2 DEF PublicData
  <2>2. UntoldRow(r, "busy", {}, m)
    BY <1>2 DEF UntoldRow
  <2> QED BY <2>1, <2>2, ThirdPartyDataServes DEF Sender
<1> QED BY <1>1, <1>2

\* Before the reads of the sender nothing has been told.
LEMMA Nothing ==
    ASSUME UInv, NEW r \in Route
    PROVE  /\ ~(reads[r] \subseteq {"status", "service"}) => ~(message[r].payee > 0)
           /\ ~(reads[r] \subseteq {"status"}) => ~(message[r].organization > 0)
           /\ r \in List /\ reads[r] # {} => ~(message[r].organization > 0)
           /\ r \in List => ~(message[r].payee > 0)
           /\ r \in {"detail", "plain"} /\ reads[r] \cap {"document", "content"} # {} =>
                 "payee" \notin reads[r] /\ "service" \notin reads[r]
           /\ "payee" \in reads[r] => "service" \notin reads[r]
<1>1. Awaits(r, state[r], reads[r]) /\ UntoldRow(r, state[r], reads[r], message[r])
  BY DEF UInv, IInv, Good, GoodRow, Untold
<1>2. r \in {"detail", "plain", "fallback", "view"}
  BY EnrichmentAssumption DEF EnrichmentAssumption
<1> QED BY <1>1, <1>2 DEF Awaits, UntoldRow, List

LEMMA FindMessageServes ==
    ASSUME UInv, NEW r \in Route, FindMessage(r)
    PROVE  Served
<1>1. service' = service /\ redisService' = redisService /\ r \in {"detail", "plain"}
  BY OtherRead DEF FindMessage
<1>2. PICK read \in reads[r] \cap {"document", "content"} :
          IF reads[r] # {read} THEN Continue(r, message[r], reads[r] \ {read})
          ELSE IF NeedsPayee THEN Continue(r, message[r], {"payee"})
          ELSE PublicData(r, [message[r] EXCEPT
                   !.payee = IF "payment_data" \in content.data THEN Payee ELSE Undefined])
  BY DEF FindMessage
<1>3. /\ ~(message[r].payee > 0) /\ ~(message[r].organization > 0)
      /\ "payee" \notin reads[r] /\ "service" \notin reads[r]
  BY <1>1, <1>2, Nothing
<1>4. reads[r] # {} /\ message[r] \in Message
  BY <1>2, Busy DEF UInv
<1>5. CASE reads[r] # {read} \/ NeedsPayee
  <2>1. PICK rs : Continue(r, message[r], rs)
    BY <1>2, <1>5
  <2>2. UntoldRow(r, "busy", rs, message[r])
    BY <1>3 DEF UntoldRow
  <2> QED BY <1>1, <1>3, <1>4, <2>1, <2>2, ContinueServes DEF Served
<1>6. CASE reads[r] = {read} /\ ~NeedsPayee
  <2> DEFINE c == IF "payment_data" \in content.data THEN Payee ELSE Undefined
             m == [message[r] EXCEPT !.payee = c]
  <2>1. PublicData(r, m)
    BY <1>2, <1>6
  <2>2. c \in FiscalCode /\ ~(c > 0)
    BY DEF FiscalCode, Payee, Undefined
  <2> HIDE DEF c
  <2>3. m \in Message /\ m.payee = c /\ m.organization = message[r].organization
    BY <1>4, <2>2 DEF Message
  <2> HIDE DEF m
  <2> QED BY <1>1, <1>3, <1>4, <2>1, <2>2, <2>3, PublicDataServes
<1> QED BY <1>5, <1>6

LEMMA PaymentDataServes ==
    ASSUME UInv, NEW r \in Route, getErrorOrPaymentData(r)
    PROVE  Served
<1>1. PICK s \in 1..service :
          getOrCacheService(s) /\ PublicData(r, [message[r] EXCEPT !.payee = s])
  BY DEF getErrorOrPaymentData
<1>2. /\ service' = service /\ redisService' \in {redisService} \cup 1..service
      /\ s \in Answered
  BY <1>1, SenderRead
<1>3. s \in FiscalCode
  BY Codes DEF UInv, IInv
<1>4. r \in {"detail", "plain"} /\ "payee" \in reads[r] /\ message[r] \in Message
  BY Busy DEF getErrorOrPaymentData, UInv
<1> DEFINE m == [message[r] EXCEPT !.payee = s]
<1>5. m \in Message /\ m.payee = s /\ m.organization = message[r].organization
  BY <1>3, <1>4 DEF Message
<1>6. ~(message[r].organization > 0) /\ "service" \notin reads[r]
  BY <1>4, Nothing
<1>7. PublicData(r, m)
  BY <1>1
<1> HIDE DEF m
<1> QED BY <1>2, <1>4, <1>5, <1>6, <1>7, PublicDataServes

\* One of the two reads of the public attributes is answered, with the message m.
LEMMA EnrichedServes ==
    ASSUME UInv, NEW r \in Route, r = "detail",
           NEW read \in {"status", "service"}, read \in reads[r],
           NEW m \in Message, Enriched(r, read, m), m.payee = message[r].payee,
           service' = service, redisService' \in {redisService} \cup 1..service,
           \/ read = "service" /\ m.organization \in Answered
           \/ read = "status" /\ m.organization = message[r].organization
    PROVE  Served
<1>1. UntoldRow(r, state[r], reads[r], message[r]) /\ Awaits(r, state[r], reads[r])
  BY DEF UInv, Untold, IInv, Good, GoodRow
<1>2. reads[r] \subseteq {"status", "service"}
  BY <1>1 DEF Awaits
<1>3. ASSUME NEW rs \in SUBSET (reads[r] \ {read})
      PROVE  UntoldRow(r, "busy", rs, m)
  BY <1>1, <1>2 DEF UntoldRow
<1>4. CASE reads[r] # {read}
  <2>1. Continue(r, m, reads[r] \ {read})
    BY <1>4 DEF Enriched
  <2>2. \A q \in {"payee", "service"} :
          \/ q \in reads[r] /\ q \notin reads[r] \ {read} /\ Sender(m, q) \in Answered
          \/ (q \in reads[r] => q \in reads[r] \ {read})
             /\ Sender(m, q) = Sender(message[r], q)
    BY <1>2 DEF Sender
  <2> QED BY <1>3, <2>1, <2>2, ContinueServes DEF Served
<1>5. CASE reads[r] = {read}
  <2> DEFINE t == [m EXCEPT !.tag = mapMessageCategory(content).tag]
             c == Rpt(t, IF content.payee THEN Payee ELSE Undefined, t.organization)
             n == [t EXCEPT !.rptId = c]
  <2>1. getErrorOrMaybeThirdPartyData(r, n)
    BY <1>5 DEF Enriched
  <2>2. mapMessageCategory(content).tag \in Tag
    BY ContentFacts DEF mapMessageCategory, UInv, IInv
  <2>3. t \in Message /\ t.organization = m.organization /\ t.payee = m.payee
    BY <2>2 DEF Message, Tag
  <2>4. c \in FiscalCode
    BY <2>3 DEF Rpt, FiscalCode, Message
  <2> HIDE DEF t, c
  <2>5. n \in Message /\ n.organization = m.organization /\ n.payee = m.payee
    BY <2>3, <2>4 DEF Message
  <2> HIDE DEF n
  <2>6. UntoldRow(r, "busy", {}, n)
    BY <1>3, <2>5 DEF UntoldRow
  <2>7. \A q \in {"payee", "service"} :
          \/ q \in reads[r] /\ Sender(n, q) \in Answered
          \/ q \notin reads[r] /\ Sender(n, q) = Sender(message[r], q)
    BY <1>2, <1>5, <2>5 DEF Sender
  <2> QED BY <2>1, <2>5, <2>6, <2>7, ThirdPartyDataServes
<1> QED BY <1>4, <1>5

LEMMA DetailStatusServes ==
    ASSUME UInv, NEW r \in Route, DetailStatus(r)
    PROVE  Served
<1>1. service' = service /\ redisService' = redisService
  BY OtherRead DEF DetailStatus
<1>2. /\ r = "detail" /\ "status" \in reads[r] /\ message[r] \in Message
      /\ isRead \in BOOLEAN
  BY Busy DEF DetailStatus, UInv, IInv, TypeOK
<1> DEFINE m == [message[r] EXCEPT !.is_read = isRead]
<1>3. /\ m \in Message /\ m.payee = message[r].payee
      /\ m.organization = message[r].organization
  BY <1>2 DEF Message
<1>4. Enriched(r, "status", m)
  BY DEF DetailStatus
<1> HIDE DEF m
<1> QED BY <1>1, <1>2, <1>3, <1>4, EnrichedServes

LEMMA DetailServiceServes ==
    ASSUME UInv, NEW r \in Route, DetailService(r)
    PROVE  Served
<1>1. PICK s \in 1..service :
          /\ getOrCacheService(s)
          /\ Enriched(r, "service", [message[r] EXCEPT !.organization = s])
  BY DEF DetailService
<1>2. /\ service' = service /\ redisService' \in {redisService} \cup 1..service
      /\ s \in Answered
  BY <1>1, SenderRead
<1>3. /\ r = "detail" /\ "service" \in reads[r] /\ message[r] \in Message
      /\ s \in FiscalCode
  BY Busy, Codes DEF DetailService, UInv, IInv
<1> DEFINE m == [message[r] EXCEPT !.organization = s]
<1>4. m \in Message /\ m.payee = message[r].payee /\ m.organization = s
  BY <1>3 DEF Message
<1>5. Enriched(r, "service", m)
  BY <1>1
<1> HIDE DEF m
<1> QED BY <1>2, <1>3, <1>4, <1>5, EnrichedServes

-----------------------------------------------------------------------------
(* GetMessages.                                                            *)

\* A list item before its service: the sender has not been looked up.
LEMMA ItemServes ==
    ASSUME UInv, NEW r \in List, reads[r] # {}, "service" \notin reads[r],
           NEW m \in Message, NEW rs, Continue(r, m, rs),
           m.payee = message[r].payee, m.organization = message[r].organization,
           service' = service, redisService' = redisService
    PROVE  Served
<1>1. r \in Route /\ r \in List /\ <<r, "payee">> \notin Lookups
  BY DEF List, Lookups
<1>2. ~(message[r].organization > 0) /\ ~(message[r].payee > 0)
  BY <1>1, Nothing
<1>3. UntoldRow(r, "busy", rs, m)
  BY <1>2 DEF UntoldRow
<1> QED BY <1>1, <1>3, ContinueServes DEF Served, Sender

LEMMA FallbackStatusServes ==
    ASSUME UInv, NEW r \in Route, FallbackStatus(r)
    PROVE  Served
<1>1. service' = service /\ redisService' = redisService
  BY OtherRead DEF FallbackStatus
<1>2. /\ r \in List /\ "status" \in reads[r] /\ message[r] \in Message
      /\ isRead \in BOOLEAN
  BY Busy DEF FallbackStatus, List, UInv, IInv, TypeOK
<1>3. "service" \notin reads[r]
  <2>1. r = "fallback" /\ Awaits(r, state[r], reads[r])
    BY DEF FallbackStatus, UInv, IInv, Good, GoodRow
  <2> QED BY <1>2, <2>1 DEF Awaits
<1> DEFINE m == [message[r] EXCEPT !.is_read = isRead]
<1>4. /\ m \in Message /\ m.payee = message[r].payee
      /\ m.organization = message[r].organization
  BY <1>2 DEF Message
<1>5. Continue(r, m, {"content"})
  BY DEF FallbackStatus
<1> HIDE DEF m
<1> QED BY <1>1, <1>2, <1>3, <1>4, <1>5, ItemServes

LEMMA WithCategoryServes ==
    ASSUME UInv, NEW r \in List, reads[r] # {}, "service" \notin reads[r],
           NEW read \in BOOLEAN, NEW c, WithCategory(r, read, c),
           c.tag = categoryTag(content.data), c.payeeFiscalCode = NamedPayee(r),
           service' = service, redisService' = redisService
    PROVE  Served
<1> DEFINE m == [message[r] EXCEPT !.is_read = read, !.tag = c.tag,
                                   !.payeeFiscalCode = c.payeeFiscalCode,
                                   !.has_precondition = OwnPrecondition(read)]
           rs == IF NeedsConfiguration THEN {"configuration"} ELSE {"service"}
<1>1. Continue(r, m, rs)
  BY DEF WithCategory
<1>2. /\ c.tag \in Tag /\ c.payeeFiscalCode \in FiscalCode
      /\ OwnPrecondition(read) \in BOOLEAN /\ message[r] \in Message
  BY ContentFacts, Codes, Busy
     DEF UInv, IInv, NamedPayee, OwnPrecondition, computeFlagFromHasPrecondition, List
<1>3. /\ m \in Message /\ m.payee = message[r].payee
      /\ m.organization = message[r].organization
  BY <1>2 DEF Message, Tag
<1> HIDE DEF m, rs
<1> QED BY <1>1, <1>3, ItemServes

LEMMA FallbackContentServes ==
    ASSUME UInv, NEW r \in Route, FallbackContent(r)
    PROVE  Served
<1> DEFINE c == mapMessageCategory(content)
<1>1. service' = service /\ redisService' = redisService
  BY OtherRead DEF FallbackContent
<1>2. /\ r = "fallback" /\ "content" \in reads[r] /\ message[r] \in Message
      /\ WithCategory(r, message[r].is_read, c)
  BY Busy DEF FallbackContent, UInv
<1>3. r \in List /\ message[r].is_read \in BOOLEAN
  BY <1>2 DEF List, Message
<1>4. "service" \notin reads[r]
  <2>1. Awaits(r, state[r], reads[r])
    BY DEF UInv, IInv, Good, GoodRow
  <2> QED BY <1>2, <2>1 DEF Awaits
<1>5. c.tag = categoryTag(content.data) /\ c.payeeFiscalCode = NamedPayee(r)
  BY <1>2 DEF mapMessageCategory, NamedPayee
<1> HIDE DEF c
<1> QED BY <1>1, <1>2, <1>3, <1>4, <1>5, WithCategoryServes

LEMMA ViewDocumentServes ==
    ASSUME UInv, NEW r \in Route, ViewDocument(r)
    PROVE  Served
<1> DEFINE c == toCategory(content)
<1>1. service' = service /\ redisService' = redisService
  BY OtherRead DEF ViewDocument
<1>2. /\ r = "view" /\ "document" \in reads[r] /\ WithCategory(r, viewRead, c)
      /\ viewRead \in BOOLEAN
  BY DEF ViewDocument, UInv, IInv, TypeOK
<1>3. r \in List
  BY <1>2 DEF List
<1>4. "service" \notin reads[r]
  <2>1. Awaits(r, state[r], reads[r])
    BY DEF UInv, IInv, Good, GoodRow
  <2> QED BY <1>2, <2>1 DEF Awaits
<1>5. c.tag = categoryTag(content.data) /\ c.payeeFiscalCode = NamedPayee(r)
  BY <1>2 DEF toCategory, NamedPayee
<1> HIDE DEF c
<1> QED BY <1>1, <1>2, <1>3, <1>4, <1>5, WithCategoryServes

LEMMA ListConfigurationServes ==
    ASSUME UInv, NEW r \in Route, ListConfiguration(r)
    PROVE  Served
<1>1. PICK p \in HasPrecondition :
          /\ getOrCacheRCConfiguration(p)
          /\ Continue(r, [message[r] EXCEPT
                 !.has_precondition = computeFlagFromHasPrecondition(p, message[r].is_read)],
                 {"service"})
  BY DEF ListConfiguration
<1> DEFINE m == [message[r] EXCEPT
                    !.has_precondition = computeFlagFromHasPrecondition(p, message[r].is_read)]
<1>2. service' = service /\ redisService' = redisService
  BY <1>1, OtherRead
<1>3. "configuration" \in reads[r] /\ message[r] \in Message
  BY Busy DEF ListConfiguration, UInv
<1>4. /\ m \in Message /\ m.payee = message[r].payee
      /\ m.organization = message[r].organization
  BY <1>3 DEF Message, computeFlagFromHasPrecondition
<1>5. r \in List /\ "service" \notin reads[r]
  <2>1. Awaits(r, state[r], reads[r])
    BY DEF UInv, IInv, Good, GoodRow
  <2> QED BY <1>3, <2>1, EnrichmentAssumption DEF EnrichmentAssumption, Awaits, List
<1>6. Continue(r, m, {"service"})
  BY <1>1
<1> HIDE DEF m
<1> QED BY <1>2, <1>3, <1>4, <1>5, <1>6, ItemServes

LEMMA ListServiceServes ==
    ASSUME UInv, NEW r \in Route, ListService(r)
    PROVE  Served
<1>1. PICK s \in 1..service :
          /\ getOrCacheService(s)
          /\ Continue(r, [message[r] EXCEPT
                 !.organization = s,
                 !.rptId = Rpt(message[r], message[r].payeeFiscalCode, s),
                 !.has_precondition = @ \/ message[r].tag = "PN"], {})
  BY DEF ListService
<1> DEFINE c == Rpt(message[r], message[r].payeeFiscalCode, s)
           b == message[r].has_precondition \/ message[r].tag = "PN"
           m == [message[r] EXCEPT !.organization = s, !.rptId = c, !.has_precondition = b]
<1>2. /\ service' = service /\ redisService' \in {redisService} \cup 1..service
      /\ s \in Answered /\ s \in FiscalCode
  BY <1>1, SenderRead, Codes DEF UInv, IInv
<1>3. r \in {"fallback", "view"} /\ "service" \in reads[r] /\ message[r] \in Message
  BY Busy DEF ListService, UInv
<1>4. c \in FiscalCode /\ b \in BOOLEAN
  BY <1>2, <1>3, Codes DEF Rpt, Message, UInv, IInv
<1>5. Continue(r, m, {})
  BY <1>1, <1>3 DEF Message
<1> HIDE DEF c, b
<1>6. m \in Message /\ m.organization = s /\ m.payee = message[r].payee
  BY <1>2, <1>3, <1>4 DEF Message
<1> HIDE DEF m
<1>7. r \in List /\ <<r, "payee">> \notin Lookups
  BY <1>3 DEF List, Lookups
<1>8. UntoldRow(r, "busy", {}, m)
  BY <1>6, <1>7, Nothing DEF UntoldRow
<1>9. Sender(m, "service") \in Answered
  BY <1>2, <1>6 DEF Sender
<1> QED BY <1>2, <1>3, <1>5, <1>6, <1>7, <1>8, <1>9, ContinueServes DEF Served

-----------------------------------------------------------------------------
(* The refinement.                                                         *)

\* What happens around the requests publishes the service, refills its entry or does
\* not concern the lookups.
LEMMA WorldServes ==
    ASSUME UInv,
           PublishService \/ PublishConfiguration \/ UpsertStatus \/ UpdateView \/ Refill
    PROVE  [Abstract!Next]_(Abstract!vars) /\ \A q \in Route : Untold(q)'
<1>0. TypeOK /\ UNCHANGED <<state, reads, message>>
  BY DEF UInv, IInv, PublishService, PublishConfiguration, UpsertStatus, UpdateView,
         Refill, Changed
<1>1. \A q \in Route : Untold(q)'
  BY <1>0 DEF UInv, Untold, UntoldRow
<1>2. \A l \in Lookups : LookupOf(l[1], l[2])' = LookupOf(l[1], l[2])
  BY <1>0 DEF LookupOf
<1>3. SenderLookups' = SenderLookups
  BY <1>2 DEF SenderLookups
<1>4. CASE PublishService
  <2>1. service' = service + 1 /\ Entry' = Entry
    BY <1>4 DEF PublishService, Entry
  <2>2. Abstract!Publish("service")
    BY <1>3, <2>1 DEF Abstract!Publish, SenderLookups, Entry
  <2> QED BY <1>1, <2>2 DEF Abstract!Next
<1>5. CASE PublishConfiguration \/ UpsertStatus \/ UpdateView
  <2>1. service' = service /\ Entry' = Entry
    BY <1>5 DEF PublishConfiguration, UpsertStatus, UpdateView, Entry
  <2> QED BY <1>1, <1>3, <2>1 DEF Abstract!vars, SenderLookups, Entry
<1>6. CASE Refill
  <2>1. service' = service /\ redisService' \in {redisService, Undefined} \cup 1..service
    BY <1>6 DEF Refill
  <2>2. \A l \in Lookups : Moves(LookupOf(l[1], l[2]), LookupOf(l[1], l[2])')
    BY <1>2 DEF Moves
  <2> QED BY <1>0, <1>1, <2>1, <2>2, MovesServe DEF Abstract!Next
<1> QED BY <1>4, <1>5, <1>6

LEMMA StepServes ==
    ASSUME UInv, [Next]_vars
    PROVE  [Abstract!Next]_(Abstract!vars) /\ \A q \in Route : Untold(q)'
<1>1. CASE UNCHANGED vars
  <2>1. UNCHANGED <<state, reads, message, service, redisService>>
    BY <1>1 DEF vars, env
  <2>2. \A q \in Route : Untold(q)'
    BY <2>1 DEF UInv, Untold, UntoldRow
  <2>3. \A l \in Lookups : LookupOf(l[1], l[2])' = LookupOf(l[1], l[2])
    BY <2>1 DEF LookupOf
  <2>4. SenderLookups' = SenderLookups /\ Entry' = Entry
    BY <2>1, <2>3 DEF SenderLookups, Entry
  <2> QED BY <2>1, <2>2, <2>4 DEF Abstract!vars, SenderLookups, Entry
<1>2. ASSUME NEW r \in Route, Request(r)
      PROVE  Served
  BY <1>2, AskServes, ReadFailsServes, FindMessageServes, PaymentDataServes,
     DetailStatusServes, DetailServiceServes, FallbackStatusServes,
     FallbackContentServes, ViewDocumentServes, ListConfigurationServes,
     ListServiceServes DEF Request
<1> QED BY <1>1, <1>2, WorldServes DEF Next, Served, Abstract!Next

LEMMA InitServes == Init => Abstract!Init /\ \A r \in Route : Untold(r)
<1> SUFFICES ASSUME Init PROVE Abstract!Init /\ \A r \in Route : Untold(r)
  OBVIOUS
<1>1. \A r \in Route : Untold(r)
  BY DEF Init, Untold, UntoldRow, nothing, Undefined
<1>2. ASSUME NEW l \in Lookups
      PROVE  LookupOf(l[1], l[2]) = [key |-> "undefined", is |-> "idle", version |-> 0]
  <2>1. l[1] \in Route
    BY LookupsAre
  <2>2. /\ state[l[1]] = "idle" /\ reads[l[1]] = {}
        /\ message[l[1]].payee = -1 /\ message[l[1]].organization = -1
    BY <2>1 DEF Init, nothing, Undefined
  <2> QED BY <2>2 DEF LookupOf
<1>3. service \in Nat /\ redisService = Undefined
  BY DEF Init
<1> QED BY <1>1, <1>2, <1>3 DEF Abstract!Init, Abstract!Lookup

\* The invariant of this refinement.
THEOREM UntoldInductive == Spec => []UInv
<1>1. Init => UInv
  BY InitInv, InitServes DEF UInv
<1>2. UInv /\ [Next]_vars => UInv'
  BY StepInv, StepServes DEF UInv
<1> QED BY <1>1, <1>2, PTL DEF Spec

\* Every organization that a route tells of is one that its lookup of the sender was
\* told, at one moment of the request, by the cache or the collection.
THEOREM Implements == Spec => ImplementsCachedLookups
<1>1. Init => Abstract!Init
  BY InitServes
<1>2. UInv /\ [Next]_vars => [Abstract!Next]_(Abstract!vars)
  BY StepServes
<1> QED BY <1>1, <1>2, UntoldInductive, PTL DEF Spec, ImplementsCachedLookups, Abstract!Spec
=============================================================================
