--------------------------- MODULE MessageEnrichment ---------------------------
(***************************************************************************)
(* One message, asked for through every route the app has: GetMessage with *)
(* public_message ("detail") and without ("plain"), and GetMessages with   *)
(* enrichment, from the containers ("fallback") or from the view ("view"). *)
(* Each route enriches the message with a sequence of reads of its own,    *)
(* while services and configurations are published and the message is      *)
(* read.                                                                   *)
(*                                                                         *)
(* The n-th version of the sender service has the organization fiscal code *)
(* n.  A read through the cache is one step here: ReadThroughCache has the *)
(* steps of it, and Refill what the others make of the cache.              *)
(***************************************************************************)
EXTENDS Integers, FiniteSets

CONSTANTS
    Route,          \* the routes that are taken
    Contents,       \* contents the message may have
    isPN,           \* the sender is the service PN_SERVICE_ID
    isMapped,       \* the sender is in SERVICE_TO_RC_CONFIGURATION_MAP
    MaxVersion,     \* bound: versions of the service
    MaxChanges      \* bound: changes of service, configuration and status

\* The data of a message: the parts of its content that are there and decode.  A content
\* with a part that does not decode is none: its read fails (getContentFromBlob).
Data == {"eu_covid_cert", "legal_data", "third_party_data", "payment_data"}
HasPrecondition == {"ALWAYS", "ONCE", "NEVER"}

ContentType == [data : SUBSET Data,
                payee : BOOLEAN,                \* payment_data has one
                has_precondition : HasPrecondition \cup {"undefined"},
                configuration_id : BOOLEAN]     \* third_party_data has one

ASSUME EnrichmentAssumption ==
    /\ Route \subseteq {"detail", "plain", "fallback", "view"}
    /\ Contents \subseteq ContentType
    /\ {isPN, isMapped} \subseteq BOOLEAN
    /\ MaxVersion \in Nat \ {0} /\ MaxChanges \in Nat

\* Fiscal codes that are not of the service.
Payee == 0
Undefined == -1
FiscalCode == {Undefined, Payee} \cup 1..MaxVersion

VARIABLES
    content,        \* the content of the message
    service,        \* last version of the sender service
    configuration,  \* hasPrecondition of the configuration
    isRead,         \* isRead of the last status
    viewRead,       \* status.read of the view
    redisService,   \* cached service, or Undefined
    redisConfiguration,
    changes,        \* changes so far
    state,          \* per route: "idle", "busy", "ok" or "error"
    reads,          \* per route: reads that are outstanding
    message,        \* per route: the message as enriched so far
    asked,          \* (history) per route: the changes there had been when it asked
    calm            \* (history) routes that nothing has changed under

env  == <<service, configuration, isRead, viewRead, redisService, redisConfiguration>>
hist == <<changes, asked, calm>>
vars == <<content, env, state, reads, message, hist>>

Read == {"document", "content", "payee", "status", "configuration", "service"}

Message == [tag : {"EU_COVID_CERT", "LEGAL_MESSAGE", "PN", "GENERIC", "PAYMENT"},
            payeeFiscalCode : FiscalCode,
            is_read : BOOLEAN,
            has_precondition : BOOLEAN,
            payee : FiscalCode,         \* of the payment data
            organization : FiscalCode,  \* organization_fiscal_code
            rptId : FiscalCode]         \* its organization part

nothing == [tag |-> "GENERIC", payeeFiscalCode |-> Undefined, is_read |-> FALSE,
            has_precondition |-> FALSE, payee |-> Undefined,
            organization |-> Undefined, rptId |-> Undefined]

-----------------------------------------------------------------------------
(* Categories and preconditions.                                           *)

\* messageCategoryMappings, in this order; getThirdPartyDataWithCategoryFetcher.
precedence == [eu_covid_cert |-> 1, legal_data |-> 2, third_party_data |-> 3,
               payment_data |-> 4]
tag == [eu_covid_cert |-> "EU_COVID_CERT", legal_data |-> "LEGAL_MESSAGE",
        third_party_data |-> IF isPN THEN "PN" ELSE "GENERIC",
        payment_data |-> "PAYMENT"]

\* The first mapping that decodes is of the first of the data.  A mapping that does not
\* decode leaves `undefined`, which the filter on InternalMessageCategory drops; of the
\* data that are there it drops nothing.
First(data) == CHOOSE d \in data : \A e \in data : precedence[d] <= precedence[e]

categoryTag(data) == IF data = {} THEN "GENERIC" ELSE tag[First(data)]

\* Mutation: the order of the mappings is ignored.
mapAnyCategory(c) ==
    [tag |-> IF "payment_data" \in c.data THEN "PAYMENT" ELSE categoryTag(c.data),
     payeeFiscalCode |-> IF c.payee THEN Payee ELSE Undefined]

\* Mutation: the category has no payee.
mapWithoutPayee(c) == [tag |-> categoryTag(c.data), payeeFiscalCode |-> Undefined]

mapMessageCategory(c) ==
    [tag |-> categoryTag(c.data),
     payeeFiscalCode |-> IF c.payee THEN Payee ELSE Undefined]

\* The view looks at which components a message has, in the same order and without a
\* filter; its categories carry the notice number only.
toCategory(c) == [tag |-> categoryTag(c.data), payeeFiscalCode |-> Undefined]

computeFlagFromHasPrecondition(p, read) == p = "ALWAYS" \/ (p = "ONCE" /\ ~read)

\* payeeFiscalCode ?? organizationFiscalCode, of a payment.
Rpt(m, payeeFiscalCode, organization) ==
    IF m.tag # "PAYMENT" THEN Undefined
    ELSE IF payeeFiscalCode # Undefined THEN payeeFiscalCode ELSE organization

\* The configuration is needed for a third party message that does not say
\* has_precondition itself.
NeedsConfiguration ==
    "third_party_data" \in content.data /\ content.has_precondition = "undefined"

\* has_precondition of a list item, when the configuration is not needed.
OwnPrecondition(read) ==
    /\ "third_party_data" \in content.data
    /\ computeFlagFromHasPrecondition(content.has_precondition, read)

NeedsPayee == "payment_data" \in content.data /\ ~content.payee

-----------------------------------------------------------------------------
Init ==
    /\ content \in Contents
    /\ service = 1
    /\ configuration \in HasPrecondition
    /\ isRead \in BOOLEAN /\ viewRead = isRead
    /\ redisService = Undefined
    /\ redisConfiguration = "undefined"
    /\ changes = 0
    /\ state = [r \in Route |-> "idle"]
    /\ reads = [r \in Route |-> {}]
    /\ message = [r \in Route |-> nothing]
    /\ asked = [r \in Route |-> 0]
    /\ calm = {}

(* What happens around the requests (external).                            *)

Changed ==
    /\ changes < MaxChanges
    /\ changes' = changes + 1
    /\ calm' = {r \in calm : state[r] # "busy"}
    /\ UNCHANGED <<content, state, reads, message, asked>>

PublishService ==
    /\ service < MaxVersion
    /\ service' = service + 1
    /\ Changed
    /\ UNCHANGED <<configuration, isRead, viewRead, redisService, redisConfiguration>>

PublishConfiguration ==
    /\ configuration' \in HasPrecondition \ {configuration}
    /\ Changed
    /\ UNCHANGED <<service, isRead, viewRead, redisService, redisConfiguration>>

UpsertStatus ==
    /\ isRead' = ~isRead
    /\ Changed
    /\ UNCHANGED <<service, configuration, viewRead, redisService, redisConfiguration>>

UpdateView ==
    /\ viewRead # isRead
    /\ viewRead' = isRead
    /\ Changed
    /\ UNCHANGED <<service, configuration, isRead, redisService, redisConfiguration>>

\* Entries expire, and other requests fill the cache, with what is or was published.
Refill ==
    /\ redisService' \in {Undefined} \cup 1..service
    /\ redisConfiguration' \in {"undefined", configuration}
    /\ <<redisService', redisConfiguration'>> # <<redisService, redisConfiguration>>
    /\ Changed
    /\ UNCHANGED <<service, configuration, isRead, viewRead>>

-----------------------------------------------------------------------------
(* Reads.                                                                  *)

\* What the caches and the view tell is what is.
Coherent ==
    /\ redisService \in {Undefined, service}
    /\ redisConfiguration \in {"undefined", configuration}
    /\ viewRead = isRead

\* Goes on to the reads rs with the message m, or answers it.
Continue(r, m, rs) ==
    /\ message' = [message EXCEPT ![r] = m]
    /\ reads' = [reads EXCEPT ![r] = rs]
    /\ state' = [state EXCEPT ![r] = IF rs = {} THEN "ok" ELSE "busy"]

Fail(r) ==
    /\ reads' = [reads EXCEPT ![r] = {}]
    /\ state' = [state EXCEPT ![r] = "error"]
    /\ UNCHANGED message

\* Mutation: an empty answer is cached, too.
getOrCacheEmpty(s) ==
    /\ s = IF redisService # Undefined THEN redisService ELSE service
    /\ redisService' \in {redisService, s, 0}
    /\ UNCHANGED <<content, service, configuration, isRead, viewRead, redisConfiguration,
                   hist>>

\* Mutation: an entry that has expired is answered.
getOrCacheExpired(s) ==
    /\ s \in 1..service
    /\ redisService' \in {redisService, s}
    /\ UNCHANGED <<content, service, configuration, isRead, viewRead, redisConfiguration,
                   hist>>

\* getOrCacheService answers s.
getOrCacheService(s) ==
    /\ s = IF redisService # Undefined THEN redisService ELSE service
    /\ redisService' \in {redisService, s}      \* the SET may fail
    /\ UNCHANGED <<content, service, configuration, isRead, viewRead, redisConfiguration,
                   hist>>

\* getOrCacheRCConfigurationWithFallback answers p, for a known configuration id.
getOrCacheRCConfiguration(p) ==
    /\ content.configuration_id \/ isMapped
    /\ p = IF redisConfiguration # "undefined" THEN redisConfiguration ELSE configuration
    /\ redisConfiguration' \in {redisConfiguration, p}
    /\ UNCHANGED <<content, service, configuration, isRead, viewRead, redisService, hist>>

Ask(r) ==
    /\ state[r] = "idle"
    /\ Continue(r, nothing,
                CASE r \in {"detail", "plain"} -> {"document", "content"}
                  [] r = "fallback"            -> {"status"}
                  [] r = "view"                -> {"document"})
    /\ asked' = [asked EXCEPT ![r] = changes]
    /\ calm' = IF Coherent THEN calm \cup {r} ELSE calm
    /\ UNCHANGED <<content, env, changes>>

\* Any read may fail or find nothing, and the request is answered with an error; so
\* is one for a configuration without an id.
ReadFails(r) ==
    /\ reads[r] # {}
    /\ Fail(r)
    /\ UNCHANGED <<content, env, hist>>

-----------------------------------------------------------------------------
(* GetMessage.                                                             *)

\* The last check: a configuration id for third party data.
getErrorOrMaybeThirdPartyData(r, m) ==
    IF "third_party_data" \in content.data /\ ~content.configuration_id /\ ~isMapped
    THEN Fail(r)
    ELSE Continue(r, m, {})

\* After the payment data: the public attributes, if they are asked for.
PublicData(r, m) ==
    IF r = "detail" THEN Continue(r, m, {"status", "service"})
    ELSE getErrorOrMaybeThirdPartyData(r, m)

\* The document and the content, in parallel, in either order.
FindMessage(r) ==
    /\ r \in {"detail", "plain"}
    /\ \E read \in reads[r] \cap {"document", "content"} :
          IF reads[r] # {read} THEN Continue(r, message[r], reads[r] \ {read})
          ELSE IF NeedsPayee THEN Continue(r, message[r], {"payee"})
          ELSE PublicData(r, [message[r] EXCEPT
                   !.payee = IF "payment_data" \in content.data THEN Payee ELSE Undefined])
    /\ UNCHANGED <<content, env, hist>>

\* getErrorOrPaymentData: the payee is the organization of the sender.
getErrorOrPaymentData(r) ==
    /\ r \in {"detail", "plain"} /\ "payee" \in reads[r]
    /\ \E s \in 1..service :
          /\ getOrCacheService(s)
          /\ PublicData(r, [message[r] EXCEPT !.payee = s])

\* Mutation: the rptId is of the payee of the payment data, of the other lookup.
EnrichedWithPayee(r, read, m) ==
    IF reads[r] # {read} THEN Continue(r, m, reads[r] \ {read})
    ELSE LET t == [m EXCEPT !.tag = mapMessageCategory(content).tag]
         IN  getErrorOrMaybeThirdPartyData(r, [t EXCEPT
                 !.rptId = Rpt(t, t.payee, t.organization)])

\* Mutation: the answer is made when the first of the two reads has been answered.
EnrichedFirst(r, read, m) ==
    LET t == [m EXCEPT !.tag = mapMessageCategory(content).tag]
    IN  getErrorOrMaybeThirdPartyData(r, [t EXCEPT
            !.rptId = Rpt(t, IF content.payee THEN Payee ELSE Undefined, t.organization)])

\* The category is mapped once both reads, in parallel, have been answered.
Enriched(r, read, m) ==
    IF reads[r] # {read} THEN Continue(r, m, reads[r] \ {read})
    ELSE LET t == [m EXCEPT !.tag = mapMessageCategory(content).tag]
         IN  getErrorOrMaybeThirdPartyData(r, [t EXCEPT
                 !.rptId = Rpt(t, IF content.payee THEN Payee ELSE Undefined,
                               t.organization)])

DetailStatus(r) ==
    /\ r = "detail" /\ "status" \in reads[r]
    /\ Enriched(r, "status", [message[r] EXCEPT !.is_read = isRead])
    /\ UNCHANGED <<content, env, hist>>

DetailService(r) ==
    /\ r = "detail" /\ "service" \in reads[r]
    /\ \E s \in 1..service :
          /\ getOrCacheService(s)
          /\ Enriched(r, "service", [message[r] EXCEPT !.organization = s])

-----------------------------------------------------------------------------
(* GetMessages.                                                            *)

\* enrichMessagesStatus.
FallbackStatus(r) ==
    /\ r = "fallback" /\ "status" \in reads[r]
    /\ Continue(r, [message[r] EXCEPT !.is_read = isRead], {"content"})
    /\ UNCHANGED <<content, env, hist>>

\* Mutation: the precondition is of the last status, and not of the one in the item.
WithCategoryNow(r, read, c) ==
    LET m == [message[r] EXCEPT !.is_read = read, !.tag = c.tag,
                                !.payeeFiscalCode = c.payeeFiscalCode,
                                !.has_precondition = OwnPrecondition(isRead)]
    IN  Continue(r, m, IF NeedsConfiguration THEN {"configuration"} ELSE {"service"})

\* A list item has its category c; its precondition is asked for when it is needed.
WithCategory(r, read, c) ==
    LET m == [message[r] EXCEPT !.is_read = read, !.tag = c.tag,
                                !.payeeFiscalCode = c.payeeFiscalCode,
                                !.has_precondition = OwnPrecondition(read)]
    IN  Continue(r, m, IF NeedsConfiguration THEN {"configuration"} ELSE {"service"})

\* enrichContentData.
FallbackContent(r) ==
    /\ r = "fallback" /\ "content" \in reads[r]
    /\ WithCategory(r, message[r].is_read, mapMessageCategory(content))
    /\ UNCHANGED <<content, env, hist>>

\* toEnrichedMessageWithContent.
ViewDocument(r) ==
    /\ r = "view" /\ "document" \in reads[r]
    /\ WithCategory(r, viewRead, toCategory(content))
    /\ UNCHANGED <<content, env, hist>>

\* getHasPreconditionFlagForMessagesFallback, getHasPreconditionFlagForMessagesFromView.
ListConfiguration(r) ==
    /\ "configuration" \in reads[r]
    /\ \E p \in HasPrecondition :
          /\ getOrCacheRCConfiguration(p)
          /\ Continue(r, [message[r] EXCEPT
                 !.has_precondition = computeFlagFromHasPrecondition(p, message[r].is_read)],
                 {"service"})

\* enrichServiceData.
ListService(r) ==
    /\ r \in {"fallback", "view"} /\ "service" \in reads[r]
    /\ \E s \in 1..service :
          /\ getOrCacheService(s)
          /\ Continue(r, [message[r] EXCEPT
                 !.organization = s,
                 !.rptId = Rpt(message[r], message[r].payeeFiscalCode, s),
                 !.has_precondition = @ \/ message[r].tag = "PN"], {})

Request(r) ==
    \/ Ask(r) \/ ReadFails(r)
    \/ FindMessage(r) \/ getErrorOrPaymentData(r) \/ DetailStatus(r) \/ DetailService(r)
    \/ FallbackStatus(r) \/ FallbackContent(r) \/ ViewDocument(r)
    \/ ListConfiguration(r) \/ ListService(r)

Next ==
    \/ PublishService \/ PublishConfiguration \/ UpsertStatus \/ UpdateView \/ Refill
    \/ \E r \in Route : Request(r)

Spec == Init /\ [][Next]_vars

-----------------------------------------------------------------------------
(* Correctness.                                                            *)

\* The type of every variable.
TypeOK ==
    /\ content \in Contents
    /\ service \in 1..MaxVersion
    /\ configuration \in HasPrecondition
    /\ isRead \in BOOLEAN /\ viewRead \in BOOLEAN
    /\ redisService \in {Undefined} \cup 1..MaxVersion
    /\ redisConfiguration \in {"undefined"} \cup HasPrecondition
    /\ changes \in 0..MaxChanges
    /\ state \in [Route -> {"idle", "busy", "ok", "error"}]
    /\ reads \in [Route -> SUBSET Read]
    /\ message \in [Route -> Message]
    /\ asked \in [Route -> 0..MaxChanges]
    /\ calm \subseteq Route

Public == Route \ {"plain"}
List == Route \cap {"fallback", "view"}

\* Routes asked in the same calm tell the same of the message: the same category,
\* rptId, organization and is_read, the lists the same has_precondition, and the
\* payee of the payment data is the one of the rptId.
RoutesAgree ==
    \A r, s \in calm :
        state[r] = "ok" /\ state[s] = "ok" /\ asked[r] = asked[s] =>
            /\ {r, s} \subseteq Public =>
                  \A a \in {"tag", "rptId", "organization", "is_read"} :
                      message[r][a] = message[s][a]
            /\ {r, s} \subseteq List =>
                  message[r].has_precondition = message[s].has_precondition
            /\ r \notin List /\ s \in Public /\ message[s].tag = "PAYMENT" =>
                  message[r].payee = message[s].rptId

\* A payment with a payee is paid to the payee, whatever the service is.
\* (GetMessages/__tests__/handler.test.ts:807)
PayeeWins ==
    \A r \in Public :
        state[r] = "ok" /\ content.payee /\ message[r].tag = "PAYMENT" =>
            message[r].rptId = Payee

\* A payment without a payee is paid to the organization the answer shows, even if the
\* service is published or its entry expires while the answer is made.
PaidToTheShown ==
    \A r \in Public :
        state[r] = "ok" /\ ~content.payee /\ message[r].tag = "PAYMENT" =>
            message[r].rptId = message[r].organization

\* The payee that a detail puts into the payment data is the organization that it shows
\* (GetMessage/__tests__/handler.test.ts:282-290).  The two are looked up one after
\* the other, and may be of different versions.
OneSender ==
    \A r \in Route \cap {"detail"} :
        state[r] = "ok" /\ NeedsPayee => message[r].payee = message[r].organization

\* The precondition of a list item is that of the is_read in the same item, whenever the
\* message is read or the view follows while the item is made: an item with ONCE is never
\* shown unread and without its precondition, nor read and with it.
\* (computeFlagFromHasPrecondition, of the status of enrichMessagesStatus or the view)
PreconditionFitsTheItem ==
    \A r \in List :
        state[r] = "ok" /\ ~NeedsConfiguration =>
            message[r].has_precondition =
                (OwnPrecondition(message[r].is_read) \/ message[r].tag = "PN")

\* A successful answer is whole, whichever reads are in parallel, come first or fail: a
\* public one has the organization, the payment data of GetMessage have their payee, and
\* its third party data a configuration id.  (GetMessage/handler.ts:206-357)
AnswersAreWhole ==
    \A r \in Route : state[r] = "ok" =>
        /\ r # "plain" => message[r].organization > 0
        /\ r \notin List /\ NeedsPayee => message[r].payee > 0
        /\ r \notin List /\ "third_party_data" \in content.data =>
              content.configuration_id \/ isMapped

\* A list looks the sender up for its item, GetMessage for its payment data and, with
\* public_message, once more.
Lookups == {l \in Route \X {"payee", "service"} :
               /\ l[1] \in List => l[2] = "service"
               /\ l[1] = "plain" => l[2] = "payee"}

\* What a lookup of route r has been asked and told: the version it is told of is an
\* organization fiscal code of the message.
LookupOf(r, read) ==
    LET Lookup(k, is, v) == [key |-> k, is |-> is, version |-> v]
        told == IF read = "payee" THEN message[r].payee ELSE message[r].organization
    IN  IF read \in reads[r] THEN Lookup("service", "asked", 0)
        ELSE IF told > 0 THEN Lookup("service", "told", told)
        ELSE IF state[r] = "error" THEN Lookup("undefined", "failed", 0)
        ELSE Lookup("undefined", "idle", 0)

Abstract == INSTANCE CachedLookups
                WITH Key <- {"service"}, Reader <- Lookups, undefined <- "undefined",
                     db     <- [k \in {"service"} |-> service],
                     entry  <- [k \in {"service"} |->
                                   IF redisService = Undefined THEN 0 ELSE redisService],
                     lookup <- [l \in Lookups |-> LookupOf(l[1], l[2])]

\* However the routes order their reads and fail, the senders they tell of are those
\* of the cached lookups they have made, each told one version that was published
\* when the lookup was answered.
ImplementsCachedLookups == Abstract!Spec
=============================================================================
