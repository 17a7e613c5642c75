----------------------------- MODULE GetMessages ------------------------------
(***************************************************************************)
(* A user's app pages through the messages of a citizen with GET messages, *)
(* each page asking, with maximum_id, for what comes after the last one,   *)
(* while messages arrive and are archived.  A page is built by             *)
(* getMessagesFromFallback (messages container, then the statuses of every *)
(* chunk, then the contents) or by getMessagesFromView (one container that *)
(* is updated some time after the statuses).  The pages of a session need  *)
(* not be built alike: enrichment is asked for by the request, and the     *)
(* source depends on configuration that a restart of the app may change.   *)
(*                                                                         *)
(* Ids are numbers: the ULIDs of messages are ordered, and the queries     *)
(* answer by descending id.  No step reorders, so the results of a page    *)
(* are kept as a set.                                                      *)
(***************************************************************************)
EXTENDS Integers, FiniteSets

CONSTANTS
    Id,                     \* message ids
    Top,                    \* no maximum_id: above every id
    Source,                 \* how pages may be built: see SourceAssumption
    shouldGetArchivedMessages,
    minimumId,              \* 0 if not given
    pageSize,
    MaxChunk,               \* most documents Cosmos answers at a time
    MaxEvents               \* bound: changes of the collections in a session

ASSUME IdAssumption == IsFiniteSet(Id) /\ Top \in Nat \ {0} /\ Id \subseteq 1 .. Top - 1
\* From the view, or by the fallback with enrichment, or without ("plain").
ASSUME SourceAssumption == Source \subseteq {"view", "fallback", "plain"}
ASSUME RequestAssumption ==
    /\ shouldGetArchivedMessages \in BOOLEAN
    /\ minimumId \in Nat /\ pageSize \in Nat /\ MaxChunk \in Nat \ {0}
    /\ MaxEvents \in Nat

VARIABLES
    messages,       \* the messages container: what it has under each id
    archived,       \* isArchived in the last version of the status
    view,           \* the message-view container
    events,         \* (bound) changes so far
    pc,             \* where the session is
    source,         \* how the page is built
    maximumId,      \* the cursor of the request, above every id at first
    position,       \* the iterator of the query has passed these ids
    chunk,          \* the messages of the chunk being enriched
    results,        \* what the page has so far
    failed,         \* the E.left elements among them
    listed,         \* all the session has listed
    stable,         \* (history) ids listable, by any source, since the session began
    listable        \* (history) ids that were listable, by some source, at some time

env    == <<messages, archived, view, events>>
page   == <<source, maximumId, position, chunk, results, failed, listed>>
hist   == <<stable, listable>>
vars   == <<env, pc, page, hist>>

box == IF shouldGetArchivedMessages THEN "archived" ELSE "inbox"

\* What the view says of a message once it has followed its status.
viewOf(i) == IF archived[i] THEN "archived" ELSE "inbox"

\* The messages of the requested box, as the containers that source c reads have them.
Listable(c, ms, ar, vw) ==
    {i \in Id : /\ i > minimumId
                /\ IF c = "view" THEN vw[i] = box
                   ELSE ms[i] = "sent" /\ ar[i] = shouldGetArchivedMessages}

AllListable(ms, ar, vw) == {i \in Id : \A c \in Source : i \in Listable(c, ms, ar, vw)}
SomeListable(ms, ar, vw) == {i \in Id : \E c \in Source : i \in Listable(c, ms, ar, vw)}

Init ==
    /\ messages \in [Id -> {"absent", "sent", "pending"}]
    /\ archived \in [Id -> BOOLEAN]
    /\ \A i \in Id : archived[i] => messages[i] = "sent"
    /\ view = [i \in Id |-> IF messages[i] = "sent" THEN viewOf(i) ELSE "absent"]
    /\ events = 0
    /\ pc = "ask"
    /\ source \in Source
    /\ maximumId = Top
    /\ position = Top
    /\ chunk = {} /\ results = {} /\ failed = {} /\ listed = {}
    /\ stable = AllListable(messages, archived, view)
    /\ listable = SomeListable(messages, archived, view)

-----------------------------------------------------------------------------
(* The services around (external): messages are sent, processed, archived  *)
(* (MessageStatus), and the view follows.                                  *)

Happens ==
    /\ events < MaxEvents
    /\ events' = events + 1
    /\ stable' = stable \cap AllListable(messages', archived', view')
    /\ listable' = listable \cup SomeListable(messages', archived', view')
    /\ UNCHANGED <<pc, page>>

\* A message is stored, pending, or in a form this release cannot decode.
Send(i) ==
    /\ messages[i] = "absent"
    /\ \E s \in {"pending", "undecodable"} :
          messages' = [messages EXCEPT ![i] = s]
    /\ UNCHANGED <<archived, view>>
    /\ Happens

Process(i) ==
    /\ messages[i] = "pending"
    /\ messages' = [messages EXCEPT ![i] = "sent"]
    /\ UNCHANGED <<archived, view>>
    /\ Happens

Archive(i) ==
    /\ messages[i] = "sent"
    /\ archived' = [archived EXCEPT ![i] = ~archived[i]]
    /\ UNCHANGED <<messages, view>>
    /\ Happens

UpdateView(i) ==
    /\ messages[i] = "sent" /\ view[i] # viewOf(i)
    /\ view' = [view EXCEPT ![i] = viewOf(i)]
    /\ UNCHANGED <<messages, archived>>
    /\ Happens

-----------------------------------------------------------------------------
(* One request.                                                            *)

\* The documents of the query that the iterator has not passed.
queryPage == {i \in Id :
    /\ i < position /\ i > minimumId
    /\ IF source = "view" THEN view[i] # "absent" ELSE messages[i] # "absent"}

\* Mutation: the query takes maximum_id in, id <= maximumId.
AskIncluding ==
    /\ pc = "ask"
    /\ pc' = "query"
    /\ source' \in Source
    /\ position' = maximumId + 1
    /\ chunk' = {} /\ results' = {} /\ failed' = {}
    /\ UNCHANGED <<env, maximumId, listed, hist>>

\* findMessages or queryPage: id < maximumId, id > minimumId, by descending id.
Ask ==
    /\ pc = "ask"
    /\ pc' = "query"
    /\ source' \in Source
    /\ position' = maximumId
    /\ chunk' = {} /\ results' = {} /\ failed' = {}
    /\ UNCHANGED <<env, maximumId, listed, hist>>

\* The page has all it needs: pageSize elements and the one that shows there are more.
enough == Cardinality(results) > pageSize

\* The iterator is pulled: Cosmos answers some of the next documents, docs.
Pull(docs) ==
    /\ pc = "query" /\ ~enough
    /\ Cardinality(docs) \in 1..MaxChunk
    /\ \A i \in docs, j \in queryPage \ docs : i > j
    /\ \E last \in docs :
          /\ \A i \in docs : last <= i
          /\ position' = last

\* Mutation: the view is not filtered.
NextOfWholeView ==
    /\ source = "view"
    /\ \E docs \in SUBSET queryPage :
          /\ Pull(docs)
          /\ results' = results \cup docs
    /\ UNCHANGED <<env, pc, source, maximumId, chunk, failed, listed, hist>>

\* getMessagesFromView filters on the status the documents have.
NextOfView ==
    /\ source = "view"
    /\ \E docs \in SUBSET queryPage :
          /\ Pull(docs)
          /\ results' = results \cup {i \in docs : view[i] = box}
    /\ UNCHANGED <<env, pc, source, maximumId, chunk, failed, listed, hist>>

\* getMessagesFromFallback drops what does not decode, and pending messages.
NextOfMessages ==
    /\ source # "view"
    /\ \E docs \in SUBSET queryPage :
          /\ Pull(docs)
          /\ chunk' = {i \in docs : messages[i] = "sent"}
    /\ pc' = "enrich"
    /\ UNCHANGED <<env, source, maximumId, results, failed, listed, hist>>

\* No enrichment is requested: the messages as they are.
Wrap ==
    /\ pc = "enrich" /\ source = "plain"
    /\ results' = results \cup chunk
    /\ pc' = "query"
    /\ UNCHANGED <<env, source, maximumId, position, chunk, failed, listed, hist>>

\* Mutation: the messages are not filtered.
enrichOnly ==
    /\ pc = "enrich" /\ source = "fallback"
    /\ pc' = "content"
    /\ UNCHANGED <<env, source, maximumId, position, chunk, results, failed, listed, hist>>

\* enrichMessagesStatus, filterMessages: the last statuses, read after the messages.
enrichMessagesStatus ==
    /\ pc = "enrich" /\ source = "fallback"
    /\ chunk' = {i \in chunk : archived[i] = shouldGetArchivedMessages}
    /\ pc' = "content"
    /\ UNCHANGED <<env, source, maximumId, position, results, failed, listed, hist>>

\* Mutation: errors are filtered away.
StatusFailsFiltered ==
    /\ pc = "enrich" /\ source = "fallback"
    /\ pc' = "query"
    /\ UNCHANGED <<env, source, maximumId, position, chunk, results, failed, listed, hist>>

\* The statuses cannot be read or decoded: every message of the chunk is an error,
\* and errors are never filtered away.
StatusFails ==
    /\ pc = "enrich" /\ source = "fallback"
    /\ results' = results \cup chunk
    /\ failed' = failed \cup chunk
    /\ pc' = "query"
    /\ UNCHANGED <<env, source, maximumId, position, chunk, listed, hist>>

\* enrichContentData: the content (or the precondition) of some cannot be read.
enrichContentData ==
    /\ pc = "content"
    /\ results' = results \cup chunk
    /\ \E bad \in SUBSET chunk : failed' = failed \cup bad
    /\ pc' = "query"
    /\ UNCHANGED <<env, source, maximumId, position, chunk, listed, hist>>

\* Mutation: the element that shows there are more is on the page.
pageAndOneMore == {i \in results : Cardinality({j \in results : j > i}) <= pageSize}

\* The first pageSize elements.
pageResults == {i \in results : Cardinality({j \in results : j > i}) < pageSize}

PageBuilt == pc = "query" /\ (enough \/ queryPage = {})

\* A page with an error is not answered at all: "Cannot enrich data".  The app asks
\* for the same page again, later.
AnswerError ==
    /\ PageBuilt /\ pageResults \cap failed # {}
    /\ pc' = "ask"
    /\ UNCHANGED <<env, page, hist>>

\* A query that fails, or an enrichment whose promise is rejected (no content, no
\* status, the precondition of a page of the view).
RequestFails ==
    /\ pc \in {"query", "enrich", "content"}
    /\ pc' = "ask"
    /\ UNCHANGED <<env, page, hist>>

\* Mutation: `next` is where the iterator is.
AnswerPosition ==
    /\ PageBuilt /\ pageResults \cap failed = {}
    /\ enough /\ pageResults # {}
    /\ maximumId' = position
    /\ listed' = listed \cup pageResults
    /\ pc' = "ask"
    /\ UNCHANGED <<env, source, position, chunk, results, failed, hist>>

\* toPageResults: `next` is the last id of the page, if there are more results ...
AnswerPage ==
    /\ PageBuilt /\ pageResults \cap failed = {}
    /\ enough
    /\ \E next \in pageResults :
          /\ \A i \in pageResults : next <= i
          /\ maximumId' = next
    /\ listed' = listed \cup pageResults
    /\ pc' = "ask"
    /\ UNCHANGED <<env, source, position, chunk, results, failed, hist>>

\* ... and undefined otherwise: the session ends.
AnswerLastPage ==
    /\ PageBuilt /\ pageResults \cap failed = {}
    /\ ~enough \/ pageResults = {}
    /\ listed' = listed \cup pageResults
    /\ pc' = "end"
    /\ UNCHANGED <<env, source, maximumId, position, chunk, results, failed, hist>>

Request ==
    \/ Ask \/ NextOfView \/ NextOfMessages \/ Wrap
    \/ enrichMessagesStatus \/ StatusFails \/ enrichContentData
    \/ AnswerError \/ RequestFails \/ AnswerPage \/ AnswerLastPage

Next ==
    \/ \E i \in Id : Send(i) \/ Process(i) \/ Archive(i) \/ UpdateView(i)
    \/ Request

Spec == Init /\ [][Next]_vars

-----------------------------------------------------------------------------
(* Correctness.                                                            *)

\* The type of every variable.
TypeOK ==
    /\ messages \in [Id -> {"absent", "sent", "pending", "undecodable"}]
    /\ archived \in [Id -> BOOLEAN]
    /\ view \in [Id -> {"absent", "inbox", "archived"}]
    /\ events \in 0..MaxEvents
    /\ pc \in {"ask", "query", "enrich", "content", "end"}
    /\ source \in Source
    /\ maximumId \in 1..Top /\ position \in 1..Top
    /\ {chunk, results, failed, listed, stable, listable} \subseteq SUBSET Id

\* When the session ends (a page without `next`), every message that was there, in
\* the requested box, from the first request on, has been listed: no cursor, chunk
\* boundary, filter or failed and repeated page has skipped it.
ListsEverything == pc = "end" => stable \subseteq listed

\* Only messages of the requested box are listed: at some time of the session each
\* was there.  (The fallback without enrichment does not look at the statuses.)
ListsTheRequestedBox == listed \subseteq listable

\* The pages go back in time, and no message is listed twice, whatever arrives or is
\* archived meanwhile: what a request collects is older than all that was listed.
PagesGoBack ==
    pc \in {"query", "enrich", "content"} =>
        \A i \in results \cup chunk, j \in listed : i < j

Abstract == INSTANCE Listing
                WITH cursor   <- maximumId,
                     ended    <- pc = "end",
                     ofTheBox <- "plain" \notin Source

\* The queries, chunks, filters, sources, failures and repeated requests of a session
\* amount to pages of one step: each but the last has exactly pageSize messages and
\* skips none down to its cursor, and a request that fails has done nothing.
ImplementsListing == Abstract!Spec

=============================================================================
