------------------------------ MODULE EagerPage -------------------------------
(***************************************************************************)
(* getMessagesFromFallback, inside: enrichContentData starts the contents  *)
(* of a whole chunk at once, one promise per message, and                  *)
(* asyncIteratorToPageArray awaits them one by one.  Promises settle in    *)
(* any order, and go on when nobody awaits them any more.  Several         *)
(* requests share one Node process, which may end on a promise that is     *)
(* rejected while no one awaits it, and then loses them all.               *)
(*                                                                         *)
(* Messages are positions in the list of a user; the first are the newest. *)
(***************************************************************************)
EXTENDS Integers, Sequences, FiniteSets

CONSTANTS
    Request,
    Last,               \* documents the query finds
    MaxChunk,           \* most documents Cosmos answers at a time
    PageSize,           \* the values of page_size, 0 among them
    noContent,          \* messages whose content is not in the blob storage
    needsConfiguration  \* messages whose precondition the configuration tells

Message == 1..Last

ASSUME SizeAssumption ==
    Last \in Nat /\ MaxChunk \in Nat \ {0} /\ PageSize \subseteq Nat
ASSUME ContentAssumption ==
    noContent \subseteq Message /\ needsConfiguration \subseteq Message

VARIABLES
    pc,         \* what each request is suspended on
    pageSize,   \* its page_size
    position,   \* documents it has read
    chunk,      \* the messages of its last chunk
    awaited,    \* those of them the page has not collected
    promise,    \* the promise of every message
    results,    \* the messages collected, in order
    answer,     \* how it ended
    next,       \* the cursor it answered, 0 if none
    unhandled   \* promises rejected when no one awaited them

work == <<pc, pageSize, position, chunk, awaited, results, answer, next>>
vars == <<work, promise, unhandled>>

Settled == {"right", "left"}
Running == {"content", "configuration"}

Init ==
    /\ pc        = [r \in Request |-> "idle"]
    /\ pageSize  = [r \in Request |-> 0]
    /\ position  = [r \in Request |-> 0]
    /\ chunk     = [r \in Request |-> {}]
    /\ awaited   = [r \in Request |-> {}]
    /\ promise   = [r \in Request |-> [m \in Message |-> "none"]]
    /\ results   = [r \in Request |-> <<>>]
    /\ answer    = [r \in Request |-> "none"]
    /\ next      = [r \in Request |-> 0]
    /\ unhandled = {}

\* The element the page is waiting for.
IsAwaited(r, m) ==
    /\ pc[r] = "await"
    /\ m \in awaited[r]
    /\ \A n \in awaited[r] : m <= n

Answer(r, a) ==
    /\ pc' = [pc EXCEPT ![r] = "answered"]
    /\ answer' = [answer EXCEPT ![r] = a]

Ask(r) ==
    /\ pc[r] = "idle"
    /\ pc' = [pc EXCEPT ![r] = "next"]
    /\ \E n \in PageSize : pageSize' = [pageSize EXCEPT ![r] = n]
    /\ UNCHANGED <<position, chunk, awaited, promise, results, answer, next, unhandled>>

-----------------------------------------------------------------------------
(* The iterator: documents, statuses, promises.                            *)

\* Mutation: the position counts the documents asked for, not those answered.
DocumentsAsked(r) ==
    /\ position[r] < Last
    /\ position' = [position EXCEPT ![r] = position[r] + MaxChunk]
    /\ chunk' = [chunk EXCEPT ![r] = position[r] + 1 .. Last]
    /\ pc' = [pc EXCEPT ![r] = "statuses"]
    /\ UNCHANGED <<pageSize, awaited, promise, results, answer, next, unhandled>>

\* The query answers some more documents; those that do not decode or are pending
\* are dropped.
Documents(r) ==
    /\ position[r] < Last
    /\ \E n \in position[r] + 1 .. Last :
          /\ n <= position[r] + MaxChunk
          /\ position' = [position EXCEPT ![r] = n]
          /\ \E docs \in SUBSET (position[r] + 1 .. n) :
                chunk' = [chunk EXCEPT ![r] = docs]
    /\ pc' = [pc EXCEPT ![r] = "statuses"]
    /\ UNCHANGED <<pageSize, awaited, promise, results, answer, next, unhandled>>

\* Mutation: documents are read ahead of the page.
NextChunkAhead(r) == pc[r] \in {"next", "await"} /\ Documents(r)

NextChunk(r) == pc[r] = "next" /\ Documents(r)

\* Mutation: a query that fails ahead of the page fails it.
QueryFailsAhead(r) ==
    /\ pc[r] \in {"next", "await"}
    /\ Answer(r, "query failed")
    /\ UNCHANGED <<pageSize, position, chunk, awaited, promise, results, next, unhandled>>

QueryFails(r) ==
    /\ pc[r] = "next"
    /\ Answer(r, "query failed")
    /\ UNCHANGED <<pageSize, position, chunk, awaited, promise, results, next, unhandled>>

\* The elements of the chunk, with the promises as they are when it is yielded.
Yield(r, kept, state) ==
    /\ chunk'   = [chunk EXCEPT ![r] = kept]
    /\ awaited' = [awaited EXCEPT ![r] = kept]
    /\ promise' = [promise EXCEPT ![r] =
                      [m \in Message |-> IF m \in kept THEN state ELSE promise[r][m]]]
    /\ pc' = [pc EXCEPT ![r] = IF kept = {} THEN "next" ELSE "await"]
    /\ UNCHANGED <<pageSize, position, results, answer, next, unhandled>>

\* The statuses are read, the messages of the other box filtered, and the contents
\* of all that are left asked for.
enrichContentData(r) ==
    /\ pc[r] = "statuses"
    /\ \E kept \in SUBSET chunk[r] : Yield(r, kept, "content")

\* The statuses cannot be read: every message of the chunk is an error.
StatusFails(r) ==
    /\ pc[r] = "statuses"
    /\ Yield(r, chunk[r], "left")

\* A message has no status: enrichMessagesStatus throws, and the iterator with it.
StatusMissing(r) ==
    /\ pc[r] = "statuses"
    /\ chunk[r] # {}
    /\ Answer(r, "no status")
    /\ UNCHANGED <<pageSize, position, chunk, awaited, promise, results, next, unhandled>>

-----------------------------------------------------------------------------
(* The promises of enrichContentData, each on its own.                     *)

Settle(r, m, from, to) ==
    /\ promise[r][m] = from
    /\ promise' = [promise EXCEPT ![r][m] = to]
    /\ UNCHANGED <<work, unhandled>>

ContentFound(r, m) ==
    /\ m \notin noContent
    /\ Settle(r, m, "content", IF m \in needsConfiguration THEN "configuration" ELSE "right")

ContentFails(r, m) == Settle(r, m, "content", "left")

\* getHasPreconditionFlagForMessagesFallback
ConfigurationFound(r, m) == Settle(r, m, "configuration", "right")

ConfigurationFails(r, m) == Settle(r, m, "configuration", "left")

\* No content, no error: `content` is undefined, its use throws a TypeError, and the
\* promise is rejected.
Rejects(r, m) ==
    /\ m \in noContent
    /\ promise[r][m] = "content"

ContentMissing(r, m) ==
    /\ Rejects(r, m)
    /\ promise' = [promise EXCEPT ![r][m] = "rejected"]
    /\ unhandled' = IF IsAwaited(r, m) THEN unhandled ELSE unhandled \cup {<<r, m>>}
    /\ UNCHANGED work

\* What Node does by default of a rejection that nobody awaits (external): the
\* process ends, and every request in progress with it.
ProcessExits(r, m) ==
    /\ Rejects(r, m)
    /\ ~IsAwaited(r, m)
    /\ unhandled' = unhandled \cup {<<r, m>>}
    /\ pc' = [q \in Request |->
                 IF pc[q] \in {"idle", "answered"} THEN pc[q] ELSE "lost"]
    /\ promise' = [q \in Request |-> [n \in Message |->
                      IF promise[q][n] \in Running THEN "lost" ELSE promise[q][n]]]
    /\ UNCHANGED <<pageSize, position, chunk, awaited, results, answer, next>>

-----------------------------------------------------------------------------
(* asyncIteratorToPageArray and what is made of the page.                  *)

\* Mutation: the first promise to settle is collected.
FirstSettled(r, m) ==
    /\ pc[r] = "await" /\ m \in awaited[r] /\ promise[r][m] \in Settled

Collectable(r, m) == IsAwaited(r, m) /\ promise[r][m] \in Settled

Collect(r, m) ==
    /\ Collectable(r, m)
    /\ Len(results[r]) < pageSize[r]
    /\ results' = [results EXCEPT ![r] = Append(results[r], m)]
    /\ awaited' = [awaited EXCEPT ![r] = awaited[r] \ {m}]
    /\ pc' = [pc EXCEPT ![r] = IF awaited[r] = {m} THEN "next" ELSE "await"]
    /\ UNCHANGED <<pageSize, position, chunk, promise, answer, next, unhandled>>

\* Mutation: an error anywhere in the chunk fails the page.
AnyLeft(r) == \E m \in Message : promise[r][m] = "left"

SomeLeft(r) == \E i \in 1..Len(results[r]) : promise[r][results[r][i]] = "left"

\* toPageResults: the last message of the page, if there is one.
cursor(r) == IF results[r] = <<>> THEN 0 ELSE results[r][Len(results[r])]

\* One more than the page holds has been collected: there are more results.
PageFull(r, m) ==
    /\ Collectable(r, m)
    /\ Len(results[r]) = pageSize[r]
    /\ IF SomeLeft(r)
          THEN Answer(r, "Cannot enrich data") /\ UNCHANGED next
          ELSE Answer(r, "page") /\ next' = [next EXCEPT ![r] = cursor(r)]
    /\ UNCHANGED <<pageSize, position, chunk, awaited, promise, results, unhandled>>

\* Mutation: a page that is full when a chunk ends is the last.
PageEndsFull(r) ==
    /\ pc[r] = "next"
    /\ position[r] = Last \/ Len(results[r]) = pageSize[r]
    /\ Answer(r, IF SomeLeft(r) THEN "Cannot enrich data" ELSE "page")
    /\ UNCHANGED <<pageSize, position, chunk, awaited, promise, results, next, unhandled>>

\* The iterator is done: no more results.
PageEnds(r) ==
    /\ pc[r] = "next"
    /\ position[r] = Last
    /\ Answer(r, IF SomeLeft(r) THEN "Cannot enrich data" ELSE "page")
    /\ UNCHANGED <<pageSize, position, chunk, awaited, promise, results, next, unhandled>>

\* Mutation: nothing catches a rejection.
PageRejectedUncaught(r, m) == FALSE

\* The element awaited is rejected, now or when it was not yet awaited.
PageRejected(r, m) ==
    /\ IsAwaited(r, m)
    /\ promise[r][m] = "rejected"
    /\ Answer(r, "rejected")
    /\ UNCHANGED <<pageSize, position, chunk, awaited, promise, results, next, unhandled>>

-----------------------------------------------------------------------------
getMessagesFromFallback(r) ==
    \/ NextChunk(r) \/ QueryFails(r)
    \/ enrichContentData(r) \/ StatusFails(r) \/ StatusMissing(r)
    \/ PageEnds(r)
    \/ \E m \in Message : Collect(r, m) \/ PageFull(r, m) \/ PageRejected(r, m)

Promise(r, m) ==
    \/ ContentFound(r, m) \/ ContentFails(r, m) \/ ContentMissing(r, m)
    \/ ConfigurationFound(r, m) \/ ConfigurationFails(r, m)
    \/ ProcessExits(r, m)

Next ==
    \E r \in Request :
        \/ Ask(r)
        \/ getMessagesFromFallback(r)
        \/ \E m \in Message : Promise(r, m)

Spec == Init /\ [][Next]_vars

\* Cosmos, the blob storage and Redis answer every call, one way or the other.
FairSpec ==
    /\ Spec
    /\ \A r \in Request :
          /\ WF_vars(getMessagesFromFallback(r))
          /\ \A m \in Message : WF_vars(Promise(r, m))

-----------------------------------------------------------------------------
(* Correctness.                                                            *)

\* The type of every variable.
TypeOK ==
    /\ pc \in [Request -> {"idle", "next", "statuses", "await", "answered", "lost"}]
    /\ pageSize \in [Request -> Nat]
    /\ position \in [Request -> 0..Last]
    /\ chunk \in [Request -> SUBSET Message]
    /\ awaited \in [Request -> SUBSET Message]
    /\ promise \in [Request -> [Message ->
                       {"none", "rejected", "lost"} \cup Running \cup Settled]]
    /\ results \in [Request -> Seq(Message)]
    /\ answer \in [Request -> {"none", "page", "Cannot enrich data",
                               "rejected", "no status", "query failed"}]
    /\ next \in [Request -> 0..Last]
    /\ unhandled \subseteq Request \X Message

Listed(r) == {results[r][i] : i \in 1..Len(results[r])}

\* The messages whose contents were asked for.
Offered(r) == {m \in Message : promise[r][m] # "none"}

\* Whatever order the promises settle in, a page lists messages in the order of the
\* query, all of them enriched, none skipped: what was asked for and is not listed is
\* below the last one, which is the cursor, if there is one.
PageInOrder ==
    \A r \in Request : answer[r] = "page" =>
        /\ Len(results[r]) <= pageSize[r]
        /\ \A i, j \in 1..Len(results[r]) : i < j => results[r][i] < results[r][j]
        /\ \A m \in Listed(r) : promise[r][m] = "right"
        /\ \A m \in Offered(r) \ Listed(r) : \A n \in Listed(r) : n < m
        /\ next[r] # 0 => next[r] \in Listed(r) /\ \A m \in Listed(r) : m <= next[r]

\* A page is refused for a message it would list, or for the one after them that
\* was rejected.  What goes wrong behind, though started with them, is not told.
ErrorsAreOfThePage ==
    \A r \in Request :
        /\ answer[r] = "Cannot enrich data" =>
              /\ Len(results[r]) <= pageSize[r]
              /\ \E m \in Listed(r) : promise[r][m] = "left"
        /\ answer[r] = "rejected" => \E m \in Offered(r) \ Listed(r) :
              /\ promise[r][m] = "rejected"
              /\ Len(results[r]) <= pageSize[r]
              /\ \A n \in Offered(r) : n < m => n \in Listed(r)

\* A page without a cursor is the last one: it lists everything that was read, and
\* there is no more.  Except of page_size 0, whose page is empty and ends the session.
NoCursorNoMore ==
    \A r \in Request : answer[r] = "page" /\ next[r] = 0 =>
        \/ pageSize[r] = 0
        \/ position[r] = Last /\ Offered(r) = Listed(r)

\* What a request leaves running is of the last chunk it read, answered or not.
BoundedEagerness ==
    \A r \in Request : \A m \in Message :
        promise[r][m] \in Running =>
            /\ m \in awaited[r]
            /\ position[r] - MaxChunk < m /\ m <= position[r]

\* A rejection is unhandled only when the message is behind another of its own chunk
\* and has no content: the first of every chunk is awaited from the start.
FirstIsAwaited ==
    \A p \in unhandled :
        /\ p[2] \in noContent
        /\ p[2] \in chunk[p[1]]
        /\ \E m \in chunk[p[1]] : m < p[2]

\* Every request is answered, or lost with its process for content that was missing.
EveryRequestEnds ==
    \A r \in Request :
        pc[r] = "next" ~> \/ pc[r] = "answered"
                          \/ pc[r] = "lost" /\ unhandled # {}

\* What a request is for those who do not see its promises.
StateOf(r) == IF pc[r] \in {"next", "statuses", "await"} THEN "open" ELSE pc[r]

ErrorsOf(r) == {m \in Listed(r) : promise[r][m] = "left"}

Abstract == INSTANCE LazyPage
                WITH state   <- [r \in Request |-> StateOf(r)],
                     reached <- position,
                     found   <- [r \in Request |-> Offered(r)],
                     errors  <- [r \in Request |-> ErrorsOf(r)]

\* That a chunk is enriched all at once, in any order, cannot be seen: the page, its
\* cursor and its error are those of messages that are enriched one by one when the
\* page comes to them, and what is read ahead only matters by ending the process.
ImplementsLazyPage == Abstract!Spec
=============================================================================
