# A specification of io-functions-app-message-test

TLA+ models of the message functions of the IO app (Azure Functions in
TypeScript): what four HTTP endpoints do to, and tell of, documents that other
services write at the same time. The models are checked with TLC on small
instances, and the safety properties are proved with TLAPS for every value of
the constants.

Paths are relative to the root of the repository unless they name a module.

## 1. Inventory

The app keeps little in memory between requests: its configuration, read from
the environment when an instance is loaded, and the promises that a request
has started and left behind. Its state is in Cosmos
(messages, message statuses, message views, services, remote-content
configurations), in blobs (contents) and in Redis (a cache of services and
configurations). Handlers are asynchronous: at every `await` another request,
of this instance of the app or another, or another service, may run. So the
difficult part is not inside one function but between two of its awaits.

| Part | State it reads / writes | Operations | What is hard |
|---|---|---|---|
| **UpsertMessageStatus** `UpsertMessageStatus/handler.ts` | `message-status`, a versioned collection: one document per version, id `<message>-<version>` | `PUT .../message-status` with a reading, archiving or bulk change: read last version, check the owner, compute the new status, upsert | The version read and the version that upsert numbers are two reads; requests of several devices race; an upsert may commit and be answered as failed |
| **Service cache** `utils/messages.ts` `getOrCacheService` | Redis key `<serviceId>`, collection `services` | get, parse, decode; else find, then SET with a TTL | Nothing invalidates an entry; slow fills overwrite fresh ones; failures and garbage must fall through |
| **Configuration cache** `utils/remoteContentConfig.ts` | Redis key `RC-CONFIGURATION-<id>`, collection of configurations, `SERVICE_TO_RC_CONFIGURATION_MAP` | `getOrCacheRCConfigurationWithFallback`, `getOrCacheMaybeRCConfigurationById` | The same, and absence against failure |
| **Redis tasks** `utils/redis_storage.ts` | the client | `getTask`, `setWithExpirationTask` (others unused) | Settle only when the client calls back |
| **GetRCConfiguration** `GetRCConfiguration/handler.ts` | via the configuration cache | `GET` a configuration | 404 against 500 |
| **GetMessages** `GetMessages/handler.ts`, `getMessages.fallback.ts`, `getMessages.view.ts`, `model/message_view_query.ts`, `utils/AsyncIterableTask.ts` | `messages` + `message-status` + blobs, or `message-view` alone | `GET` a page: query, filter, enrich chunk by chunk, cut the page, find `next` | Cursors over collections that change; chunks of the query, of the page and of the enrichment differ; errors in the middle; two sources that are not updated together |
| **Promises of a page** `getMessages.fallback.ts` `enrichContentData` | one promise per message of a chunk, in memory | all started at once, awaited one by one | They settle in any order, are left when the page is answered, and a rejection that nobody awaits may end the process |
| **GetMessages selector** `getMessages.selector.ts` | configuration (`USE_FALLBACK`, `FF_TYPE`, beta testers, canary regex) | picks view or fallback for a user | It may differ between two pages of a session, and between instances while a release is widened; a bad regular expression throws for every user |
| **Enrichment** `utils/messages.ts`, `getMessages.*.ts`, `GetMessage/handler.ts` | the caches, statuses, contents | category, `has_precondition`, `rptId`, organization of a message | Four routes with code of their own tell of the same message |
| **GetMessage** `GetMessage/handler.ts` | all of the above, for one message | `GET` one message, with or without public attributes | Parallel reads; the sender looked up twice |
| **Configuration** `utils/config.ts`, `utils/types.ts` | the decoded environment of an instance | decode, with defaults; throw or tell the problems | Defaults hide mistakes; what is not set must be off |
| **Redis client** `utils/redis.ts` | one client of an instance | cluster, single server with TLS, or without | - |
| **Health and Info** `utils/healthcheck.ts`, `Info/handler.ts` | none | configuration check, then parallel checks of Cosmos and the storage | Checks end in any order while services go down and up; some parts are not asked |
| Ping, telemetry, conversions, storage helpers | none at run time | - | - |

What makes each part correct:

* *UpsertMessageStatus*: version numbers are gapless and unique, only the
  recipient of a message changes its status, a response tells the truth, and a
  change touches the flags it names and no other.
* *Caches*: only published documents are answered; staleness has a bound;
  absence is never made up; the cache comes to agree with a database that is
  left alone.
* *GetMessages*: a session of pages lists everything that was there all along,
  nothing twice, and nothing of the other box (inbox, archive).
* *Promises of a page*: whatever order they settle in, the page is that of the
  query; errors are those of the page; nothing but the last chunk is left
  running.
* *Settings*: what is not asked for is off; widening a release takes the view
  from no user; what Info tells is true of some time of the request, and an
  instance it calls well serves.
* *Enrichment*: every route tells the same of a message; who is to be paid is
  never a mixture of two versions of a service.

`PROJECT.json` lists every component (`components`) and every hazard with its
line (`hazards`).

## 2. Modules

An arrow is a refinement: the detailed module, below, implements the abstract
one. Each component has an `MC` module for its runs.

    MessageStatusData --- StatusLog                          (abstract)
            |                 ^
            +----------- MessageStatus ----- MessageStatusProofs

            Listing                                          (abstract)
               ^
            GetMessages -------------------- GetMessagesProofs

            LazyPage                                         (abstract)
               ^
            EagerPage ---------------------- EagerPageProofs
                                              `-- EagerPageRefinement

            CachedLookups                                    (abstract)
               ^            ^
            ReadThroughCache |-------------- ReadThroughCacheProofs
                             |
            MessageEnrichment -------------- MessageEnrichmentProofs
                                              `-- MessageEnrichmentRefinement
            Settings
               `-- AppInstance ------------- AppInstanceProofs

### MessageStatusData, StatusLog, MessageStatus

`docs` is the collection. A request `r` is suspended at the await `pc[r]`:
"find" (`findLastVersionByModelId`), "number" and "create" (the two queries of
`messageStatusModel.upsert`, a library, modelled as the handler and the
integration fixtures use it). `base[r]` is `messageStatus` of the handler,
`next[r]` the number that upsert computed. Actions: `Receive`, `FindFails`,
`FindNone` (404), `Forbid` (403), `Find`, `Number`, `Create` (which may commit
and still be answered as a failed query), `Conflict` (the id is taken),
`UpsertFails`. `Lag` is the number of newest versions that a read may miss (0
is strong consistency). `AcceptMessage` and `ProcessMessage` are the services
that send messages (external). History: `made`, `before`.

`StatusLog` is the promise without reads, errors and races: per message an
append-only log without gaps, where a request adds at most one entry, made
from *an earlier* entry. It does not say from the *last* entry: see the
finding below. `MessageStatus` implements it with `log <- docs` and `effective
<-` the requests that have made a version.

### CachedLookups, ReadThroughCache

The three lookups as one protocol (`getOrCacheService` and the configuration
utility have the same steps): "get", then `Hit` or `Miss`, "find" with
`Found`, `FindNone`, `FindFails`, and "set" with `setWithExpirationTask` or
`SetFails`. They differ in the keys, in the TTL, and in what they answer when
there is no document (`GetRCConfigurationHandler` has the response of the
endpoint). A document is its version number. Time is a `Tick` that
ages entries; `MaxFill` is the longest time between the answer of Cosmos and
the SET. `Publish`, `Evict` and `Garble` (an entry that does not parse or
decode) are the environment. History: `late`, `stale` (time for which a
version has been superseded), `started`. A read of Cosmos is taken to answer
the version that is current.

`CachedLookups` is what a caller may count on: a lookup is asked, and told in
one step a version that the cache or the database has at that moment, never
"none" when the database has one; or it fails. Entries are filled with
versions that exist or existed. All lookups and entries may move in one step
(`Serve`), as the handlers start and fail several reads at once; only a
publication is a step of its own. `ReadThroughCache` implements it with
`entry <-` the entry that can be read and `lookup <-` what a lookup has been
asked and told; the SET after the answer of Cosmos refills an entry once more.
`MessageEnrichment` implements it too, for the lookups of the sender: see
there.

### GetMessages

One session of an app: `Ask`, then `NextOfView` or `NextOfMessages` for every
answer of Cosmos (any number of documents up to `MaxChunk`), for the fallback
`enrichMessagesStatus` (or `StatusFails`) and `enrichContentData`, or `Wrap`
without enrichment; then `AnswerPage`, with `next`, `AnswerLastPage`, or
`AnswerError`; `RequestFails` at any await. `source`, how the page is built,
is chosen anew by every request: enrichment is a parameter of the request, and
view or fallback depends on configuration that differs between releases.
Between any two steps messages are sent, processed, archived, and the view
follows (external). `stable` and `listable` are history: what has been
listable by every source all along, and what has been listable by some source
at some time.

Ids are numbers, as ULIDs are ordered. Results are sets, as no step reorders.

`Listing` is the promise without queries, chunks, filters, sources, failures
and repeated requests: a page is one step, takes everything from the cursor
down to its last message that has been there all along, has exactly `pageSize`
messages unless it is the last one, and the last one leaves nothing behind.
`GetMessages` implements it with `cursor <- maximumId`, `ended <- pc = "end"`
and `ofTheBox <-` no page is "plain"; of the steps of a request only
`AnswerPage` and `AnswerLastPage` can be seen.

### EagerPage

One page of `getMessagesFromFallback` with enrichment, its promises one by
one. `Documents` is an answer of Cosmos; `enrichContentData` (or
`StatusFails`) yields the chunk with a promise per message, in state "content"
and then, for a content whose precondition the configuration tells,
"configuration", until it is "right" or "left". `asyncIteratorToPageArray`
awaits the first of `awaited` alone: `Collect`, `PageFull`, `PageRejected`,
and `PageEnds` when the iterator is done. A message without content rejects
its promise: `content` is `undefined` in the `TE.map` that follows
(`getMessages.fallback.ts:124-143`). `ContentMissing` is that; `ProcessExits`
(external) is what Node, since version 15, does by default of a rejection that
nobody awaits (`.node-version` says 18.13.0): the process ends, and every
request in progress with it. The host may install a handler of its own, so
both are possible. `unhandled` is history. Messages are positions in the list
of a user; documents that do not decode, are pending or of the other box are
dropped at will.

`GetMessages` takes a chunk at a time and follows a session of pages;
`EagerPage` takes a promise at a time and follows the requests of a process.

`LazyPage` is the page as its reader would write it: messages are found, taken
one at a time in order, and what is wrong with one is known when the page has
come to it; there are no promises. `EagerPage` implements it with `state <-`
`StateOf`, `reached <- position`, `found <- Offered` (listed or awaited) and
`errors <- ErrorsOf` (the listed ones that are "left"). That promises are
started together and settle in any order is hidden by the mapping, with one
exception that is a step of `LazyPage`: `Exit`, for a message without content
close behind another one.

### Settings, AppInstance

`Settings` has what an instance makes of its environment, as operators with
the names of the code: the variables that do not decode (`Invalid`), the
defaults, the client of `utils/redis.ts` and the source that `select` gives a
user. What texts mean (integers, lists, regular expressions) are constants
with the few assumptions the defaults need. `Invalid` has a variable once,
where the codec of a union tells one error per branch.

`AppInstance` has instances with such environments. `Restart` gives an
instance another one; `GetMessages` is a request up to the choice of its
source (or "throws", or "not loaded" when `getConfigOrThrow` threw at the
start); `Info` is asked at any time: `InfoMisconfigured` tells the problems of
the configuration, otherwise `Info` starts all checks, each of which settles
by the service as it is then (`CheckSettles`), and `InfoAnswers` gathers the
problems when all have. `Toggle` is an outage and its end (external).
`seenUp` and `seenDown` are history of a request: what could be reached, or
not, at some time of it.

### MessageEnrichment

One message through the routes "detail" and "plain" (`GetMessage` with and
without `public_message`), "fallback" and "view" (`GetMessages`). `reads[r]`
has the reads that are outstanding (two when the code reads in parallel),
`message[r]` what is known so far. The n-th version of the sender service has
the organization fiscal code `n`, so that an answer shows which version each
of its fields is from. A read through the cache is one step: the steps inside
are those of `ReadThroughCache`, and `Refill` is what they and others do to
the entry. `calm` is history: routes that nothing has changed under, with
coherent caches.

That its reads are lookups of `CachedLookups` is a refinement for the sender:
`Lookups` are those each route makes (two in "detail"), asked while they are
among `reads`, and told the version that the message then shows as payee or
organization. The lookups of configurations are not mapped: what they tell is
a flag that repeats, so that an answer does not show which version it is of.

## 3. Runs

All passing runs are exhaustive, with the bounds of their `.cfg`.

| Run | Instance | Shows |
|---|---|---|
| `race` | 2 requests, 2 users, 1 message, all 8 changes, `Lag` 1 | `TypeOK`, `VersionsGapless`, `OnlyRecipientWrites`, `ResponsesTellTheLog`, `RaceFreeKeepsFlags`, `SettledChangesStay`: the two requests interleave in every way with each other and with the processing of the message, with reads that miss the newest version or not; `ImplementsStatusLog`: refinement of the abstract log |
| `lost_update` | 2 requests of one user | **violated**: `EveryChangeKeepsFlags` |
| `operations` | 2 lookups, a service with TTL 0 and a configuration with TTL 2, `MaxFill` 2, 2 versions, every operation, fairness | `TypeOK`, `BoundedStaleness`, `NoFalseAbsence`; `Converges` and `LookupsEnd` (liveness); `ImplementsCachedLookups`: refinement of the atomic lookups |
| `sources` | 4 messages, pages of 1, chunks of up to 2, each page by fallback or view, 3 changes | `TypeOK`, `ListsTheRequestedBox`, `PagesGoBack`; `ImplementsListing`: refinement of pages of one step, and with it `ListsEverything` |
| `plain` | 4 messages, pages of 2, archive, `minimum_id`, each page enriched or not | `ListsEverything` |
| `plain_box` | no enrichment | **violated**: `ListsTheRequestedBox` |
| `detail` | routes detail, plain and fallback, 1 change, payments, certificates, third party contents | `TypeOK`, `RoutesAgree`, `PayeeWins`, `PaidToTheShown`, `AnswersAreWhole`; `ImplementsCachedLookups`: the sender is told by cached lookups |
| `two_sources` | routes fallback and view, every content that names no payee and is not a legal message, 2 changes | `RoutesAgree`, `PreconditionFitsTheItem` |
| `view_payee` | route view | **violated**: `PayeeWins` |
| `one_sender` | route detail, 2 changes | **violated**: `OneSender` |
| `eager` | 2 requests in a process, 3 documents, chunks of up to 2, `page_size` 0 to 2, one message without content, one that needs a configuration, fairness | `TypeOK`, `PageInOrder`, `ErrorsAreOfThePage`, `NoCursorNoMore`, `BoundedEagerness`, `FirstIsAwaited`; `EveryRequestEnds` (liveness); `ImplementsLazyPage`: refinement of the page without promises |
| `instances` | 2 instances, 7 environments, 2 users, 2 services, 1 request of Info, fairness | `TypeOK`, `InfoTellsTheServices`, `HealthyServes`, `OffUnlessAsked`, `WideningKeepsTheView`; `InfoEnds` (liveness) |

*Why the bounds are enough to be interesting.* Two requests are the least that
race for a version and lose an update; the proofs cover any number. A slow
fill of the cache that overwrites a fresher entry takes two lookups and two
versions, and a lookup that starts again sees it; TTL 2 and `MaxFill` 2 let
the entry be filled late, age and expire. Four messages, pages of 1 or 2 and
chunks of 1 or 2 give pages that end inside, at and after a chunk, chunks that
are wholly filtered away, and sessions of several pages; three changes let a
message arrive, be processed and be archived in one session. One publication,
refill or reading (two in `two_sources`, for a reading and the view that
follows) is enough to fall between any two of the reads of a route, which
start in any order; `one_sender` needs a publication and a refill at most.
Three documents in chunks of 2 give a page that is full in the middle of a
chunk, at its end and never, with a promise left behind; the second message
has no content, so it is the first of a chunk, and awaited from the start, or
behind another, and the second request is there to be lost. The environments
of `instances` are three steps of a release, the switch with a bad regular
expression and a wrong address, two problems at once, a negative TTL alone
(which the code is to refuse), and a development environment without TLS and
with a bad regular expression; two services give checks that end in either
order. In `detail` (`OneUnread`) a configuration that the content does not
need is not enumerated: no route reads it.

*Deadlock* is checked in `operations` and `instances`, where lookups and
requests start again for ever. The other systems may stop: all requests
answered, the session ended.

*Fairness.* `Converges`, `LookupsEnd`, `EveryRequestEnds` and `InfoEnds` need
it. Each `FairSpec` assumes that Redis, Cosmos and the storage answer every
call one way or the other (`WF` of the step that follows, per request or
promise), and that of the cache that time passes (`WF Tick`). The second is
the clock. The first is what the code itself relies on: `getTask`,
`setWithExpirationTask` and the checks settle in the callback of their client,
without a time limit of their own. What the code adds, and the properties
check, is that nothing else keeps a request waiting: no branch that settles
nothing, no retry without end, no rejection that nobody turns into an answer.
No fairness is assumed of publications, callers, outages, restarts or the
host, or of which way a call ends.

Each property of a passing run has a mutant in `PROJECT.json`: a plausible
error in one definition (a dropped owner check, a hit that renews the TTL, a
cursor taken from the iterator) under which the run finds the property
violated. The mutated forms are next to the definitions, marked `Mutation`.

## 4. What the violated runs tell

* **Lost update** (`lost_update`, `UpsertMessageStatus/handler.ts:107`). The
  new status is computed from the version that was read, but numbered after
  the one that is last when upsert runs. Two devices of a user that read and
  archive a message at once are both answered 200, and one flag is undone.
  `RaceFreeKeepsFlags` says when this cannot happen, and `SettledChangesStay`
  what is safe whatever overlaps: a change that was there when the request was
  received, and that its read could not miss, is not undone.
* **`archived` without enrichment** (`plain_box`,
  `getMessages.fallback.ts:186`). Statuses are only read for enriched pages,
  so both boxes are listed. The view does filter.
* **Payee of the view** (`view_payee`, `getMessages.view.ts:202`).
  `toCategory` keeps the notice number and not the payee, so the `rptId` of a
  payment with a payee has the fiscal code of the sender service.
* **Two lookups of the sender** (`one_sender`, `GetMessage/handler.ts:254` and
  `285`). The payee in the content may be of another version of the service
  than `rptId` and `organization_fiscal_code` of the same answer.
  `PaidToTheShown` says what does hold: the last two agree.

`page_size=0` is let through by the middleware (`GetMessages/handler.ts:161`)
although the API says at least 1; it answers an empty page without `next`.
`NoCursorNoMore` has it as its only exception, and the run `eager` its pages.
The runs of sessions use positive sizes. `Listing` has the empty page as a
step of its own (`NoPage`), so that `GetMessages` implements it for every
size; `pageSize > 0` is a hypothesis of the theorem about `ListsEverything`
alone.

What the passing runs of this part tell a reader of the code: a request whose
page is answered may still end the process it ran in, and every other request
there, when a message behind the page has lost its content (`FirstIsAwaited`
says that it is never the first of a chunk); and Info calls an instance well
that throws for every user, when the text for the canary users is no regular
expression (`HealthyServes` has it as its only exception). What Info does
promise of an instance it calls well is that its functions are loaded and that
the TTL of its caches is one that `ReadThroughCache` assumes. It asks neither
Redis nor the Cosmos of the remote contents; what their failures may do to a
request is what `NoFalseAbsence`, `BoundedStaleness` and `LookupsEnd` say.

`RoutesAgree` compares answers between which nothing has changed. What every
successful answer keeps to, whatever has changed while it was made, is
`PaidToTheShown`, `AnswersAreWhole` (reads in parallel leave nothing out) and
`PreconditionFitsTheItem` (an item is never shown as unread with the
precondition of a read one, or the other way round). `WideningKeepsTheView`
compares two instances at one time; that a session meets both of them is in
`GetMessages`, where every request chooses its source anew.

## 5. Proofs

All theorems hold for every value of the constants that satisfies the named
assumptions of the modules: sets of any size (the ids of a session finite),
any `Lag`, TTL, `MaxFill`, chunk and page size, any `Source`.

**MessageStatusProofs.** `IInv` adds to the type and the log properties what a
request knows at each await (`Knows`): its base is in the collection, of its
message and of its user; when it is about to create, its number is 0 or
follows one that is taken; what it made is `newStatus` of its base, still in
the collection, and numbered above its base and above every version of the
message that was there when the request was received. `VersionsGapless` is not
inductive without the third of these (a number computed long ago must still
have its predecessor, which holds as nothing is deleted), `FlagsHaveCause`
(every flag was asked for by a request, or is as the message was accepted) not
without the last. No run checks `FlagsHaveCause`: over the versions of a
message it is what `SettledChangesStay` comes to; it is proved as `Caused`.
`RaceFreeKeepsFlags` follows from `IInv` alone: when the reads missed nothing,
a version below the new one that was there before the request is at most the
base, and at least it. `SettledChangesStay` has the base as its witness: its
read was at most `Lag` behind, and a number that is not above all versions of
`before` is taken, so that nothing is made with it. `Implements` maps every
`Create` to `Apply`, the two services to `Accept` and `Process`, and the rest
to a stutter.

**ReadThroughCacheProofs.** `GoodEntry` gives an entry one budget: `stale +
left <= Ttl + MaxFill`, the time for which its version has been superseded and
the time it has left. A tick moves one unit from the second to the first at
most; a fill starts with `left = Ttl` and `stale <= MaxFill`.
`BoundedStaleness` reads `left >= 1` off a hit. That only published versions
are cached and answered is part of `IInv` and proved as `OnlyPublished`; the
run checks it within `ImplementsCachedLookups`. `Implements` maps a hit and
the answers of Cosmos to a `Serve` in which one lookup is told or fails
(`LookupStep`), an invalid call to one in which it fails,
`setWithExpirationTask`, expiry, eviction and garbage to one in which an entry
changes (`RefillStep`), `Publish` to `Publish`, and the rest to a stutter; it
needs of `IInv` that what a lookup holds is published.

**GetMessagesProofs.** `IInv` splits the ids at the cursor and the iterator:
what is stable and above the cursor is listed; between iterator and cursor it
is among the results (or in the chunk, until its content is there); below, it
is still to come. The step that matters is `AnswerPage`: the page is the top
`pageSize` of the results (`PageIsTop`, by the least element of a well-founded
order), so the new cursor, its least element, leaves nothing stable behind.
`ListsTheRequestedBox` is proved under the hypothesis that no page is "plain";
the run `plain_box` shows that it is needed. `Implements` needs that a page
that is not the last is full (`PageIsFull`: an iterated least element counts
the top of a finite set) and that the results above its last message are the
page (`TopResult`); the rest is what `IInv` says of the ids above the cursor.

**MessageEnrichmentProofs.** `IInv` is about the row of each route (its state,
its outstanding reads, its message). `Awaits` says which reads may be
outstanding together, `Paid` that the category and the `rptId` follow from the
content and the organization of the same message, and `True` that, as long as
nothing has changed since the route asked (`Current`), what it knows is what
the collections have. `RoutesAgree` is not inductive without `True`: two
answers agree because each agrees with the same moment; answers given before
the last change keep agreeing since they no longer change. `RowStep` reduces
every step of a request to a fact about the one row it leaves, so that each
action has a short proof without primes. `Agreement` assumes `SamePayee`, that
the view is not asked or no content names a payee, and `PaidToThePayee` that
the view is not asked; `view_payee` shows that they need it. `Whole` is what a
row has been told by now, whatever has changed since, by the reads that are
no longer outstanding; `PreconditionFits` and `WholeAnswers` read the answer
off it. `FirstIsThere`
proves that the first category (a `CHOOSE`) exists.

**EagerPageProofs.** `IInv` is about the row of each request: its messages are
asked for if and only if they are listed or awaited, the listed ones below the
awaited ones, the awaited ones in the last chunk, and all settled that are
listed (`Ordered`); when nothing is awaited any more a promise only runs
behind another (`Staged`); and what an answer says (`Ended`). `PageInOrder` is
not inductive without the first: an element is appended in order because it is
the least awaited. Settling a promise changes nothing of a row but its
promise (`SettleRow`), so the steps of the promises have one proof.

**EagerPageRefinement.** The argument is one fact: what `LazyPage` waits for,
found and not taken, is what the page awaits (`WaitingIsAwaited`, from
`Ordered`), so the next message and the need for more are the same in both
(`NextIsAwaited`, `NothingAwaited`). A promise that settles is not listed yet,
so nothing of the mapping changes (`RunningUnseen`); the invariant of
`EagerPageProofs` is strengthened by one more, that promises are only rejected
for content that is missing (`RejectedInductive`), for `Reject` and `Exit`.

**MessageEnrichmentRefinement.** `UInv` adds to `IInv` that no row shows a
payee or an organization before its lookup is told (`Untold`): without it a
read could start on a row that has a version already, and the lookup would be
asked and told at once. `RowServes` reduces a step to the moves of the lookups
of the row it leaves, `FailServes` and `ContinueServes` give them for the two
ways a read ends, and each action then has a lemma without primes. A request
that fails fails all its lookups in one `Serve`.

**AppInstanceProofs.** What an instance serves is a function of the
environment it was loaded with (`FromTheEnvironment`), and a check has ended
as its service was seen (`ChecksWereSeen`, with `SeesNow`: what answers now
has been seen). `WideningKeepsTheView` then is a fact about `select` alone:
a wider flag is as valid (`WiderLoads`) and gives the view to as many users
(`WiderView`), for any list and any regular expression. `LoadedTtl` is what
the codec makes of the text of a TTL, for any text.

Stays with TLC: `Converges`, `LookupsEnd`, `EveryRequestEnds` and `InfoEnds`,
which are liveness under fairness and so beyond the prover, and the properties
of the violated runs. Every invariant and every refinement that a passing run
checks is a theorem. The refinements are of safety: the abstract
specifications state no fairness.

## 6. What is left out

* *Kinds of errors and their wording*, except where a property tells them
  apart (404, 403 and failed queries of UpsertMessageStatus; absent and failed
  lookups).
* *Copied fields*: titles, names, dates, `has_attachments`,
  `has_remote_content`.
* *Contents that are not well-formed*: `getContentFromBlob` decodes a content
  as a whole, so a datum is there and right, or absent. Of a right datum the
  mapping decodes and the filter by `InternalMessageCategory.is`
  (`utils/messages.ts:146`), which the view does not have, keeps its category.
* *Contents and statuses of single messages that are missing*, outside
  `EagerPage`: the request fails (`RequestFails`, `ReadFails`); what the Azure
  host makes of a rejected handler of GetMessage is outside the repository.
* *Texts*: what decodes to an integer, a list, a regular expression or a map
  of Ulids is a constant of `Settings`; the hash of a fiscal code is the user.
* *Clients*: how the redis and Cosmos libraries connect, retry and time out.
* *Unused code*: `checkUrlHealth`, `setTask`, `deleteTask`, `pingTask`, the
  reducing and running folds of `AsyncIterableTask`, the storage table
  helpers.
* *Ping* (a constant answer), *telemetry* (events that nothing waits for),
  *conversions* (a cast). The models that the `index.ts` files construct have
  no behaviour of their own there.
* *The deployment pipeline* in `.devops`: scripts that people start; what it
  does to a running app is `Restart`.

## 7. Plan

Done, in this order: the status log (the only writes of the app), the caches,
the paging, the enrichment, the atomic lookups that the caches implement, the
promises of a page, the settings with the selector and Info; then what paging
and pages promise (`Listing`, `LazyPage`), what settled changes may count on,
and the lookups of the enrichment; each with its proofs.

What could follow: the lookups of configurations as a refinement, which takes
a model in which what they tell shows its version; a step of `GetMessages` per
promise, over `EagerPage`, which `LazyPage` prepares (its pages are steps of a
session); and a session of `GetMessages` over the instances of `AppInstance`,
which would narrow the sources that follow each other in a session to those a
release can give.
