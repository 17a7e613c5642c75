---------------------------- MODULE MessageStatus ----------------------------
(***************************************************************************)
(* Concurrent PUT message-status requests (UpsertMessageStatusHandler)     *)
(* over the versioned message-status collection.                           *)
(*                                                                         *)
(* The handler reads the last version, checks its owner, computes the new  *)
(* status from what it READ, and hands it to messageStatusModel.upsert,    *)
(* which reads the last version AGAIN, only to number the new document,    *)
(* and creates it.  Every await between these steps lets other requests,   *)
(* of this or of another instance of the app, run.                         *)
(*                                                                         *)
(* The collection is a set of documents.  The versioned model (a library)  *)
(* and the services that accept and process messages are external: they    *)
(* are modelled from how the handler and the integration fixtures use      *)
(* them.                                                                   *)
(***************************************************************************)
EXTENDS MessageStatusData

CONSTANTS
    Request,        \* the requests, on any instance of the app
    Asked,          \* the changes they ask for
    Lag,            \* how many of the newest versions a read may miss
    NoDoc           \* no document

ASSUME AskedAssumption == Asked \subseteq Change
ASSUME LagAssumption   == Lag \in Nat
ASSUME NoDocAssumption == NoDoc \notin StatusDoc

ErrorAnswer == {"IResponseErrorQuery", "IResponseErrorNotFound",
                "IResponseErrorForbiddenNotAuthorized"}

VARIABLES
    docs,           \* the message-status collection
    pc,             \* the await each request is suspended on
    call,           \* its arguments: fiscalCode, messageId, change
    base,           \* messageStatus, the version the handler read
    next,           \* the version number upsert has computed
    answer,         \* the kind of response, "none" before it
    body,           \* the status a successful response carries
    made,           \* (history) the document its create committed
    before          \* (history) the documents there when it was received

vars == <<docs, pc, call, base, next, answer, body, made, before>>

Call == [fiscalCode: FiscalCode, messageId: Message, change: Change]

versions(m) == {d \in docs : d.messageId = m}

\* Mutation: a version is found, not the last.
findAnyVersion(m, d) == d \in versions(m) \cup {NoDoc}

\* What findLastVersionByModelId([m]) may answer.
findLastVersion(m, d) ==
    \/ /\ d \in versions(m)
       /\ \A e \in versions(m) : e.version <= d.version + Lag
    \/ /\ d = NoDoc
       /\ \A e \in versions(m) : e.version < Lag

Init ==
    /\ docs = {}
    /\ pc     = [r \in Request |-> "idle"]
    /\ call   = [r \in Request |-> NoDoc]
    /\ base   = [r \in Request |-> NoDoc]
    /\ next   = [r \in Request |-> 0]
    /\ answer = [r \in Request |-> "none"]
    /\ body   = [r \in Request |-> NoDoc]
    /\ made   = [r \in Request |-> NoDoc]
    /\ before = [r \in Request |-> {}]

-----------------------------------------------------------------------------
(* The services that send messages (external).                             *)

AcceptMessage(m) ==
    /\ versions(m) = {}
    /\ docs' = docs \cup
          {[messageId |-> m, version |-> 0, fiscalCode |-> Owner[m],
            isRead |-> FALSE, isArchived |-> FALSE, status |-> "ACCEPTED"]}
    /\ UNCHANGED <<pc, call, base, next, answer, body, made, before>>

ProcessMessage(m) ==
    /\ \A d \in versions(m) : d.status # "PROCESSED"
    /\ \E d \in versions(m) :
          /\ \A e \in versions(m) : e.version <= d.version
          /\ docs' = docs \cup
                {[d EXCEPT !.version = d.version + 1, !.status = "PROCESSED"]}
    /\ UNCHANGED <<pc, call, base, next, answer, body, made, before>>

-----------------------------------------------------------------------------
(* The handler.                                                            *)

Respond(r, kind) ==
    /\ pc' = [pc EXCEPT ![r] = "answered"]
    /\ answer' = [answer EXCEPT ![r] = kind]

Receive(r, fc, m, c) ==
    /\ pc[r] = "idle"
    /\ pc' = [pc EXCEPT ![r] = "find"]
    /\ call' = [call EXCEPT ![r] =
                   [fiscalCode |-> fc, messageId |-> m, change |-> c]]
    /\ before' = [before EXCEPT ![r] = docs]
    /\ UNCHANGED <<docs, base, next, answer, body, made>>

\* The query fails: ResponseErrorQuery("findLastVersionByModelId", err).
FindFails(r) ==
    /\ pc[r] = "find"
    /\ Respond(r, "IResponseErrorQuery")
    /\ UNCHANGED <<docs, call, base, next, body, made, before>>

FindNone(r) ==
    /\ pc[r] = "find"
    /\ findLastVersion(call[r].messageId, NoDoc)
    /\ Respond(r, "IResponseErrorNotFound")
    /\ UNCHANGED <<docs, call, base, next, body, made, before>>

Forbid(r) ==
    /\ pc[r] = "find"
    /\ \E d \in docs :
          /\ findLastVersion(call[r].messageId, d)
          /\ d.fiscalCode # call[r].fiscalCode
    /\ Respond(r, "IResponseErrorForbiddenNotAuthorized")
    /\ UNCHANGED <<docs, call, base, next, body, made, before>>

\* Mutation: the owner of the status is not checked.
FindAnyones(r) ==
    /\ pc[r] = "find"
    /\ \E d \in docs :
          /\ findLastVersion(call[r].messageId, d)
          /\ base' = [base EXCEPT ![r] = d]
    /\ pc' = [pc EXCEPT ![r] = "number"]
    /\ UNCHANGED <<docs, call, next, answer, body, made, before>>

Find(r) ==
    /\ pc[r] = "find"
    /\ \E d \in docs :
          /\ findLastVersion(call[r].messageId, d)
          /\ d.fiscalCode = call[r].fiscalCode
          /\ base' = [base EXCEPT ![r] = d]
    /\ pc' = [pc EXCEPT ![r] = "number"]
    /\ UNCHANGED <<docs, call, next, answer, body, made, before>>

\* Mutation: the new status is numbered after the version read.
numberedByBase(r) ==
    [mapChange(base[r], call[r].change) EXCEPT
        !.fiscalCode = call[r].fiscalCode, !.version = base[r].version + 1]

\* newStatus, numbered by upsert.
newStatus(r) ==
    [mapChange(base[r], call[r].change) EXCEPT
        !.fiscalCode = call[r].fiscalCode, !.version = next[r]]

-----------------------------------------------------------------------------
(* messageStatusModel.upsert (external): number, then create.              *)

\* upsert reads the last version for its number alone.
Number(r) ==
    /\ pc[r] = "number"
    /\ \E d \in docs \cup {NoDoc} :
          /\ findLastVersion(base[r].messageId, d)
          /\ next' = [next EXCEPT ![r] = IF d = NoDoc THEN 0 ELSE d.version + 1]
    /\ pc' = [pc EXCEPT ![r] = "create"]
    /\ UNCHANGED <<docs, call, base, answer, body, made, before>>

\* Mutation: document ids are not unique.
neverTaken(m, v) == FALSE

taken(m, v) == \E d \in versions(m) : d.version = v

\* The document id `<messageId>-<version>` is unique: a create can only win once.
Create(r) ==
    /\ pc[r] = "create"
    /\ ~taken(base[r].messageId, next[r])
    /\ docs' = docs \cup {newStatus(r)}
    /\ made' = [made EXCEPT ![r] = newStatus(r)]
    /\ \/ /\ Respond(r, "IResponseSuccessJson")
          /\ body' = [body EXCEPT ![r] = newStatus(r)]
       \/ /\ Respond(r, "IResponseErrorQuery")    \* committed, its answer lost
          /\ UNCHANGED body
    /\ UNCHANGED <<call, base, next, before>>

\* Mutation: a lost race is answered like a won one.
ConflictIgnored(r) ==
    /\ pc[r] = "create"
    /\ taken(base[r].messageId, next[r])
    /\ Respond(r, "IResponseSuccessJson")
    /\ body' = [body EXCEPT ![r] = newStatus(r)]
    /\ UNCHANGED <<docs, call, base, next, made, before>>

\* Mutation: a lost race is answered with a kind the handler does not have.
ConflictAnswered(r) ==
    /\ pc[r] = "create"
    /\ taken(base[r].messageId, next[r])
    /\ Respond(r, "IResponseErrorConflict")
    /\ UNCHANGED <<docs, call, base, next, body, made, before>>

Conflict(r) ==
    /\ pc[r] = "create"
    /\ taken(base[r].messageId, next[r])
    /\ Respond(r, "IResponseErrorQuery")
    /\ UNCHANGED <<docs, call, base, next, body, made, before>>

\* Either query of upsert fails without effect.
UpsertFails(r) ==
    /\ pc[r] \in {"number", "create"}
    /\ Respond(r, "IResponseErrorQuery")
    /\ UNCHANGED <<docs, call, base, next, body, made, before>>

\* What a request does at its await.
Step(r) ==
    \/ FindFails(r) \/ FindNone(r) \/ Forbid(r) \/ Find(r)
    \/ Number(r) \/ Create(r) \/ Conflict(r) \/ UpsertFails(r)

Next ==
    \/ \E m \in Message : AcceptMessage(m) \/ ProcessMessage(m)
    \/ \E r \in Request :
          \/ \E fc \in FiscalCode, m \in Message, c \in Asked :
                Receive(r, fc, m, c)
          \/ Step(r)

Spec == Init /\ [][Next]_vars

-----------------------------------------------------------------------------
(* Correctness.                                                            *)

Maybe(S) == S \cup {NoDoc}

\* The type of every variable.
TypeOK ==
    /\ docs \subseteq StatusDoc
    /\ pc     \in [Request -> {"idle", "find", "number", "create", "answered"}]
    /\ call   \in [Request -> Maybe(Call)]
    /\ base   \in [Request -> Maybe(StatusDoc)]
    /\ next   \in [Request -> Nat]
    /\ answer \in [Request -> ErrorAnswer \cup {"none", "IResponseSuccessJson"}]
    /\ body   \in [Request -> Maybe(StatusDoc)]
    /\ made   \in [Request -> Maybe(StatusDoc)]
    /\ before \in [Request -> SUBSET StatusDoc]

\* Requests race for version numbers, and a read may lag, yet the versions of a
\* message are numbered from 0 without a gap and no number is used twice.
VersionsGapless ==
    /\ \A d \in docs : \A v \in 0..d.version : taken(d.messageId, v)
    /\ \A d, e \in docs :
          d.messageId = e.messageId /\ d.version = e.version => d = e

\* Every version belongs to the recipient of its message, and only requests of
\* the recipient, for that message, have written one.
OnlyRecipientWrites ==
    /\ \A d \in docs : d.fiscalCode = Owner[d.messageId]
    /\ \A r \in Request : made[r] # NoDoc =>
          /\ call[r].fiscalCode = Owner[call[r].messageId]
          /\ made[r].messageId = call[r].messageId

\* A successful response tells of a version that is in the collection, as it was
\* told, and no two requests have made the same version.  Refused requests (404,
\* 403) have made none; an IResponseErrorQuery may hide a committed one.
ResponsesTellTheLog ==
    \A r \in Request :
        /\ answer[r] = "IResponseSuccessJson" =>
              body[r] = made[r] /\ body[r] \in docs
        /\ answer[r] \in {"IResponseErrorNotFound",
                          "IResponseErrorForbiddenNotAuthorized"} => made[r] = NoDoc
        /\ \A q \in Request \ {r} : made[r] # NoDoc => made[q] # made[r]

\* A request whose version is d or an older one of the same message.
UpTo(d) == {r \in Request : /\ made[r] # NoDoc
                            /\ made[r].messageId = d.messageId
                            /\ made[r].version <= d.version}

\* Nobody else's flag and no default value gets in: where a version says read
\* (archived), a request of the history of that message, up to that version, has
\* asked exactly that.
FlagsHaveCause ==
    \A d \in docs :
        /\ d.isRead => \E r \in UpTo(d) :
              setsRead(call[r].change) /\ call[r].change.is_read
        /\ d.isArchived => \E r \in UpTo(d) :
              setsArchived(call[r].change) /\ call[r].change.is_archived

\* What the untouched flags of version `made[r]` should be: those of the version
\* before it.
KeepsFlagsOf(r, d) ==
    /\ ~setsRead(call[r].change)     => made[r].isRead = d.isRead
    /\ ~setsArchived(call[r].change) => made[r].isArchived = d.isArchived

\* The flags that a request names are in its version as it asked.
SetsFlagsAsked(r) ==
    /\ setsRead(call[r].change)     => made[r].isRead = call[r].change.is_read
    /\ setsArchived(call[r].change) => made[r].isArchived = call[r].change.is_archived

\* The handler's read was as new as the versions there when the request came.
ReadMissedNothing(r) ==
    \A e \in before[r] :
        e.messageId = base[r].messageId => e.version <= base[r].version

\* A request that nobody's write overlaps sets the flags it names and leaves the others,
\* and the processing status, as they were: all versions below its own were there when
\* it was received, and its read did not lag behind them.
RaceFreeKeepsFlags ==
    \A r \in Request : \A d \in docs :
        /\ made[r] # NoDoc
        /\ ReadMissedNothing(r)
        /\ d.messageId = made[r].messageId /\ d.version + 1 = made[r].version
        /\ d \in before[r]
        => SetsFlagsAsked(r) /\ KeepsFlagsOf(r, d) /\ made[r].status = d.status

\* However requests overlap, a version comes after all those of its message that
\* were there when its request was received, sets what it names, and keeps the rest from
\* a version at most Lag older than they are: a request may undo the changes that
\* overlap it and those its read lags behind, but none that is settled.
SettledChangesStay ==
    \A r \in Request : made[r] # NoDoc =>
        \E b \in versions(made[r].messageId) :
            /\ SetsFlagsAsked(r) /\ KeepsFlagsOf(r, b) /\ made[r].status = b.status
            /\ b.version < made[r].version
            /\ \A d \in before[r] : d.messageId = b.messageId =>
                  d.version <= b.version + Lag /\ d.version < made[r].version

\* RaceFreeKeepsFlags without its condition: what the integration tests expect of a reading
\* or archiving change ("version: currentStatus.version + 1, isArchived:
\* currentStatus.isArchived").  Overlapping requests break it.
EveryChangeKeepsFlags ==
    \A r \in Request : \A d \in docs :
        /\ Lag = 0
        /\ answer[r] = "IResponseSuccessJson"
        /\ d.messageId = made[r].messageId /\ d.version + 1 = made[r].version
        => KeepsFlagsOf(r, d)

\* The collection is the append-only log of StatusLog.
Abstract == INSTANCE StatusLog
                WITH log <- docs, effective <- {r \in Request : made[r] # NoDoc}

ImplementsStatusLog == Abstract!Spec
=============================================================================
