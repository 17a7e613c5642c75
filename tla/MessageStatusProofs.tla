------------------------- MODULE MessageStatusProofs -------------------------
(***************************************************************************)
(* Proofs about MessageStatus, for any messages, users, requests, changes  *)
(* and read lag.  Everything follows from one inductive invariant, IInv:   *)
(* what a request knows at each await (Knows), the log it has built so far *)
(* (VersionsGapless, the recipients) and the causes of the flags.          *)
(***************************************************************************)
EXTENDS MessageStatus, TLAPS

Recipients == \A d \in docs : d.fiscalCode = Owner[d.messageId]

\* What holds of request r at its await.
Knows(r) ==
    /\ pc[r] = "idle" => base[r] = NoDoc /\ made[r] = NoDoc
    /\ pc[r] # "idle" => call[r] \in Call
    /\ pc[r] # "answered" => answer[r] = "none"
    /\ pc[r] \in {"number", "create"} => base[r] # NoDoc /\ made[r] = NoDoc
    /\ pc[r] = "find" => base[r] = NoDoc /\ made[r] = NoDoc
    /\ pc[r] = "create" =>
          next[r] = 0 \/ taken(call[r].messageId, next[r] - 1)
    /\ base[r] # NoDoc =>
          /\ base[r] \in docs
          /\ base[r].messageId = call[r].messageId
          /\ base[r].fiscalCode = call[r].fiscalCode
          /\ \A e \in before[r] : e.messageId = base[r].messageId =>
                e.version <= base[r].version + Lag
    /\ made[r] # NoDoc =>
          /\ pc[r] = "answered"
          /\ base[r] # NoDoc
          /\ made[r] = newStatus(r)
          /\ made[r] \in docs
          /\ base[r].version < next[r]
          /\ \A e \in before[r] : e.messageId = call[r].messageId =>
                e.version < next[r]
          /\ answer[r] \in {"IResponseSuccessJson", "IResponseErrorQuery"}
    /\ answer[r] = "IResponseSuccessJson" => made[r] # NoDoc /\ body[r] = made[r]
    /\ before[r] \subseteq docs

NobodyElses == \A q, r \in Request : made[r] # NoDoc /\ q # r => made[q] # made[r]

IInv ==
    /\ TypeOK
    /\ VersionsGapless
    /\ Recipients
    /\ \A r \in Request : Knows(r)
    /\ NobodyElses
    /\ FlagsHaveCause

-----------------------------------------------------------------------------
(* Types.                                                                  *)

\* A change leaves a status document a status document.
LEMMA MapChangeType ==
    ASSUME NEW s \in StatusDoc, NEW c \in Change
    PROVE  /\ mapChange(s, c) \in StatusDoc
           /\ mapChange(s, c).messageId = s.messageId
           /\ mapChange(s, c).fiscalCode = s.fiscalCode
           /\ mapChange(s, c).version = s.version
           /\ mapChange(s, c).status = s.status
           /\ mapChange(s, c).isRead =
                  IF setsRead(c) THEN c.is_read ELSE s.isRead
           /\ mapChange(s, c).isArchived =
                  IF setsArchived(c) THEN c.is_archived ELSE s.isArchived
<1>1. setsRead(c) => c.is_read \in BOOLEAN
  BY DEF Change, ReadingChange, ArchivingChange, BulkChange, setsRead
<1>2. setsArchived(c) => c.is_archived \in BOOLEAN
  BY DEF Change, ReadingChange, ArchivingChange, BulkChange, setsArchived
<1> QED BY <1>1, <1>2 DEF mapChange, StatusDoc

\* The new status of a request that has read a version.
LEMMA NewStatusType ==
    ASSUME TypeOK, NEW r \in Request, base[r] # NoDoc, call[r] \in Call
    PROVE  /\ newStatus(r) \in StatusDoc
           /\ newStatus(r).messageId = base[r].messageId
           /\ newStatus(r).fiscalCode = call[r].fiscalCode
           /\ newStatus(r).version = next[r]
           /\ newStatus(r).status = base[r].status
           /\ newStatus(r).isRead =
                  IF setsRead(call[r].change) THEN call[r].change.is_read
                                              ELSE base[r].isRead
           /\ newStatus(r).isArchived =
                  IF setsArchived(call[r].change) THEN call[r].change.is_archived
                                                  ELSE base[r].isArchived
<1> DEFINE s == mapChange(base[r], call[r].change)
<1>1. base[r] \in StatusDoc /\ call[r].change \in Change
      /\ call[r].fiscalCode \in FiscalCode /\ next[r] \in Nat
  BY DEF TypeOK, Maybe, Call
<1>2. newStatus(r) = [s EXCEPT !.fiscalCode = call[r].fiscalCode, !.version = next[r]]
  BY DEF newStatus
<1>3. /\ s \in StatusDoc
      /\ s.messageId = base[r].messageId
      /\ s.status = base[r].status
      /\ s.isRead = IF setsRead(call[r].change) THEN call[r].change.is_read
                                                ELSE base[r].isRead
      /\ s.isArchived = IF setsArchived(call[r].change)
                            THEN call[r].change.is_archived
                            ELSE base[r].isArchived
  BY <1>1, MapChangeType
<1> HIDE DEF s
<1> QED BY <1>1, <1>2, <1>3 DEF StatusDoc

\* The version that says the message was processed.
LEMMA VersionUpType ==
    ASSUME NEW d \in StatusDoc
    PROVE  [d EXCEPT !.version = d.version + 1, !.status = "PROCESSED"] \in StatusDoc
<1> DEFINE v == d.version + 1
<1>1. v \in Nat
  BY DEF StatusDoc
<1> HIDE DEF v
<1>2. [d EXCEPT !.version = v, !.status = "PROCESSED"] \in StatusDoc
  BY <1>1 DEF StatusDoc
<1> QED BY <1>2 DEF v

LEMMA TypeInit == Init => TypeOK
BY DEF Init, TypeOK, Maybe

LEMMA TypeStep ==
    ASSUME TypeOK, \A r \in Request : Knows(r), [Next]_vars
    PROVE  TypeOK'
<1>1. CASE UNCHANGED vars
  BY <1>1 DEF vars, TypeOK
<1>2. ASSUME NEW m \in Message, AcceptMessage(m)
      PROVE  TypeOK'
  <2>1. [messageId |-> m, version |-> 0, fiscalCode |-> Owner[m], isRead |-> FALSE,
         isArchived |-> FALSE, status |-> "ACCEPTED"] \in StatusDoc
    BY OwnerAssumption DEF OwnerAssumption, StatusDoc
  <2> QED BY <1>2, <2>1 DEF AcceptMessage, TypeOK
<1>3. ASSUME NEW m \in Message, ProcessMessage(m)
      PROVE  TypeOK'
  <2>1. PICK d \in docs :
          docs' = docs \cup {[d EXCEPT !.version = d.version + 1, !.status = "PROCESSED"]}
    BY <1>3 DEF ProcessMessage, versions
  <2>2. [d EXCEPT !.version = d.version + 1, !.status = "PROCESSED"] \in StatusDoc
    BY VersionUpType DEF TypeOK
  <2> QED BY <1>3, <2>1, <2>2 DEF ProcessMessage, TypeOK
<1>4. ASSUME NEW r \in Request, NEW fc \in FiscalCode, NEW m \in Message,
             NEW c \in Asked, Receive(r, fc, m, c)
      PROVE  TypeOK'
  BY <1>4, AskedAssumption DEF Receive, TypeOK, Maybe, Call
<1>5. ASSUME NEW r \in Request, Step(r)
      PROVE  TypeOK'
  <2>1. CASE FindFails(r)
    BY <2>1 DEF FindFails, Respond, TypeOK, ErrorAnswer
  <2>2. CASE FindNone(r)
    BY <2>2 DEF FindNone, Respond, TypeOK, ErrorAnswer
  <2>3. CASE Forbid(r)
    BY <2>3 DEF Forbid, Respond, TypeOK, ErrorAnswer
  <2>4. CASE Find(r)
    BY <2>4 DEF Find, TypeOK, Maybe
  <2>5. CASE Number(r)
    <3>1. PICK d \in docs \cup {NoDoc} :
            next' = [next EXCEPT ![r] = IF d = NoDoc THEN 0 ELSE d.version + 1]
      BY <2>5 DEF Number
    <3>2. (IF d = NoDoc THEN 0 ELSE d.version + 1) \in Nat
      BY <3>1 DEF TypeOK, StatusDoc
    <3> QED BY <2>5, <3>1, <3>2 DEF Number, TypeOK
  <2>6. CASE Create(r)
    <3>1. newStatus(r) \in StatusDoc
      BY <2>6, NewStatusType DEF Create, Knows
    <3> QED BY <2>6, <3>1 DEF Create, Respond, TypeOK, Maybe, ErrorAnswer
  <2>7. CASE Conflict(r)
    BY <2>7 DEF Conflict, Respond, TypeOK, ErrorAnswer
  <2>8. CASE UpsertFails(r)
    BY <2>8 DEF UpsertFails, Respond, TypeOK, ErrorAnswer
  <2> QED BY <1>5, <2>1, <2>2, <2>3, <2>4, <2>5, <2>6, <2>7, <2>8 DEF Step
<1> QED BY <1>1, <1>2, <1>3, <1>4, <1>5 DEF Next

-----------------------------------------------------------------------------
(* The log grows at its end.                                               *)

\* A document created with a free number whose predecessor is there comes after
\* every version of its message, and the log stays gapless.
LEMMA Extend ==
    ASSUME VersionsGapless, docs \subseteq StatusDoc,
           NEW n \in StatusDoc, docs' = docs \cup {n},
           ~taken(n.messageId, n.version),
           n.version = 0 \/ taken(n.messageId, n.version - 1)
    PROVE  /\ VersionsGapless'
           /\ \A d \in docs : d.messageId = n.messageId => d.version < n.version
<1>1. \A d \in docs \cup {n} : d.version \in Nat
  BY DEF StatusDoc
<1>2. ASSUME NEW d \in docs, d.messageId = n.messageId
      PROVE  d.version < n.version
  <2>1. SUFFICES ASSUME n.version <= d.version  PROVE FALSE
    BY <1>1
  <2>2. n.version \in 0..d.version
    BY <1>1, <2>1
  <2> QED BY <1>2, <2>2 DEF VersionsGapless
<1>3. ASSUME NEW m, NEW v, taken(m, v)
      PROVE  taken(m, v)'
  BY <1>3 DEF taken, versions
<1>4. ASSUME NEW d \in docs', NEW v \in 0..d.version
      PROVE  taken(d.messageId, v)'
  <2>1. CASE d \in docs
    BY <1>3, <2>1 DEF VersionsGapless
  <2>2. CASE d = n /\ v = n.version
    BY <2>2 DEF taken, versions
  <2>3. CASE d = n /\ v # n.version
    <3>1. n.version # 0
      BY <1>1, <2>3
    <3>2. PICK p \in docs : p.messageId = n.messageId /\ p.version = n.version - 1
      BY <3>1 DEF taken, versions
    <3>3. v \in 0..p.version
      BY <1>1, <2>3, <3>2
    <3> QED BY <1>3, <2>3, <3>2, <3>3 DEF VersionsGapless
  <2> QED BY <2>1, <2>2, <2>3
<1>5. ASSUME NEW d \in docs', NEW e \in docs',
             d.messageId = e.messageId, d.version = e.version
      PROVE  d = e
  BY <1>1, <1>2, <1>5 DEF VersionsGapless
<1> QED BY <1>2, <1>4, <1>5 DEF VersionsGapless

\* The version that upsert creates, seen from the request that creates it.
LEMMA CreateExtends ==
    ASSUME IInv, NEW r \in Request, Create(r)
    PROVE  /\ newStatus(r) \in StatusDoc
           /\ newStatus(r).messageId = call[r].messageId
           /\ newStatus(r).version = next[r]
           /\ newStatus(r).fiscalCode = base[r].fiscalCode
           /\ base[r] \in docs /\ base[r] # NoDoc /\ made[r] = NoDoc
           /\ base[r].messageId = call[r].messageId
           /\ newStatus(r) \notin docs
           /\ \A d \in docs : d.messageId = call[r].messageId => d.version < next[r]
           /\ base[r].version < next[r]
           /\ VersionsGapless'
<1>1. Knows(r) /\ pc[r] = "create" /\ TypeOK /\ VersionsGapless
  BY DEF IInv, Create
<1>2. /\ newStatus(r) \in StatusDoc
      /\ newStatus(r).messageId = call[r].messageId
      /\ newStatus(r).version = next[r]
      /\ newStatus(r).fiscalCode = base[r].fiscalCode
      /\ base[r] \in docs /\ base[r] # NoDoc /\ made[r] = NoDoc
      /\ base[r].messageId = call[r].messageId
  BY <1>1, NewStatusType DEF Knows
<1>3. /\ docs' = docs \cup {newStatus(r)}
      /\ ~taken(call[r].messageId, next[r])
      /\ next[r] = 0 \/ taken(call[r].messageId, next[r] - 1)
      /\ docs \subseteq StatusDoc
  BY <1>1, <1>2 DEF Create, Knows, TypeOK
<1>4. /\ \A d \in docs : d.messageId = call[r].messageId => d.version < next[r]
      /\ VersionsGapless'
  BY <1>1, <1>2, <1>3, Extend
<1>5. newStatus(r) \notin docs
  BY <1>2, <1>3 DEF taken, versions
<1> QED BY <1>2, <1>4, <1>5

\* The versions the sending services add.
LEMMA ServiceExtends ==
    ASSUME IInv, NEW m \in Message, AcceptMessage(m) \/ ProcessMessage(m)
    PROVE  /\ VersionsGapless'
           /\ Recipients'
           /\ docs \subseteq docs'
           /\ UNCHANGED <<pc, call, base, next, answer, body, made, before>>
           /\ docs' # docs
           /\ \A n \in docs' \ docs :
                 \/ ~n.isRead /\ ~n.isArchived
                 \/ \E d \in docs : /\ d.messageId = n.messageId
                                    /\ d.version <= n.version
                                    /\ d.isRead = n.isRead
                                    /\ d.isArchived = n.isArchived
<1>1. docs \subseteq StatusDoc /\ VersionsGapless /\ Recipients
  BY DEF IInv, TypeOK
<1>2. CASE AcceptMessage(m)
  <2> DEFINE n == [messageId |-> m, version |-> 0, fiscalCode |-> Owner[m],
            isRead |-> FALSE, isArchived |-> FALSE, status |-> "ACCEPTED"]
  <2>1. n \in StatusDoc
    BY OwnerAssumption DEF OwnerAssumption, StatusDoc
  <2>2. /\ n.messageId = m /\ n.version = 0 /\ n.fiscalCode = Owner[m]
        /\ ~n.isRead /\ ~n.isArchived
    OBVIOUS
  <2>3. /\ docs' = docs \cup {n} /\ versions(m) = {}
        /\ UNCHANGED <<pc, call, base, next, answer, body, made, before>>
    BY <1>2 DEF AcceptMessage
  <2> HIDE DEF n
  <2>4. ~taken(n.messageId, n.version)
    BY <2>2, <2>3 DEF taken
  <2>5. VersionsGapless'
    BY <1>1, <2>1, <2>2, <2>3, <2>4, Extend
  <2>6. n \notin docs
    BY <2>2, <2>3 DEF versions
  <2> QED BY <1>1, <2>2, <2>3, <2>5, <2>6 DEF Recipients
<1>3. CASE ProcessMessage(m)
  <2>1. PICK d \in versions(m) :
          /\ \A e \in versions(m) : e.version <= d.version
          /\ docs' = docs \cup
                {[d EXCEPT !.version = d.version + 1, !.status = "PROCESSED"]}
    BY <1>3 DEF ProcessMessage
  <2> DEFINE n == [d EXCEPT !.version = d.version + 1, !.status = "PROCESSED"]
  <2>2. d \in docs /\ d.messageId = m /\ d \in StatusDoc /\ d.version \in Nat
    BY <1>1, <2>1 DEF versions, StatusDoc
  <2>3. n \in StatusDoc
    BY <2>2, VersionUpType
  <2>4. /\ n.messageId = m /\ n.version = d.version + 1
        /\ n.fiscalCode = d.fiscalCode
        /\ n.isRead = d.isRead /\ n.isArchived = d.isArchived
    BY <2>2 DEF StatusDoc
  <2>5. docs' = docs \cup {n}
        /\ UNCHANGED <<pc, call, base, next, answer, body, made, before>>
    BY <1>3, <2>1 DEF ProcessMessage
  <2> HIDE DEF n
  <2>6. ~taken(n.messageId, n.version)
    BY <2>1, <2>2, <2>4 DEF taken
  <2>7. taken(n.messageId, n.version - 1)
    BY <2>1, <2>2, <2>4 DEF taken
  <2>8. VersionsGapless'
    BY <1>1, <2>3, <2>5, <2>6, <2>7, Extend
  <2>9. n \notin docs
    BY <2>6 DEF taken, versions
  <2> QED BY <1>1, <2>2, <2>4, <2>5, <2>8, <2>9 DEF Recipients
<1> QED BY <1>2, <1>3

-----------------------------------------------------------------------------
(* What the requests know.                                                 *)

\* The row of request q is as it was.
SameRow(q) ==
    /\ pc'[q] = pc[q] /\ call'[q] = call[q] /\ base'[q] = base[q]
    /\ next'[q] = next[q] /\ answer'[q] = answer[q] /\ body'[q] = body[q]
    /\ made'[q] = made[q] /\ before'[q] = before[q]

\* What a request knows is not disturbed by documents that others create.
LEMMA KnowsStays ==
    ASSUME NEW q \in Request, Knows(q), SameRow(q), docs \subseteq docs'
    PROVE  Knows(q)'
<1>1. newStatus(q)' = newStatus(q)
  BY DEF newStatus, SameRow
<1>2. \A m, v : taken(m, v) => taken(m, v)'
  BY DEF taken, versions
<1> QED BY <1>1, <1>2 DEF Knows, SameRow

\* A step of a request changes no other row.
LEMMA StepRow ==
    ASSUME TypeOK, NEW r \in Request, NEW q \in Request, q # r, Step(r)
    PROVE  SameRow(q)
BY DEF Step, FindFails, FindNone, Forbid, Find, Number, Create, Conflict,
       UpsertFails, Respond, SameRow, TypeOK

LEMMA KnowsInit == Init => \A r \in Request : Knows(r)
BY DEF Init, Knows

\* A handler step that creates nothing leaves the log and its authors alone.
LEMMA QuietStep ==
    ASSUME NEW r \in Request, Step(r), ~Create(r)
    PROVE  UNCHANGED <<docs, made, call, before>>
BY DEF Step, FindFails, FindNone, Forbid, Find, Number, Conflict, UpsertFails

LEMMA KnowsOwnStep ==
    ASSUME IInv, NEW r \in Request, Step(r)
    PROVE  Knows(r)'
<1>0. TypeOK /\ Knows(r)
  BY DEF IInv
<1>1. CASE FindFails(r) \/ FindNone(r) \/ Forbid(r)
  BY <1>0, <1>1 DEF FindFails, FindNone, Forbid, Respond, Knows, TypeOK, ErrorAnswer
<1>2. CASE Find(r)
  <2>1. PICK d \in docs :
          /\ findLastVersion(call[r].messageId, d)
          /\ d.fiscalCode = call[r].fiscalCode
          /\ base' = [base EXCEPT ![r] = d]
    BY <1>2 DEF Find
  <2>2. d # NoDoc /\ d \in StatusDoc
    BY <1>0, NoDocAssumption DEF TypeOK, NoDocAssumption
  <2>3. /\ d.messageId = call[r].messageId
        /\ \A e \in docs : e.messageId = d.messageId => e.version <= d.version + Lag
    BY <2>1, <2>2 DEF findLastVersion, versions
  <2>4. /\ base'[r] = d /\ pc'[r] = "number" /\ docs' = docs
        /\ UNCHANGED <<call, next, answer, body, made, before>>
        /\ pc[r] = "find"
    BY <1>0, <1>2, <2>1 DEF Find, TypeOK
  <2> QED BY <1>0, <2>1, <2>2, <2>3, <2>4 DEF Knows
<1>3. CASE Number(r)
  <2>1. PICK d \in docs \cup {NoDoc} :
          /\ findLastVersion(base[r].messageId, d)
          /\ next' = [next EXCEPT ![r] = IF d = NoDoc THEN 0 ELSE d.version + 1]
    BY <1>3 DEF Number
  <2>2. /\ pc[r] = "number" /\ pc'[r] = "create" /\ docs' = docs
        /\ UNCHANGED <<call, base, answer, body, made, before>>
        /\ next'[r] = IF d = NoDoc THEN 0 ELSE d.version + 1
    BY <1>0, <1>3, <2>1 DEF Number, TypeOK
  <2>3. (next[r] = 0 \/ taken(call[r].messageId, next[r] - 1))'
    <3>1. CASE d = NoDoc
      BY <2>2, <3>1
    <3>2. CASE d # NoDoc
      <4>1. d \in docs /\ d.version \in Nat
        BY <1>0, <2>1, <3>2 DEF TypeOK, StatusDoc
      <4>2. d \in versions(call[r].messageId)
        BY <1>0, <2>1, <2>2, <3>2 DEF findLastVersion, Knows
      <4>3. next'[r] - 1 = d.version
        BY <2>2, <3>2, <4>1
      <4> QED BY <2>2, <4>2, <4>3 DEF taken, versions
    <3> QED BY <3>1, <3>2
  <2> QED BY <1>0, <2>2, <2>3 DEF Knows
<1>4. CASE Create(r)
  <2>1. /\ base[r] \in docs /\ base[r] # NoDoc /\ newStatus(r) \in StatusDoc
        /\ base[r].messageId = call[r].messageId /\ base[r].version < next[r]
        /\ \A e \in docs : e.messageId = call[r].messageId => e.version < next[r]
    BY <1>4, CreateExtends
  <2>2. newStatus(r) # NoDoc
    BY <2>1, NoDocAssumption DEF NoDocAssumption
  <2>3. /\ pc[r] = "create" /\ pc'[r] = "answered"
        /\ docs' = docs \cup {newStatus(r)} /\ made'[r] = newStatus(r)
        /\ answer'[r] \in {"IResponseSuccessJson", "IResponseErrorQuery"}
        /\ answer'[r] = "IResponseSuccessJson" => body'[r] = newStatus(r)
        /\ UNCHANGED <<call, base, next, before>>
    BY <1>0, <1>4 DEF Create, Respond, TypeOK
  <2>4. newStatus(r)' = newStatus(r)
    BY <2>3 DEF newStatus
  <2> QED BY <1>0, <2>1, <2>2, <2>3, <2>4 DEF Knows
<1>5. CASE Conflict(r) \/ UpsertFails(r)
  BY <1>0, <1>5 DEF Conflict, UpsertFails, Respond, Knows, TypeOK
<1> QED BY <1>1, <1>2, <1>3, <1>4, <1>5 DEF Step

\* Every step leaves every request with what it should know.
LEMMA KnowsStep ==
    ASSUME IInv, [Next]_vars, NEW q \in Request
    PROVE  Knows(q)'
<1>0. TypeOK /\ Knows(q)
  BY DEF IInv
<1>1. CASE UNCHANGED vars
  BY <1>0, <1>1, KnowsStays DEF vars, SameRow
<1>2. ASSUME NEW m \in Message, AcceptMessage(m) \/ ProcessMessage(m)
      PROVE  Knows(q)'
  <2>1. docs \subseteq docs' /\ SameRow(q)
    BY <1>2, ServiceExtends DEF SameRow
  <2> QED BY <1>0, <2>1, KnowsStays
<1>3. ASSUME NEW r \in Request, NEW fc \in FiscalCode, NEW m \in Message,
             NEW c \in Asked, Receive(r, fc, m, c)
      PROVE  Knows(q)'
  <2>1. CASE q = r
    <3>1. [fiscalCode |-> fc, messageId |-> m, change |-> c] \in Call
      BY AskedAssumption DEF AskedAssumption, Call
    <3> QED BY <1>0, <1>3, <2>1, <3>1 DEF Receive, Knows, TypeOK
  <2>2. CASE q # r
    BY <1>0, <1>3, <2>2, KnowsStays DEF Receive, SameRow, TypeOK
  <2> QED BY <2>1, <2>2
<1>4. ASSUME NEW r \in Request, Step(r)
      PROVE  Knows(q)'
  <2>1. CASE q = r
    BY <1>4, <2>1, KnowsOwnStep
  <2>2. CASE q # r
    <3>1. docs \subseteq docs'
      BY <1>4, QuietStep DEF Create
    <3> QED BY <1>0, <1>4, <2>2, <3>1, StepRow, KnowsStays
  <2> QED BY <2>1, <2>2
<1> QED BY <1>1, <1>2, <1>3, <1>4 DEF Next

-----------------------------------------------------------------------------
(* The log: gapless, the recipient's, each version of one request, every   *)
(* flag with its cause.                                                    *)

GoodLog == VersionsGapless /\ Recipients /\ NobodyElses /\ FlagsHaveCause

LEMMA LogInit == Init => GoodLog
BY DEF Init, GoodLog, VersionsGapless, Recipients, NobodyElses, FlagsHaveCause

\* A step that creates no version and touches no author keeps the log good.
LEMMA LogStays ==
    ASSUME GoodLog, docs' = docs, made' = made,
           \A r \in Request : made[r] # NoDoc => call'[r] = call[r]
    PROVE  GoodLog'
<1>1. VersionsGapless' /\ Recipients' /\ NobodyElses'
  BY DEF GoodLog, VersionsGapless, taken, versions, Recipients, NobodyElses
<1>2. \A d : UpTo(d)' = UpTo(d)
  BY DEF UpTo
<1>3. \A d : \A r \in UpTo(d) : call'[r] = call[r]
  BY DEF UpTo
<1>4. FlagsHaveCause'
  BY <1>2, <1>3 DEF GoodLog, FlagsHaveCause
<1> QED BY <1>1, <1>4 DEF GoodLog

\* The sending services' versions copy flags that have their cause.
LEMMA LogService ==
    ASSUME IInv, NEW m \in Message, AcceptMessage(m) \/ ProcessMessage(m)
    PROVE  GoodLog'
<1>1. /\ VersionsGapless' /\ Recipients' /\ docs \subseteq docs'
      /\ UNCHANGED <<made, call>>
      /\ \A n \in docs' \ docs :
                 \/ ~n.isRead /\ ~n.isArchived
                 \/ \E d \in docs : /\ d.messageId = n.messageId
                                    /\ d.version <= n.version
                                    /\ d.isRead = n.isRead
                                    /\ d.isArchived = n.isArchived
  BY ServiceExtends
<1>2. NobodyElses'
  BY <1>1 DEF IInv, NobodyElses
<1>3. ASSUME NEW n \in docs'
      PROVE  /\ n.isRead => \E r \in UpTo(n)' :
                   setsRead(call'[r].change) /\ call'[r].change.is_read
             /\ n.isArchived => \E r \in UpTo(n)' :
                   setsArchived(call'[r].change) /\ call'[r].change.is_archived
  <2>1. CASE n \in docs
    BY <1>1, <2>1 DEF IInv, FlagsHaveCause, UpTo
  <2>2. CASE n \notin docs /\ ~n.isRead /\ ~n.isArchived
    BY <2>2
  <2>3. ASSUME NEW d \in docs, d.messageId = n.messageId, d.version <= n.version,
               d.isRead = n.isRead, d.isArchived = n.isArchived, n \notin docs
        PROVE  /\ n.isRead => \E r \in UpTo(n)' :
                     setsRead(call'[r].change) /\ call'[r].change.is_read
               /\ n.isArchived => \E r \in UpTo(n)' :
                     setsArchived(call'[r].change) /\ call'[r].change.is_archived
    <3>1. /\ d \in StatusDoc /\ d.version \in Nat
          /\ \A r \in Request : made[r] # NoDoc => made[r].version \in Nat
          /\ n.version \in Nat
      <4>1. TypeOK /\ TypeOK'
        BY TypeStep DEF IInv, Next
      <4> QED BY <4>1 DEF TypeOK, Maybe, StatusDoc
    <3>2. UpTo(d) \subseteq UpTo(n)'
      BY <1>1, <2>3, <3>1 DEF UpTo
    <3> QED BY <1>1, <2>3, <3>2 DEF IInv, FlagsHaveCause
  <2> QED BY <1>1, <2>1, <2>2, <2>3
<1> QED BY <1>1, <1>2, <1>3 DEF GoodLog, FlagsHaveCause

\* The version a request creates is nobody else's, and its flags come from the
\* request itself or from the version it read.
LEMMA LogCreate ==
    ASSUME IInv, NEW r \in Request, Create(r)
    PROVE  GoodLog'
<1>0. PICK n : n = newStatus(r)
  OBVIOUS
<1>1. TypeOK /\ Knows(r) /\ GoodLog
  BY DEF IInv, GoodLog
<1>2. /\ n \in StatusDoc /\ n \notin docs
      /\ n.messageId = call[r].messageId
      /\ n.version = next[r]
      /\ n.fiscalCode = base[r].fiscalCode
      /\ base[r] \in docs /\ base[r] # NoDoc /\ made[r] = NoDoc
      /\ base[r].messageId = call[r].messageId
      /\ base[r].version < next[r]
      /\ VersionsGapless'
  BY <1>0, CreateExtends
<1>3. /\ n.isRead = IF setsRead(call[r].change) THEN call[r].change.is_read
                                               ELSE base[r].isRead
      /\ n.isArchived = IF setsArchived(call[r].change)
                           THEN call[r].change.is_archived
                           ELSE base[r].isArchived
  BY <1>0, <1>1, <1>2, NewStatusType DEF Knows, Create
<1>4. /\ docs' = docs \cup {n} /\ made' = [made EXCEPT ![r] = n] /\ call' = call
  BY <1>0 DEF Create
<1>5. n # NoDoc
  BY <1>2, NoDocAssumption DEF NoDocAssumption
<1>6. Recipients'
  BY <1>1, <1>2, <1>4 DEF GoodLog, Recipients
<1>7. \A q \in Request : made[q] # NoDoc => made[q] \in docs
  BY DEF IInv, Knows
<1>8. /\ made'[r] = n
      /\ \A q \in Request : q # r => made'[q] = made[q]
  BY <1>1, <1>4 DEF TypeOK
<1>9. NobodyElses'
  BY <1>1, <1>2, <1>5, <1>7, <1>8 DEF GoodLog, NobodyElses
<1>10. \A d : UpTo(d) \subseteq UpTo(d)'
  BY <1>2, <1>8 DEF UpTo
<1>11. /\ r \in UpTo(n)'
       /\ UpTo(base[r]) \subseteq UpTo(n)'
  <2>1. /\ n.version \in Nat /\ base[r].version \in Nat
        /\ \A q \in Request : made[q] # NoDoc => made[q].version \in Nat
    BY <1>1, <1>2 DEF TypeOK, Maybe, StatusDoc
  <2> QED BY <1>2, <1>5, <1>8, <2>1 DEF UpTo
<1>12. ASSUME NEW d \in docs'
       PROVE  /\ d.isRead => \E q \in UpTo(d)' :
                    setsRead(call'[q].change) /\ call'[q].change.is_read
              /\ d.isArchived => \E q \in UpTo(d)' :
                    setsArchived(call'[q].change) /\ call'[q].change.is_archived
  <2>1. CASE d \in docs
    BY <1>1, <1>4, <1>10, <2>1 DEF GoodLog, FlagsHaveCause
  <2>2. CASE d = n
    <3>1. d.isRead => \E q \in UpTo(d)' :
                    setsRead(call'[q].change) /\ call'[q].change.is_read
      <4>1. CASE setsRead(call[r].change)
        BY <1>3, <1>4, <1>11, <2>2, <4>1
      <4>2. CASE ~setsRead(call[r].change)
        BY <1>1, <1>2, <1>3, <1>4, <1>11, <2>2, <4>2 DEF GoodLog, FlagsHaveCause
      <4> QED BY <4>1, <4>2
    <3>2. d.isArchived => \E q \in UpTo(d)' :
                    setsArchived(call'[q].change) /\ call'[q].change.is_archived
      <4>1. CASE setsArchived(call[r].change)
        BY <1>3, <1>4, <1>11, <2>2, <4>1
      <4>2. CASE ~setsArchived(call[r].change)
        BY <1>1, <1>2, <1>3, <1>4, <1>11, <2>2, <4>2 DEF GoodLog, FlagsHaveCause
      <4> QED BY <4>1, <4>2
    <3> QED BY <3>1, <3>2
  <2> QED BY <1>4, <2>1, <2>2
<1> QED BY <1>2, <1>6, <1>9, <1>12 DEF GoodLog, FlagsHaveCause

LEMMA LogStep ==
    ASSUME IInv, [Next]_vars
    PROVE  GoodLog'
<1>0. TypeOK /\ GoodLog /\ \A r \in Request : Knows(r)
  BY DEF IInv, GoodLog
<1>1. CASE UNCHANGED vars
  BY <1>0, <1>1, LogStays DEF vars
<1>2. ASSUME NEW m \in Message, AcceptMessage(m) \/ ProcessMessage(m)
      PROVE  GoodLog'
  BY <1>2, LogService
<1>3. ASSUME NEW r \in Request, NEW fc \in FiscalCode, NEW m \in Message,
             NEW c \in Asked, Receive(r, fc, m, c)
      PROVE  GoodLog'
  <2>1. \A q \in Request : made[q] # NoDoc => call'[q] = call[q]
    BY <1>0, <1>3 DEF Receive, Knows, TypeOK
  <2> QED BY <1>0, <1>3, <2>1, LogStays DEF Receive
<1>4. ASSUME NEW r \in Request, Step(r)
      PROVE  GoodLog'
  <2>1. CASE Create(r)
    BY <2>1, LogCreate
  <2>2. CASE ~Create(r)
    BY <1>0, <1>4, <2>2, QuietStep, LogStays
  <2> QED BY <2>1, <2>2
<1> QED BY <1>1, <1>2, <1>3, <1>4 DEF Next

-----------------------------------------------------------------------------
(* The theorems.                                                           *)

\* The inductive invariant holds in every reachable state.
THEOREM Inductive == Spec => []IInv
<1>1. Init => IInv
  BY TypeInit, KnowsInit, LogInit DEF IInv, GoodLog
<1>2. IInv /\ [Next]_vars => IInv'
  <2> SUFFICES ASSUME IInv, [Next]_vars  PROVE IInv'
    OBVIOUS
  <2>1. TypeOK'
    BY TypeStep DEF IInv
  <2>2. (\A r \in Request : Knows(r))'
    BY KnowsStep
  <2>3. GoodLog'
    BY LogStep
  <2> QED BY <2>1, <2>2, <2>3 DEF IInv, GoodLog
<1> QED BY <1>1, <1>2, PTL DEF Spec

\* Every variable of UpsertMessageStatusHandler's requests has its type.
THEOREM TypeCorrect == Spec => []TypeOK
<1>1. IInv => TypeOK
  BY DEF IInv
<1> QED BY <1>1, Inductive, PTL

\* However requests race for version numbers, and however far reads lag, the
\* versions of a message are numbered without gap or duplicate.
THEOREM Gapless == Spec => []VersionsGapless
<1>1. IInv => VersionsGapless
  BY DEF IInv
<1> QED BY <1>1, Inductive, PTL

\* Only the recipient of a message writes its status (the 403 of the handler).
THEOREM RecipientOnly == Spec => []OnlyRecipientWrites
<1>1. IInv => OnlyRecipientWrites
  <2> SUFFICES ASSUME IInv  PROVE OnlyRecipientWrites
    OBVIOUS
  <2>1. ASSUME NEW r \in Request, made[r] # NoDoc
        PROVE  /\ call[r].fiscalCode = Owner[call[r].messageId]
               /\ made[r].messageId = call[r].messageId
    <3>1. TypeOK /\ Knows(r) /\ Recipients /\ base[r] # NoDoc /\ call[r] \in Call
      BY <2>1 DEF IInv, Knows
    <3>2. made[r].messageId = base[r].messageId
      BY <2>1, <3>1, NewStatusType DEF Knows
    <3> QED BY <3>1, <3>2 DEF Knows, Recipients
  <2> QED BY <2>1 DEF IInv, Recipients, OnlyRecipientWrites
<1> QED BY <1>1, Inductive, PTL

\* A response tells the log: what a success carries is stored, as this request's
\* own version; a refusal has stored nothing.
THEOREM ToldTheLog == Spec => []ResponsesTellTheLog
<1>1. IInv => ResponsesTellTheLog
  BY DEF IInv, Knows, NobodyElses, ResponsesTellTheLog
<1> QED BY <1>1, Inductive, PTL

\* A flag is set in a version only when a request of its history asked for it.
THEOREM Caused == Spec => []FlagsHaveCause
<1>1. IInv => FlagsHaveCause
  BY DEF IInv
<1> QED BY <1>1, Inductive, PTL

\* A request no write overlaps sets the flags it names, as it asks, and leaves the
\* others as they were.
THEOREM RaceFree == Spec => []RaceFreeKeepsFlags
<1>1. IInv => RaceFreeKeepsFlags
  <2> SUFFICES ASSUME IInv, NEW r \in Request, NEW d \in docs,
                      ReadMissedNothing(r), made[r] # NoDoc, d.messageId = made[r].messageId,
                      d.version + 1 = made[r].version, d \in before[r]
               PROVE  SetsFlagsAsked(r) /\ KeepsFlagsOf(r, d) /\ made[r].status = d.status
    BY DEF RaceFreeKeepsFlags
  <2>1. TypeOK /\ VersionsGapless /\ Knows(r) /\ call[r] \in Call
        /\ base[r] # NoDoc /\ base[r] \in docs /\ made[r] = newStatus(r)
        /\ base[r].version < next[r]
    BY DEF IInv, Knows
  <2>2. /\ made[r].messageId = base[r].messageId
        /\ made[r].version = next[r]
        /\ made[r].status = base[r].status
        /\ made[r].isRead =
              IF setsRead(call[r].change) THEN call[r].change.is_read
                                          ELSE base[r].isRead
        /\ made[r].isArchived =
              IF setsArchived(call[r].change) THEN call[r].change.is_archived
                                              ELSE base[r].isArchived
    BY <2>1, NewStatusType
  <2>3. d.version <= base[r].version
    BY <2>1, <2>2 DEF ReadMissedNothing
  <2>4. d.version = base[r].version
    <3>1. d.version \in Nat /\ base[r].version \in Nat /\ next[r] \in Nat
      BY <2>1 DEF TypeOK, StatusDoc
    <3> QED BY <2>1, <2>2, <2>3, <3>1
  <2>5. d = base[r]
    BY <2>1, <2>2, <2>4 DEF VersionsGapless
  <2> QED BY <2>2, <2>5 DEF KeepsFlagsOf, SetsFlagsAsked
<1> QED BY <1>1, Inductive, PTL

\* A request undoes no change that was settled when it was received, but those its
\* read lags behind.
THEOREM SettledStay == Spec => []SettledChangesStay
<1>1. IInv => SettledChangesStay
  <2> SUFFICES ASSUME IInv, NEW r \in Request, made[r] # NoDoc
               PROVE  \E b \in versions(made[r].messageId) :
                         /\ SetsFlagsAsked(r) /\ KeepsFlagsOf(r, b)
                         /\ made[r].status = b.status
                         /\ b.version < made[r].version
                         /\ \A d \in before[r] : d.messageId = b.messageId =>
                               /\ d.version <= b.version + Lag
                               /\ d.version < made[r].version
    BY DEF SettledChangesStay
  <2>1. TypeOK /\ Knows(r) /\ call[r] \in Call /\ base[r] # NoDoc
    BY DEF IInv, Knows
  <2>2. /\ base[r] \in docs
        /\ base[r].messageId = call[r].messageId
        /\ made[r] = newStatus(r)
        /\ base[r].version < next[r]
        /\ \A d \in before[r] : d.messageId = call[r].messageId =>
              d.version <= base[r].version + Lag /\ d.version < next[r]
    BY <2>1 DEF Knows
  <2>3. /\ made[r].messageId = base[r].messageId
        /\ made[r].version = next[r]
        /\ made[r].status = base[r].status
        /\ SetsFlagsAsked(r) /\ KeepsFlagsOf(r, base[r])
    BY <2>1, <2>2, NewStatusType DEF KeepsFlagsOf, SetsFlagsAsked
  <2>4. base[r] \in versions(made[r].messageId)
    BY <2>2, <2>3 DEF versions
  <2> QED BY <2>2, <2>3, <2>4
<1> QED BY <1>1, Inductive, PTL

-----------------------------------------------------------------------------
(* The collection implements the log of StatusLog: a create maps to Apply, *)
(* every other step of a request to a stutter.                             *)

Effective == {r \in Request : made[r] # NoDoc}

\* A created version is an earlier one, with the change, at the end of the log.
LEMMA CreateApplies ==
    ASSUME IInv, NEW r \in Request, Create(r)
    PROVE  Abstract!Apply(r)
<1> DEFINE n == newStatus(r)
           s == mapChange(base[r], call[r].change)
<1>1. TypeOK /\ Knows(r) /\ VersionsGapless
  BY DEF IInv
<1>2. /\ n \in StatusDoc /\ n.messageId = call[r].messageId
      /\ base[r] \in docs /\ base[r] # NoDoc /\ made[r] = NoDoc
      /\ base[r].messageId = call[r].messageId
      /\ base[r].version < next[r]
      /\ \A e \in docs : e.messageId = call[r].messageId => e.version < next[r]
  BY CreateExtends
<1>3. /\ docs' = docs \cup {n} /\ made' = [made EXCEPT ![r] = n]
      /\ pc[r] = "create"
  BY DEF Create
<1>4. /\ call[r].change \in Change /\ base[r] \in StatusDoc
      /\ base[r].fiscalCode = call[r].fiscalCode
      /\ next[r] \in Nat /\ \A e \in docs : e.version \in Nat
  BY <1>1, <1>2, <1>3 DEF TypeOK, Knows, Call, StatusDoc
<1>5. next[r] # 0
  BY <1>2, <1>4
<1>6. PICK d \in docs : d.messageId = base[r].messageId /\ d.version = next[r] - 1
  BY <1>1, <1>2, <1>3, <1>5 DEF Knows, taken, versions
<1>7. d \in Abstract!entries(base[r].messageId) /\ Abstract!IsLast(d)
  BY <1>2, <1>4, <1>6 DEF Abstract!entries, Abstract!IsLast
<1>8. n = [s EXCEPT !.version = d.version + 1]
  <2>1. s \in StatusDoc /\ s.fiscalCode = call[r].fiscalCode
    BY <1>4, MapChangeType
  <2>2. next[r] = d.version + 1
    BY <1>4, <1>6
  <2>3. n = [s EXCEPT !.fiscalCode = call[r].fiscalCode, !.version = next[r]]
    BY DEF newStatus
  <2> HIDE DEF s, n
  <2>4. [s EXCEPT !.fiscalCode = call[r].fiscalCode] = s
    BY <2>1 DEF StatusDoc
  <2> QED BY <2>2, <2>3, <2>4
<1>9. Effective' = Effective \cup {r} /\ r \notin Effective
  <2>1. n # NoDoc
    BY <1>2, NoDocAssumption DEF NoDocAssumption
  <2> HIDE DEF n
  <2> QED BY <1>1, <1>2, <1>3, <2>1 DEF Effective, TypeOK
<1> HIDE DEF n
<1>10. docs' = docs \cup {[mapChange(base[r], call[r].change) EXCEPT
                              !.version = d.version + 1]}
  BY <1>3, <1>8
<1>11. /\ Abstract!mapChange(base[r], call[r].change) =
            mapChange(base[r], call[r].change)
       /\ Abstract!Change = Change
  BY DEF Abstract!mapChange, Abstract!setsRead, Abstract!setsArchived,
         mapChange, setsRead, setsArchived,
         Abstract!Change, Abstract!ReadingChange, Abstract!ArchivingChange,
         Abstract!BulkChange, Change, ReadingChange, ArchivingChange, BulkChange
<1>12. docs' = docs \cup {[Abstract!mapChange(base[r], call[r].change) EXCEPT
                              !.version = d.version + 1]}
       /\ call[r].change \in Abstract!Change
  BY <1>4, <1>10, <1>11
<1> QED BY <1>2, <1>7, <1>9, <1>12 DEF Abstract!Apply, Effective

LEMMA StepImplements ==
    ASSUME IInv, [Next]_vars
    PROVE  [Abstract!Next]_(Abstract!logVars)
<1>0. TypeOK /\ \A r \in Request : Knows(r)
  BY DEF IInv
<1>1. ASSUME UNCHANGED <<docs, made>>
      PROVE  UNCHANGED Abstract!logVars
  BY <1>1 DEF Abstract!logVars
<1>2. CASE UNCHANGED vars
  BY <1>1, <1>2 DEF vars
<1>3. ASSUME NEW m \in Message, AcceptMessage(m)
      PROVE  Abstract!Accept(m)
  BY <1>3 DEF AcceptMessage, versions, Abstract!Accept, Abstract!entries
<1>4. ASSUME NEW m \in Message, ProcessMessage(m)
      PROVE  Abstract!Process(m)
  BY <1>4 DEF ProcessMessage, versions, Abstract!Process, Abstract!entries,
              Abstract!IsLast
<1>5. ASSUME NEW r \in Request, NEW fc \in FiscalCode, NEW m \in Message,
             NEW c \in Asked, Receive(r, fc, m, c)
      PROVE  UNCHANGED Abstract!logVars
  BY <1>1, <1>5 DEF Receive
<1>6. ASSUME NEW r \in Request, Step(r)
      PROVE  [Abstract!Next]_(Abstract!logVars)
  BY <1>1, <1>6, CreateApplies, QuietStep DEF Abstract!Next
<1> QED BY <1>2, <1>3, <1>4, <1>5, <1>6 DEF Next, Abstract!Next

\* The message-status collection is an append-only, gapless log to which every
\* request adds at most one entry: no version is ever changed or removed.
THEOREM Implements == Spec => ImplementsStatusLog
<1>1. Init => Abstract!Init
  BY DEF Init, Abstract!Init
<1>2. IInv /\ [Next]_vars => [Abstract!Next]_(Abstract!logVars)
  BY StepImplements
<1> QED BY <1>1, <1>2, Inductive, PTL DEF Spec, ImplementsStatusLog, Abstract!Spec

=============================================================================
