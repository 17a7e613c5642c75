-------------------------- MODULE EagerPageRefinement --------------------------
(***************************************************************************)
(* Proof that EagerPage implements LazyPage: promises that are started     *)
(* together and settle in any order give the pages of messages that are    *)
(* enriched one by one.  It rests on the invariant of EagerPageProofs: the *)
(* messages asked for and not listed are those awaited, so what a page     *)
(* waits for next is what it would ask for next.                           *)
(***************************************************************************)
EXTENDS EagerPageProofs

\* The variables of LazyPage.
states == [r \in Request |-> StateOf(r)]
found  == [r \in Request |-> Offered(r)]
errors == [r \in Request |-> ErrorsOf(r)]

\* Promises are only rejected for content that is missing.
RejectedLackContent ==
    \A r \in Request, m \in Message : promise[r][m] = "rejected" => m \in noContent

-----------------------------------------------------------------------------
(* Rejected promises.                                                      *)

\* The steps that are not of promises reject none.
LEMMA YieldLacks ==
    ASSUME TypeOK, RejectedLackContent, NEW r \in Request, NEW kept,
           NEW state \in {"content", "left"}, Yield(r, kept, state)
    PROVE  RejectedLackContent'
BY DEF Yield, TypeOK, RejectedLackContent

LEMMA SettleLacks ==
    ASSUME TypeOK, RejectedLackContent, NEW r \in Request, NEW m \in Message, NEW from,
           NEW to, to # "rejected", Settle(r, m, from, to)
    PROVE  RejectedLackContent'
BY DEF Settle, TypeOK, RejectedLackContent

LEMMA RejectedStep ==
    ASSUME TypeOK, RejectedLackContent, [Next]_vars
    PROVE  RejectedLackContent'
<1>1. CASE UNCHANGED vars
  BY <1>1 DEF vars, RejectedLackContent
<1>2. ASSUME NEW r \in Request, Ask(r) \/ getMessagesFromFallback(r)
      PROVE  RejectedLackContent'
  <2>1. CASE enrichContentData(r) \/ StatusFails(r)
    BY <2>1, YieldLacks DEF enrichContentData, StatusFails
  <2>2. CASE ~(enrichContentData(r) \/ StatusFails(r))
    <3>1. promise' = promise
      BY <1>2, <2>2 DEF Ask, getMessagesFromFallback, NextChunk, Documents, QueryFails,
         StatusMissing, PageEnds, Collect, PageFull, PageRejected
    <3> QED BY <3>1 DEF RejectedLackContent
  <2> QED BY <2>1, <2>2
<1>3. ASSUME NEW r \in Request, NEW m \in Message, Promise(r, m)
      PROVE  RejectedLackContent'
  <2>1. CASE ContentMissing(r, m)
    BY <2>1 DEF ContentMissing, Rejects, TypeOK, RejectedLackContent
  <2>2. CASE ProcessExits(r, m)
    BY <2>2 DEF ProcessExits, TypeOK, RejectedLackContent
  <2>3. CASE ContentFound(r, m) \/ ContentFails(r, m) \/ ConfigurationFound(r, m)
             \/ ConfigurationFails(r, m)
    BY <2>3, SettleLacks
       DEF ContentFound, ContentFails, ConfigurationFound, ConfigurationFails
  <2> QED BY <1>3, <2>1, <2>2, <2>3 DEF Promise
<1> QED BY <1>1, <1>2, <1>3 DEF Next

LEMMA RejectedInductive == Spec => []RejectedLackContent
<1>1. Init => RejectedLackContent
  BY DEF Init, RejectedLackContent
<1> QED BY <1>1, RejectedStep, TypeCorrect, PTL DEF Spec

-----------------------------------------------------------------------------
(* What LazyPage sees of a request.                                        *)

\* A step of one request changes what is seen of that one.
LEMMA OneSeen ==
    ASSUME NEW r \in Request, \A q \in Request \ {r} : SameRow(q)
    PROVE  /\ states' = [states EXCEPT ![r] = StateOf(r)']
           /\ found' = [found EXCEPT ![r] = Offered(r)']
           /\ errors' = [errors EXCEPT ![r] = ErrorsOf(r)']
<1>1. ASSUME NEW q \in Request \ {r}
      PROVE  /\ StateOf(q)' = StateOf(q) /\ Offered(q)' = Offered(q)
             /\ ErrorsOf(q)' = ErrorsOf(q)
  BY DEF SameRow, StateOf, Offered, ErrorsOf, Listed
<1> QED BY <1>1 DEF states, found, errors

\* As long as no promise and no page changes, nothing is found and nothing fails.
LEMMA SameSeen ==
    ASSUME promise' = promise, results' = results
    PROVE  found' = found /\ errors' = errors
BY DEF found, errors, Offered, ErrorsOf, Listed

\* What was found and is not listed is awaited.
LEMMA WaitingIsAwaited ==
    ASSUME IInv, NEW r \in Request
    PROVE  /\ Abstract!waiting(r) = awaited[r]
           /\ found[r] = Offered(r) /\ states[r] = StateOf(r) /\ errors[r] = ErrorsOf(r)
<1>1. Abstract!waiting(r) = Offered(r) \ Listed(r)
  BY DEF Abstract!waiting, Listed
<1>2. GoodRow(r)
  BY DEF IInv
<1>3. \A m \in awaited[r] : m \in Message /\ m \notin Listed(r)
  <2>1. \A m \in awaited[r] : m \in Int /\ m \in Message
    BY ListedOffered DEF Message
  <2> QED BY <1>2, <2>1, ListedOffered DEF GoodRow, Good, Ordered
<1> QED BY <1>1, <1>3, ListedOffered DEF found, states, errors

LEMMA NextIsAwaited ==
    ASSUME IInv, NEW r \in Request, NEW m \in Message, IsAwaited(r, m)
    PROVE  Abstract!IsNext(r, m)
BY WaitingIsAwaited DEF IsAwaited, Abstract!IsNext, StateOf, states

\* Before a chunk is there, everything found is listed.
LEMMA NothingAwaited ==
    ASSUME IInv, NEW r \in Request, pc[r] \in {"next", "statuses"}
    PROVE  Abstract!NeedsMore(r) /\ awaited[r] = {} /\ Offered(r) = Listed(r)
<1>1. GoodRow(r)
  BY DEF IInv
<1>2. awaited[r] = {}
  BY <1>1 DEF GoodRow, Good, Staged
<1>3. Offered(r) = Listed(r)
  BY <1>2, ListedOffered
<1> QED BY <1>2, <1>3, WaitingIsAwaited DEF Abstract!NeedsMore, StateOf, states

\* The errors of a page are what makes it fail.
LEMMA ErrorsFail ==
    ASSUME IInv, NEW r \in Request
    PROVE  ErrorsOf(r) = {} <=> ~SomeLeft(r)
BY SomeLeftMeans, ListedOffered DEF ErrorsOf

-----------------------------------------------------------------------------
(* The steps.                                                              *)

LEMMA AskImplements ==
    ASSUME IInv, NEW r \in Request, Ask(r)
    PROVE  Abstract!Ask(r)
<1>1. \A q \in Request \ {r} : SameRow(q)
  BY DEF Ask, IInv, TypeOK, SameRow
<1>2. states[r] = "idle" /\ StateOf(r)' = "open"
  BY WaitingIsAwaited DEF Ask, IInv, TypeOK, StateOf
<1>3. states' = [states EXCEPT ![r] = "open"]
  BY <1>1, <1>2, OneSeen
<1> QED BY <1>2, <1>3, SameSeen DEF Ask, Abstract!Ask, states, found, errors

LEMMA ReadImplements ==
    ASSUME IInv, NEW r \in Request, NextChunk(r)
    PROVE  Abstract!Read(r)
<1>1. PICK n \in position[r] + 1 .. Last :
          n <= position[r] + MaxChunk /\ position' = [position EXCEPT ![r] = n]
  BY DEF NextChunk, Documents
<1>2. pc[r] = "next" /\ pc' = [pc EXCEPT ![r] = "statuses"]
  BY DEF NextChunk, Documents
<1>3. \A q \in Request : StateOf(q)' = StateOf(q)
  BY <1>2 DEF IInv, TypeOK, StateOf
<1>4. states' = states
  BY <1>3 DEF states
<1> QED BY <1>1, <1>2, <1>4, NothingAwaited, SameSeen
        DEF NextChunk, Documents, Abstract!Read, states, found, errors

LEMMA FindImplements ==
    ASSUME IInv, NEW r \in Request, pc[r] = "statuses", NEW kept \in SUBSET chunk[r],
           NEW state \in {"content", "left"}, Yield(r, kept, state)
    PROVE  Abstract!Find(r)
<1>1. GoodRow(r) /\ TypeOK /\ kept \in SUBSET Message /\ promise[r] \in [Message -> Promises]
  BY DEF IInv, TypeOK, Promises
<1>2. /\ \A q \in Request \ {r} : SameRow(q)
      /\ promise'[r] = [m \in Message |-> IF m \in kept THEN state ELSE promise[r][m]]
      /\ pc'[r] \in {"next", "await"} /\ results' = results
  BY <1>1 DEF Yield, TypeOK, SameRow
<1>3. \A n \in Listed(r), m \in kept : n < m /\ n \in Int /\ n \notin kept
  <2>1. \A n \in Listed(r), m \in kept : n < m
    BY <1>1, ListedOffered DEF GoodRow, Good, Staged
  <2>2. Listed(r) \subseteq Int
    BY ListedOffered DEF Message
  <2> QED BY <2>1, <2>2
<1>4. Offered(r)' = Offered(r) \cup kept
  BY <1>1, <1>2 DEF Offered
<1>5. ErrorsOf(r)' = ErrorsOf(r) /\ StateOf(r)' = StateOf(r)
  BY <1>1, <1>2, <1>3, ListedOffered DEF ErrorsOf, StateOf, Listed
<1>6. /\ states' = states /\ errors' = errors
      /\ found' = [found EXCEPT ![r] = Offered(r) \cup kept]
  BY <1>2, <1>4, <1>5, OneSeen DEF states, errors
<1>7. \A m \in kept : position[r] - MaxChunk < m /\ m <= position[r]
  BY <1>1 DEF GoodRow, Good, Ordered
<1>8. \A n \in Offered(r), m \in kept : n < m
  BY <1>3, NothingAwaited
<1>9. UNCHANGED <<pageSize, position, results, answer, next>>
  BY DEF Yield
<1> QED BY <1>1, <1>6, <1>7, <1>8, <1>9, NothingAwaited, WaitingIsAwaited
        DEF Abstract!Find, Abstract!Message, Message, states, found, errors

LEMMA TakeImplements ==
    ASSUME IInv, NEW r \in Request, NEW m \in Message, Collect(r, m)
    PROVE  Abstract!Take(r)
<1>1. TypeOK /\ results[r] \in Seq(Message) /\ IsAwaited(r, m)
  BY DEF IInv, TypeOK, Collect, Collectable
<1>2. /\ \A q \in Request \ {r} : SameRow(q)
      /\ results' = [results EXCEPT ![r] = Append(results[r], m)]
      /\ results'[r] = Append(results[r], m)
      /\ pc[r] = "await" /\ pc'[r] \in {"next", "await"}
      /\ promise' = promise /\ promise[r][m] \in Settled
      /\ Len(results[r]) < pageSize[r]
  BY <1>1 DEF Collect, Collectable, IsAwaited, TypeOK, SameRow
<1>3. Listed(r)' = Listed(r) \cup {m}
  BY <1>1, <1>2, ElementsAppend DEF Listed, Elements
<1>4. \/ ErrorsOf(r)' = ErrorsOf(r)
      \/ ErrorsOf(r)' = ErrorsOf(r) \cup {m}
  BY <1>2, <1>3 DEF ErrorsOf
<1>5. Offered(r)' = Offered(r) /\ StateOf(r)' = StateOf(r)
  BY <1>2 DEF Offered, StateOf
<1>6. /\ states' = states /\ found' = found
      /\ errors' \in {errors, [errors EXCEPT ![r] = errors[r] \cup {m}]}
  BY <1>2, <1>4, <1>5, OneSeen DEF states, found, errors
<1>7. UNCHANGED <<pageSize, position, answer, next>>
  BY DEF Collect
<1> QED BY <1>1, <1>2, <1>6, <1>7, NextIsAwaited
        DEF Abstract!Take, Abstract!Message, Message, states, found, errors

\* An answer is seen as one, with its cursor.
LEMMA AnswerSeen ==
    ASSUME IInv, NEW r \in Request, NEW a, Answer(r, a), NEW c \in 0..Last,
           next' = [next EXCEPT ![r] = c],
           UNCHANGED <<pageSize, position, chunk, awaited, promise, results>>
    PROVE  Abstract!Answer(r, a, c)
<1>1. \A q \in Request \ {r} : SameRow(q)
  BY DEF IInv, TypeOK, Answer, SameRow
<1>2. StateOf(r)' = "answered"
  BY DEF Answer, IInv, TypeOK, StateOf
<1>3. states' = [states EXCEPT ![r] = "answered"]
  BY <1>1, <1>2, OneSeen
<1> QED BY <1>3, SameSeen DEF Answer, Abstract!Answer, states, found, errors

\* A request that is not answered has no cursor.
LEMMA NoCursorYet ==
    ASSUME IInv, NEW r \in Request, pc[r] # "answered", next' = next
    PROVE  next' = [next EXCEPT ![r] = 0] /\ 0 \in 0..Last
<1>1. GoodRow(r) /\ TypeOK
  BY DEF IInv
<1>2. next[r] = 0
  BY <1>1 DEF GoodRow, Good, Ended
<1> QED BY <1>1, <1>2, SizeAssumption DEF TypeOK, SizeAssumption

LEMMA FullImplements ==
    ASSUME IInv, NEW r \in Request, NEW m \in Message, PageFull(r, m)
    PROVE  Abstract!Full(r)
<1>1. /\ IsAwaited(r, m) /\ Len(results[r]) = pageSize[r] /\ pc[r] = "await"
      /\ UNCHANGED <<pageSize, position, chunk, awaited, promise, results>>
  BY DEF PageFull, Collectable, IsAwaited
<1>2. Abstract!IsNext(r, m)
  BY <1>1, NextIsAwaited
<1>3. Abstract!AnswerPage(r, cursor(r))
  <2>1. CASE SomeLeft(r)
    <3>1. Answer(r, "Cannot enrich data") /\ next' = [next EXCEPT ![r] = 0] /\ 0 \in 0..Last
      BY <1>1, <2>1, NoCursorYet DEF PageFull
    <3>2. Abstract!Answer(r, "Cannot enrich data", 0)
      BY <1>1, <3>1, AnswerSeen
    <3> QED BY <2>1, <3>2, ErrorsFail DEF Abstract!AnswerPage
  <2>2. CASE ~SomeLeft(r)
    <3>1. Answer(r, "page") /\ next' = [next EXCEPT ![r] = cursor(r)]
      BY <2>2 DEF PageFull
    <3>2. cursor(r) \in 0..Last
      <4>1. results[r] \in Seq(Message) /\ Message \subseteq 0..Last /\ 0 \in 0..Last
        <5>1. \A i \in Message : i \in 0..Last
          BY SizeAssumption DEF Message, SizeAssumption
        <5>2. results[r] \in Seq(Message)
          BY DEF IInv, TypeOK
        <5>3. 0 \in 0..Last
          BY SizeAssumption DEF SizeAssumption
        <5> QED BY <5>1, <5>2, <5>3
      <4>2. results[r] # <<>> => results[r][Len(results[r])] \in Message
        BY <4>1
      <4> QED BY <4>1, <4>2 DEF cursor
    <3>3. Abstract!Answer(r, "page", cursor(r))
      BY <1>1, <3>1, <3>2, AnswerSeen
    <3> QED BY <2>2, <3>3, ErrorsFail DEF Abstract!AnswerPage
  <2> QED BY <2>1, <2>2
<1> QED BY <1>1, <1>2, <1>3 DEF Abstract!Full, Abstract!Message, Message, cursor

LEMMA EndImplements ==
    ASSUME IInv, NEW r \in Request, PageEnds(r)
    PROVE  Abstract!End(r)
<1>1. /\ pc[r] = "next" /\ position[r] = Last
      /\ UNCHANGED <<pageSize, position, chunk, awaited, promise, results>>
      /\ Answer(r, IF SomeLeft(r) THEN "Cannot enrich data" ELSE "page")
  BY DEF PageEnds
<1>2. next' = [next EXCEPT ![r] = 0] /\ 0 \in 0..Last
  BY <1>1, NoCursorYet DEF PageEnds
<1>3. Abstract!Answer(r, IF SomeLeft(r) THEN "Cannot enrich data" ELSE "page", 0)
  BY <1>1, <1>2, AnswerSeen
<1>4. Abstract!AnswerPage(r, 0)
  BY <1>3, ErrorsFail DEF Abstract!AnswerPage
<1> QED BY <1>1, <1>4, NothingAwaited DEF Abstract!End

LEMMA FailImplements ==
    ASSUME IInv, NEW r \in Request, QueryFails(r) \/ StatusMissing(r)
    PROVE  Abstract!Fail(r)
<1>1. /\ pc[r] \in {"next", "statuses"} /\ next' = next
      /\ UNCHANGED <<pageSize, position, chunk, awaited, promise, results>>
  BY DEF QueryFails, StatusMissing
<1>2. PICK a \in {"query failed", "no status"} : Answer(r, a)
  BY DEF QueryFails, StatusMissing
<1>3. Abstract!Answer(r, a, 0)
  BY <1>1, <1>2, NoCursorYet, AnswerSeen
<1> QED BY <1>1, <1>3, NothingAwaited DEF Abstract!Fail

LEMMA RejectImplements ==
    ASSUME IInv, RejectedLackContent, NEW r \in Request, NEW m \in Message,
           PageRejected(r, m)
    PROVE  Abstract!Reject(r)
<1>1. /\ IsAwaited(r, m) /\ pc[r] = "await" /\ m \in noContent /\ next' = next
      /\ Answer(r, "rejected")
      /\ UNCHANGED <<pageSize, position, chunk, awaited, promise, results>>
  BY DEF PageRejected, IsAwaited, RejectedLackContent
<1>2. Abstract!Answer(r, "rejected", 0)
  BY <1>1, NoCursorYet, AnswerSeen
<1> QED BY <1>1, <1>2, NextIsAwaited DEF Abstract!Reject

\* Promises that settle are not of the page yet: what is listed has settled before.
LEMMA RunningUnseen ==
    ASSUME IInv, results' = results, NEW r \in Request,
           \A m \in Message :
              \/ promise'[r][m] = promise[r][m]
              \/ promise[r][m] \in Running /\ promise'[r][m] # "none"
    PROVE  Offered(r)' = Offered(r) /\ ErrorsOf(r)' = ErrorsOf(r)
<1>1. GoodRow(r)
  BY DEF IInv
<1>2. \A m \in Listed(r) : m \in Message /\ promise'[r][m] = promise[r][m]
  BY <1>1, ListedOffered DEF GoodRow, Good, Ordered, Running, Settled
<1>3. \A m \in Message : promise'[r][m] # "none" <=> promise[r][m] # "none"
  BY DEF Running
<1> QED BY <1>2, <1>3 DEF Offered, ErrorsOf, Listed

LEMMA SettleImplements ==
    ASSUME IInv, NEW r \in Request, NEW m \in Message, promise[r][m] \in Running,
           NEW to, to # "none", promise' = [promise EXCEPT ![r][m] = to], UNCHANGED work
    PROVE  UNCHANGED Abstract!vars
<1>1. \A q \in Request, k \in Message :
          \/ promise'[q][k] = promise[q][k]
          \/ promise[q][k] \in Running /\ promise'[q][k] # "none"
  BY DEF IInv, TypeOK
<1>2. \A q \in Request : Offered(q)' = Offered(q) /\ ErrorsOf(q)' = ErrorsOf(q)
  BY <1>1, RunningUnseen DEF work
<1>3. \A q \in Request : StateOf(q)' = StateOf(q)
  BY DEF work, StateOf
<1> QED BY <1>2, <1>3 DEF Abstract!vars, work

LEMMA ExitImplements ==
    ASSUME IInv, NEW r \in Request, NEW m \in Message, ProcessExits(r, m)
    PROVE  Abstract!Exit
<1>1. /\ m \in noContent /\ promise[r][m] \in Running /\ ~IsAwaited(r, m)
      /\ GoodRow(r) /\ TypeOK
      /\ UNCHANGED <<pageSize, position, chunk, awaited, results, answer, next>>
  BY DEF ProcessExits, Rejects, Running, IInv
<1>2. m \in awaited[r] /\ awaited[r] \subseteq chunk[r] /\ awaited[r] \subseteq Message
  BY <1>1, ListedOffered DEF GoodRow, Good, Ordered, Running, Settled
<1>3. PICK n \in awaited[r] : n < m
  <2>1. CASE pc[r] = "await"
    <3>1. \A k \in awaited[r] : k \in Int
      BY <1>2 DEF Message
    <3> QED BY <1>1, <1>2, <2>1, <3>1 DEF IsAwaited
  <2>2. CASE pc[r] # "await"
    BY <1>1, <1>2, <2>2 DEF GoodRow, Good, Staged
  <2> QED BY <2>1, <2>2
<1>4. n \in Offered(r) /\ m < n + MaxChunk
  <2>1. position[r] - MaxChunk < n /\ m <= position[r]
    BY <1>1, <1>2 DEF GoodRow, Good, Ordered
  <2>2. n \in Int /\ m \in Int /\ position[r] \in Int /\ MaxChunk \in Int
    <3>1. n \in Int /\ m \in Int
      BY <1>2 DEF Message
    <3>2. position[r] \in 0..Last
      BY <1>1 DEF TypeOK
    <3> QED BY <3>1, <3>2, SizeAssumption DEF SizeAssumption
  <2>3. n \in Offered(r)
    BY <1>2, ListedOffered
  <2> QED BY <2>1, <2>2, <2>3
<1>5. ASSUME NEW q \in Request
      PROVE  /\ StateOf(q)' = (IF StateOf(q) = "open" THEN "lost" ELSE StateOf(q))
             /\ Offered(q)' = Offered(q) /\ ErrorsOf(q)' = ErrorsOf(q)
  <2>1. \A k \in Message :
          \/ promise'[q][k] = promise[q][k]
          \/ promise[q][k] \in Running /\ promise'[q][k] # "none"
    BY DEF ProcessExits
  <2>2. pc'[q] = (IF pc[q] \in {"idle", "answered"} THEN pc[q] ELSE "lost")
    BY DEF ProcessExits
  <2>3. pc[q] \in States
    BY <1>1 DEF TypeOK, States
  <2> QED BY <1>1, <2>1, <2>2, <2>3, RunningUnseen DEF StateOf, States
<1>6. /\ states' = [q \in Request |-> IF states[q] = "open" THEN "lost" ELSE states[q]]
      /\ found' = found /\ errors' = errors
  BY <1>5 DEF states, found, errors
<1>7. m \in noContent \cap Abstract!waiting(r) /\ n \in found[r]
  BY <1>1, <1>2, <1>4, WaitingIsAwaited
<1> QED BY <1>1, <1>3, <1>4, <1>6, <1>7 DEF Abstract!Exit, states, found, errors

-----------------------------------------------------------------------------
\* The pages of EagerPage, for any number of requests, any chunks, page sizes, and
\* orders in which the promises settle, are pages of LazyPage.
THEOREM Implements == Spec => ImplementsLazyPage
<1>1. Init => Abstract!Init
  BY DEF Init, Abstract!Init, StateOf, Offered, ErrorsOf, Listed
<1>2. IInv /\ RejectedLackContent /\ [Next]_vars => [Abstract!Next]_(Abstract!vars)
  <2> SUFFICES ASSUME IInv, RejectedLackContent, Next
               PROVE  Abstract!Next \/ UNCHANGED Abstract!vars
    BY DEF vars, work, Abstract!vars, StateOf, Offered, ErrorsOf, Listed
  <2>1. ASSUME NEW r \in Request, Ask(r) \/ getMessagesFromFallback(r)
        PROVE  Abstract!Next
    <3>1. CASE enrichContentData(r) \/ StatusFails(r)
      BY <3>1, FindImplements DEF enrichContentData, StatusFails, Abstract!Next
    <3>2. CASE ~(enrichContentData(r) \/ StatusFails(r))
      BY <2>1, <3>2, AskImplements, ReadImplements, FailImplements, EndImplements,
         TakeImplements, FullImplements, RejectImplements
         DEF getMessagesFromFallback, Abstract!Next
    <3> QED BY <3>1, <3>2
  <2>2. ASSUME NEW r \in Request, NEW m \in Message, Promise(r, m)
        PROVE  Abstract!Next \/ UNCHANGED Abstract!vars
    <3>1. CASE ProcessExits(r, m)
      BY <3>1, ExitImplements DEF Abstract!Next
    <3>2. CASE ~ProcessExits(r, m)
      BY <2>2, <3>2, SettleImplements
         DEF Promise, ContentFound, ContentFails, ConfigurationFound, ConfigurationFails,
             ContentMissing, Rejects, Settle, Running
    <3> QED BY <3>1, <3>2
  <2> QED BY <2>1, <2>2 DEF Next
<1> QED BY <1>1, <1>2, Inductive, RejectedInductive, PTL
        DEF Spec, ImplementsLazyPage, Abstract!Spec
=============================================================================
