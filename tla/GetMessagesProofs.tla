-------------------------- MODULE GetMessagesProofs ---------------------------
(***************************************************************************)
(* Proofs about GetMessages, for any ids, page and chunk sizes, boxes and  *)
(* sources.  The invariant splits the ids at the cursor and at the         *)
(* iterator: what is above the cursor is listed, what is between the two   *)
(* is in the page or in the chunk, what is below is still to come.         *)
(***************************************************************************)
EXTENDS GetMessages, TLAPS, FiniteSetTheorems, WellFoundedInduction

\* What is listable now, by all sources and by some.
Everywhere == AllListable(messages, archived, view)
Somewhere  == SomeListable(messages, archived, view)

Working == pc \in {"query", "enrich", "content"}

\* The ids that the session has passed.
Passed ==
    /\ pc # "end" => \A j \in listed : maximumId <= j
    /\ Working =>
          /\ position <= maximumId
          /\ \A i \in results \cup chunk : position <= i /\ i < maximumId

\* Nothing stable is lost among them.
NothingLost ==
    /\ stable \subseteq Everywhere
    /\ pc # "end" => \A i \in stable : maximumId <= i => i \in listed
    /\ Working => \A i \in stable :
          position <= i /\ i < maximumId =>
              i \in results \/ (pc \in {"enrich", "content"} /\ i \in chunk)
    /\ pc = "end" /\ pageSize > 0 => stable \subseteq listed

\* What was read without an error was of the requested box.
Filtered == "plain" \notin Source

FromTheBox ==
    /\ Somewhere \subseteq listable
    /\ pc = "enrich" => /\ source # "view"
                        /\ \A i \in chunk : messages[i] = "sent" /\ i > minimumId
    /\ Filtered =>
          /\ results \ failed \subseteq listable
          /\ pc = "content" => chunk \subseteq listable
          /\ listed \subseteq listable

IInv == TypeOK /\ Passed /\ NothingLost /\ FromTheBox

-----------------------------------------------------------------------------
\* Ids and cursors are numbers.
LEMMA Numbers ==
    ASSUME TypeOK
    PROVE  /\ \A i \in Id : i \in Nat
           /\ maximumId \in Nat /\ position \in Nat
BY IdAssumption DEF IdAssumption, TypeOK

LEMMA InitInv == Init => IInv
<1> SUFFICES ASSUME Init PROVE IInv
  OBVIOUS
<1>1. Everywhere \subseteq Id /\ Somewhere \subseteq Id
  BY DEF Everywhere, Somewhere, AllListable, SomeListable
<1>2. TypeOK
  <2>1. view \in [Id -> {"absent", "inbox", "archived"}]
    BY DEF Init, viewOf
  <2>2. maximumId \in 1..Top /\ position \in 1..Top /\ events \in 0..MaxEvents
    BY IdAssumption, RequestAssumption DEF Init, IdAssumption, RequestAssumption
  <2> QED BY <1>1, <2>1, <2>2 DEF Init, TypeOK, Everywhere, Somewhere
<1>3. \A i \in Id : i \in Nat /\ i < Top
  BY IdAssumption DEF IdAssumption
<1>4. Passed /\ FromTheBox
  BY DEF Init, Passed, FromTheBox, Working, Somewhere
<1>5. stable \subseteq Id /\ maximumId = Top
  BY <1>1 DEF Init, Everywhere
<1>6. \A i \in stable : ~(maximumId <= i)
  BY <1>3, <1>5, IdAssumption DEF IdAssumption
<1>7. NothingLost
  BY <1>6 DEF Init, NothingLost, Working, Everywhere
<1> QED BY <1>2, <1>4, <1>7 DEF IInv

LEMMA TypeStep ==
    ASSUME IInv, [Next]_vars
    PROVE  TypeOK'
<1>0. TypeOK
  BY DEF IInv
<1>1. CASE UNCHANGED vars
  BY <1>0, <1>1 DEF vars, env, page, hist, TypeOK
<1>2. ASSUME NEW i \in Id, Send(i) \/ Process(i) \/ Archive(i) \/ UpdateView(i)
      PROVE  TypeOK'
  <2>1. Happens
    BY <1>2 DEF Send, Process, Archive, UpdateView
  <2>2. /\ events' \in 0..MaxEvents /\ stable' \subseteq Id /\ listable' \subseteq Id
        /\ UNCHANGED <<pc, source, maximumId, position, chunk, results, failed, listed>>
    <3>1. events' \in 0..MaxEvents
      BY <1>0, <2>1, RequestAssumption DEF Happens, TypeOK, RequestAssumption
    <3>2. /\ AllListable(messages', archived', view') \subseteq Id
          /\ SomeListable(messages', archived', view') \subseteq Id
      BY DEF AllListable, SomeListable
    <3> QED BY <1>0, <2>1, <3>1, <3>2 DEF Happens, TypeOK, page
  <2>3. /\ messages' \in [Id -> {"absent", "sent", "pending", "undecodable"}]
        /\ archived' \in [Id -> BOOLEAN]
        /\ view' \in [Id -> {"absent", "inbox", "archived"}]
    BY <1>0, <1>2 DEF Send, Process, Archive, UpdateView, viewOf, TypeOK
  <2> QED BY <1>0, <2>1, <2>2, <2>3 DEF TypeOK, Happens, page
<1>3. CASE Request
  <2>1. UNCHANGED <<messages, archived, view, events, stable, listable>>
    BY <1>3 DEF Request, Ask, NextOfView, NextOfMessages, Wrap, enrichMessagesStatus,
       StatusFails, enrichContentData, AnswerError, RequestFails, AnswerPage,
       AnswerLastPage, env, hist
  <2>2. pageResults \subseteq Id
    BY <1>0 DEF pageResults, TypeOK
  <2>3. queryPage \subseteq Id
    BY DEF queryPage
  <2>4. \A docs \in SUBSET queryPage : Pull(docs) => position' \in 1..Top
    BY <2>3, IdAssumption DEF Pull, IdAssumption
  <2>5. CASE Ask \/ NextOfView \/ NextOfMessages
    BY <1>0, <2>1, <2>3, <2>4, <2>5 DEF Ask, NextOfView, NextOfMessages, TypeOK
  <2>6. CASE Wrap \/ enrichMessagesStatus \/ StatusFails \/ enrichContentData
    BY <1>0, <2>1, <2>6
       DEF Wrap, enrichMessagesStatus, StatusFails, enrichContentData, TypeOK
  <2>7. CASE AnswerError \/ RequestFails
    BY <1>0, <2>1, <2>7 DEF AnswerError, RequestFails, TypeOK, page
  <2>8. CASE AnswerPage \/ AnswerLastPage
    <3>1. \A i \in Id : i \in 1..Top
      BY IdAssumption DEF IdAssumption
    <3>2. maximumId' \in pageResults \/ maximumId' = maximumId
      BY <2>8 DEF AnswerPage, AnswerLastPage
    <3>3. maximumId' \in 1..Top
      BY <1>0, <2>2, <3>1, <3>2 DEF TypeOK
    <3> QED BY <1>0, <2>1, <2>2, <2>8, <3>3 DEF AnswerPage, AnswerLastPage, TypeOK
  <2> QED BY <1>3, <2>5, <2>6, <2>7, <2>8 DEF Request
<1> QED BY <1>1, <1>2, <1>3 DEF Next

-----------------------------------------------------------------------------
(* What happens around the session.                                        *)

LEMMA EventInv ==
    ASSUME IInv, NEW i \in Id,
           Send(i) \/ Process(i) \/ Archive(i) \/ UpdateView(i)
    PROVE  Passed' /\ NothingLost' /\ FromTheBox'
<1>1. /\ stable' = stable \cap AllListable(messages', archived', view')
      /\ listable' = listable \cup SomeListable(messages', archived', view')
      /\ UNCHANGED <<pc, source, maximumId, position, chunk, results, failed, listed>>
  BY DEF Send, Process, Archive, UpdateView, Happens, page
<1>2. /\ Everywhere' = AllListable(messages', archived', view')
      /\ Somewhere' = SomeListable(messages', archived', view')
  BY DEF Everywhere, Somewhere, AllListable, SomeListable, Listable, box
<1>3. \A j \in Id : messages[j] = "sent" => messages'[j] = "sent"
  BY DEF IInv, TypeOK, Send, Process, Archive, UpdateView
<1>4. Passed'
  BY <1>1 DEF IInv, Passed, Working
<1>5. NothingLost'
  BY <1>1, <1>2 DEF IInv, NothingLost, Working
<1>6. FromTheBox'
  BY <1>1, <1>2, <1>3 DEF IInv, FromTheBox, Filtered, TypeOK
<1> QED BY <1>4, <1>5, <1>6

-----------------------------------------------------------------------------
(* The steps of a request.                                                 *)

\* A request leaves the containers and the history alone.
LEMMA RequestLeaves ==
    ASSUME Request
    PROVE  /\ UNCHANGED <<messages, archived, view, stable, listable>>
           /\ Everywhere' = Everywhere /\ Somewhere' = Somewhere
<1>1. UNCHANGED <<messages, archived, view, stable, listable>>
  BY DEF Request, Ask, NextOfView, NextOfMessages, Wrap, enrichMessagesStatus,
       StatusFails, enrichContentData, AnswerError, RequestFails, AnswerPage,
       AnswerLastPage, env, hist
<1> QED BY <1>1 DEF Everywhere, Somewhere, AllListable, SomeListable, Listable, box

LEMMA AskInv ==
    ASSUME IInv, Ask
    PROVE  Passed' /\ NothingLost' /\ FromTheBox'
<1>1. UNCHANGED <<messages, archived, view, stable, listable>>
      /\ Everywhere' = Everywhere /\ Somewhere' = Somewhere
  BY RequestLeaves DEF Request
<1>2. /\ pc = "ask" /\ pc' = "query" /\ position' = maximumId
      /\ chunk' = {} /\ results' = {} /\ failed' = {}
      /\ UNCHANGED <<maximumId, listed>>
  BY DEF Ask
<1>3. Passed'
  BY <1>2, Numbers DEF IInv, Passed, Working
<1>4. NothingLost'
  <2>1. \A i \in stable : ~(maximumId <= i /\ i < maximumId)
    BY Numbers DEF IInv, TypeOK
  <2> QED BY <1>1, <1>2, <2>1 DEF IInv, NothingLost, Working
<1>5. FromTheBox'
  BY <1>1, <1>2 DEF IInv, FromTheBox, Filtered
<1> QED BY <1>3, <1>4, <1>5

\* The iterator goes down, and passes over nothing.
LEMMA PullDown ==
    ASSUME IInv, NEW docs \in SUBSET queryPage, Pull(docs)
    PROVE  /\ position' \in docs /\ position' < position
           /\ \A i \in docs : position' <= i /\ i < position
           /\ \A i \in queryPage : position' <= i => i \in docs
<1>1. \A i \in queryPage : i \in Id /\ i \in Nat /\ i < position
  BY Numbers DEF IInv, queryPage
<1>2. PICK last \in docs : (\A i \in docs : last <= i) /\ position' = last
  BY DEF Pull
<1>3. \A i \in docs, j \in queryPage \ docs : i > j
  BY DEF Pull
<1>4. position \in Nat
  BY Numbers DEF IInv
<1> QED BY <1>1, <1>2, <1>3, <1>4

LEMMA NextOfViewInv ==
    ASSUME IInv, NextOfView
    PROVE  Passed' /\ NothingLost' /\ FromTheBox'
<1>1. PICK docs \in SUBSET queryPage :
        Pull(docs) /\ results' = results \cup {i \in docs : view[i] = box}
  BY DEF NextOfView
<1>2. /\ source = "view" /\ source \in Source /\ pc = "query"
      /\ UNCHANGED <<pc, source, maximumId, chunk, failed, listed>>
  BY <1>1 DEF NextOfView, Pull, IInv, TypeOK
<1>3. UNCHANGED <<messages, archived, view, stable, listable>>
      /\ Everywhere' = Everywhere /\ Somewhere' = Somewhere
  BY RequestLeaves DEF Request
<1>4. /\ position' \in docs /\ position' < position
      /\ \A i \in docs : position' <= i /\ i < position
      /\ \A i \in queryPage : position' <= i => i \in docs
  BY <1>1, PullDown
<1>5. /\ \A i \in Id : i \in Nat
      /\ maximumId \in Nat /\ position \in Nat /\ docs \subseteq Id
      /\ results \subseteq Id /\ chunk \subseteq Id /\ stable \subseteq Id
  BY Numbers DEF IInv, queryPage, TypeOK
<1>6. Passed'
  BY <1>1, <1>2, <1>4, <1>5 DEF IInv, Passed, Working
<1>7. ASSUME NEW i \in stable, position' <= i, i < maximumId
      PROVE  i \in results'
  <2>1. CASE position <= i
    BY <1>1, <1>2, <1>7, <2>1 DEF IInv, NothingLost, Working
  <2>2. CASE ~(position <= i)
    <3>1. i \in Listable(source, messages, archived, view)
      BY <1>2 DEF IInv, NothingLost, Everywhere, AllListable
    <3>2. i \in queryPage /\ view[i] = box
      BY <1>2, <1>5, <2>2, <3>1 DEF Listable, queryPage, box
    <3> QED BY <1>1, <1>4, <1>7, <3>2
  <2> QED BY <2>1, <2>2
<1>8. NothingLost'
  BY <1>2, <1>3, <1>7 DEF IInv, NothingLost, Working
<1>9. FromTheBox'
  <2>1. {i \in docs : view[i] = box} \subseteq Somewhere
    BY <1>2, <1>5 DEF Somewhere, SomeListable, Listable, queryPage
  <2> QED BY <1>1, <1>2, <1>3, <2>1 DEF IInv, FromTheBox, Filtered
<1> QED BY <1>6, <1>8, <1>9

LEMMA NextOfMessagesInv ==
    ASSUME IInv, NextOfMessages
    PROVE  Passed' /\ NothingLost' /\ FromTheBox'
<1>1. PICK docs \in SUBSET queryPage :
        Pull(docs) /\ chunk' = {i \in docs : messages[i] = "sent"}
  BY DEF NextOfMessages
<1>2. /\ source # "view" /\ source \in Source /\ pc = "query" /\ pc' = "enrich"
      /\ UNCHANGED <<source, maximumId, results, failed, listed>>
  BY <1>1 DEF NextOfMessages, Pull, IInv, TypeOK
<1>3. UNCHANGED <<messages, archived, view, stable, listable>>
      /\ Everywhere' = Everywhere /\ Somewhere' = Somewhere
  BY RequestLeaves DEF Request
<1>4. /\ position' \in docs /\ position' < position
      /\ \A i \in docs : position' <= i /\ i < position
      /\ \A i \in queryPage : position' <= i => i \in docs
  BY <1>1, PullDown
<1>5. /\ \A i \in Id : i \in Nat
      /\ maximumId \in Nat /\ position \in Nat /\ docs \subseteq Id
      /\ results \subseteq Id /\ stable \subseteq Id
  BY Numbers DEF IInv, queryPage, TypeOK
<1>6. Passed'
  BY <1>1, <1>2, <1>4, <1>5 DEF IInv, Passed, Working
<1>7. ASSUME NEW i \in stable, position' <= i, i < maximumId
      PROVE  i \in results' \/ i \in chunk'
  <2>1. CASE position <= i
    BY <1>1, <1>2, <1>7, <2>1 DEF IInv, NothingLost, Working
  <2>2. CASE ~(position <= i)
    <3>1. i \in Listable(source, messages, archived, view)
      BY <1>2 DEF IInv, NothingLost, Everywhere, AllListable
    <3>2. i \in queryPage /\ messages[i] = "sent"
      BY <1>2, <1>5, <2>2, <3>1 DEF Listable, queryPage
    <3> QED BY <1>1, <1>4, <1>7, <3>2
  <2> QED BY <2>1, <2>2
<1>8. NothingLost'
  BY <1>2, <1>3, <1>7 DEF IInv, NothingLost, Working
<1>9. FromTheBox'
  BY <1>1, <1>2, <1>3 DEF IInv, FromTheBox, Filtered, queryPage
<1> QED BY <1>6, <1>8, <1>9

LEMMA EnrichInv ==
    ASSUME IInv, Wrap \/ enrichMessagesStatus \/ StatusFails \/ enrichContentData
    PROVE  Passed' /\ NothingLost' /\ FromTheBox'
<1>1. UNCHANGED <<messages, archived, view, stable, listable, source, maximumId, position, listed>>
      /\ Everywhere' = Everywhere /\ Somewhere' = Somewhere
  BY RequestLeaves DEF Request, Wrap, enrichMessagesStatus, StatusFails, enrichContentData
<1>2. Passed'
  BY <1>1 DEF IInv, Passed, Working, Wrap, enrichMessagesStatus, StatusFails,
              enrichContentData
<1>3. CASE Wrap
  <2>1. ~Filtered
    BY <1>3 DEF Wrap, Filtered, IInv, TypeOK
  <2> QED BY <1>1, <1>2, <1>3, <2>1 DEF IInv, NothingLost, Working, Wrap, FromTheBox
<1>4. CASE enrichMessagesStatus
  <2>1. /\ source = "fallback" /\ source \in Source
        /\ \A i \in chunk : i \in Id /\ messages[i] = "sent" /\ i > minimumId
    BY <1>4 DEF IInv, FromTheBox, TypeOK, enrichMessagesStatus
  <2>2. /\ \A i \in chunk : i \in Listable(source, messages, archived, view) <=> i \in chunk'
        /\ chunk' \subseteq chunk
    BY <1>4, <2>1 DEF enrichMessagesStatus, Listable
  <2>3. chunk \cap Everywhere \subseteq chunk' /\ chunk' \subseteq Somewhere
    BY <2>1, <2>2 DEF Everywhere, Somewhere, AllListable, SomeListable, TypeOK, IInv
  <2>4. NothingLost'
    BY <1>1, <1>4, <2>3 DEF IInv, NothingLost, Working, enrichMessagesStatus
  <2>5. FromTheBox'
    BY <1>1, <1>4, <2>3 DEF IInv, FromTheBox, Filtered, enrichMessagesStatus
  <2> QED BY <1>2, <2>4, <2>5
<1>5. CASE StatusFails
  BY <1>1, <1>2, <1>5 DEF IInv, NothingLost, Working, StatusFails, FromTheBox, Filtered
<1>6. CASE enrichContentData
  BY <1>1, <1>2, <1>6 DEF IInv, NothingLost, Working, enrichContentData, FromTheBox, Filtered
<1> QED BY <1>3, <1>4, <1>5, <1>6

LEMMA GiveUpInv ==
    ASSUME IInv, AnswerError \/ RequestFails
    PROVE  Passed' /\ NothingLost' /\ FromTheBox'
<1>1. UNCHANGED <<messages, archived, view, stable, listable>>
      /\ Everywhere' = Everywhere /\ Somewhere' = Somewhere
  BY RequestLeaves DEF Request
<1>2. /\ pc # "end" /\ pc' = "ask"
      /\ UNCHANGED <<maximumId, position, chunk, results, failed, listed>>
  BY DEF AnswerError, RequestFails, PageBuilt, page
<1> QED BY <1>1, <1>2 DEF IInv, Passed, NothingLost, FromTheBox, Filtered, Working

\* The page is the top of the results: what is above one of its ids is on it too.
LEMMA PageIsTop ==
    ASSUME TypeOK, NEW i \in results, NEW m \in pageResults, m <= i
    PROVE  i \in pageResults
<1> DEFINE above(x) == {j \in results : j > x}
<1>1. IsFiniteSet(results)
  BY IdAssumption, FS_Subset DEF TypeOK, IdAssumption
<1>2. above(m) \in SUBSET results /\ above(i) \in SUBSET above(m)
  BY Numbers DEF TypeOK, pageResults
<1>3. /\ Cardinality(above(m)) \in Nat /\ Cardinality(above(i)) \in Nat
      /\ Cardinality(above(i)) <= Cardinality(above(m))
  BY <1>1, <1>2, FS_Subset, FS_CardinalityType
<1>4. Cardinality(above(m)) < pageSize
  BY DEF pageResults
<1>5. pageSize \in Nat
  BY RequestAssumption DEF RequestAssumption
<1> QED BY <1>3, <1>4, <1>5 DEF pageResults

\* When there are not more than pageSize results, all are on the page.
LEMMA PageIsAll ==
    ASSUME TypeOK, ~enough
    PROVE  pageResults = results
<1>1. IsFiniteSet(results) /\ pageSize \in Nat
  BY IdAssumption, RequestAssumption, FS_Subset
     DEF TypeOK, IdAssumption, RequestAssumption
<1>2. ASSUME NEW i \in results
      PROVE  Cardinality({j \in results : j > i}) < pageSize
  <2>1. i \in Nat
    BY Numbers DEF TypeOK
  <2>2. {j \in results : j > i} \in SUBSET (results \ {i})
    BY <2>1
  <2>3. IsFiniteSet(results \ {i}) /\ Cardinality(results \ {i}) = Cardinality(results) - 1
    BY <1>1, FS_RemoveElement
  <2>4. /\ Cardinality({j \in results : j > i}) <= Cardinality(results \ {i})
        /\ Cardinality({j \in results : j > i}) \in Nat
    BY <2>2, <2>3, FS_Subset, FS_CardinalityType
  <2>5. Cardinality(results) <= pageSize /\ Cardinality(results) \in Nat
    BY <1>1, FS_CardinalityType DEF enough
  <2> QED BY <1>1, <2>3, <2>4, <2>5
<1> QED BY <1>2 DEF pageResults

\* Ids have a greatest one.
LEMMA Greatest ==
    ASSUME NEW S \in SUBSET Id, S # {}
    PROVE  \E m \in S : \A j \in S : ~(j > m)
<1>1. /\ Top \in Nat
      /\ \A i \in S : i \in Nat /\ Top - i \in Nat /\ i = Top - (Top - i)
  BY IdAssumption DEF IdAssumption
<1>2. PICK d \in {Top - i : i \in S} : \A e \in {Top - i : i \in S} : ~(e < d)
  <2>1. {Top - i : i \in S} \subseteq Nat /\ {Top - i : i \in S} # {}
    BY <1>1
  <2>2. \E d \in {Top - i : i \in S} : \A e \in {Top - i : i \in S} :
          <<e, d>> \notin OpToRel(<, Nat)
    BY <2>1, NatLessThanWellFounded, WFMin
  <2>3. \A e, d \in Nat : <<e, d>> \in OpToRel(<, Nat) <=> e < d
    BY DEF OpToRel
  <2> QED BY <2>1, <2>2, <2>3
<1>3. PICK m \in S : d = Top - m
  BY <1>2
<1>4. ASSUME NEW j \in S
      PROVE  ~(j > m)
  <2>1. ~(Top - j < Top - m)
    BY <1>2, <1>3
  <2> QED BY <1>1, <2>1
<1> QED BY <1>4

\* ... and a least one.
LEMMA Least ==
    ASSUME NEW S \in SUBSET Id, S # {}
    PROVE  \E m \in S : \A j \in S : m <= j
<1>1. S \subseteq Nat
  BY IdAssumption DEF IdAssumption
<1>2. PICK m \in S : \A j \in S : <<j, m>> \notin OpToRel(<, Nat)
  BY <1>1, NatLessThanWellFounded, WFMin
<1>3. ASSUME NEW j \in S
      PROVE  m <= j
  <2>1. ~(j < m)
    BY <1>1, <1>2 DEF OpToRel
  <2> QED BY <1>1, <2>1
<1> QED BY <1>3

\* The page of more results than fit on it is full: were it not, the newest of those
\* that are left would be on it.
LEMMA PageIsFull ==
    ASSUME TypeOK, enough
    PROVE  Cardinality(pageResults) = pageSize
<1> DEFINE above(x) == {j \in results : j > x}
<1>1. /\ IsFiniteSet(results) /\ pageSize \in Nat /\ results \subseteq Id
      /\ \A i \in results : i \in Nat
      /\ pageResults \in SUBSET results
  BY IdAssumption, RequestAssumption, Numbers, FS_Subset
     DEF TypeOK, IdAssumption, RequestAssumption, pageResults
<1>2. /\ IsFiniteSet(pageResults) /\ Cardinality(pageResults) \in Nat
      /\ Cardinality(results) \in Nat
  BY <1>1, FS_Subset, FS_CardinalityType
<1>3. ~(Cardinality(pageResults) < pageSize)
  <2>1. SUFFICES ASSUME Cardinality(pageResults) < pageSize PROVE FALSE
    OBVIOUS
  <2>2. pageResults # results
    BY <1>1, <1>2, <2>1 DEF enough
  <2>3. PICK m \in results \ pageResults : \A j \in results \ pageResults : ~(j > m)
    BY <1>1, <2>2, Greatest
  <2>4. above(m) \in SUBSET pageResults
    BY <2>3
  <2>5. /\ Cardinality(above(m)) <= Cardinality(pageResults)
        /\ Cardinality(above(m)) \in Nat
    BY <1>2, <2>4, FS_Subset, FS_CardinalityType
  <2>6. Cardinality(above(m)) < pageSize
    BY <1>1, <1>2, <2>1, <2>5
  <2> QED BY <2>3, <2>6 DEF pageResults
<1>4. ~(Cardinality(pageResults) > pageSize)
  <2>1. SUFFICES ASSUME Cardinality(pageResults) > pageSize PROVE FALSE
    OBVIOUS
  <2>2. pageResults # {}
    BY <1>1, <2>1, FS_EmptySet
  <2>3. PICK m \in pageResults : \A j \in pageResults : m <= j
    BY <1>1, <2>2, Least
  <2>4. pageResults \ {m} \in SUBSET above(m) /\ IsFiniteSet(above(m))
    BY <1>1, <2>3, FS_Subset
  <2>5. /\ Cardinality(pageResults \ {m}) = Cardinality(pageResults) - 1
        /\ Cardinality(pageResults \ {m}) <= Cardinality(above(m))
        /\ Cardinality(above(m)) \in Nat
    BY <1>2, <2>3, <2>4, FS_Subset, FS_RemoveElement, FS_CardinalityType
  <2>6. Cardinality(above(m)) < pageSize
    BY <2>3 DEF pageResults
  <2> QED BY <1>1, <1>2, <2>1, <2>5, <2>6
<1> QED BY <1>1, <1>2, <1>3, <1>4

\* A page of a positive size has at least the newest of the results.
LEMMA TopResult ==
    ASSUME TypeOK, enough, pageSize > 0
    PROVE  pageResults # {}
BY PageIsFull, FS_EmptySet, RequestAssumption DEF RequestAssumption

LEMMA AnswerPageInv ==
    ASSUME IInv, AnswerPage
    PROVE  Passed' /\ NothingLost' /\ FromTheBox'
<1>1. UNCHANGED <<messages, archived, view, stable, listable>>
      /\ Everywhere' = Everywhere /\ Somewhere' = Somewhere
  BY RequestLeaves DEF Request
<1>2. PICK next \in pageResults : (\A i \in pageResults : next <= i) /\ maximumId' = next
  BY DEF AnswerPage
<1>3. /\ pc = "query" /\ pc' = "ask" /\ listed' = listed \cup pageResults
      /\ pageResults \cap failed = {}
      /\ UNCHANGED <<position, chunk, results, failed>>
  BY DEF AnswerPage, PageBuilt
<1>4. /\ TypeOK /\ pageResults \subseteq results /\ next \in results /\ results \subseteq Id
      /\ \A i \in Id : i \in Nat
      /\ maximumId \in Nat /\ position \in Nat /\ stable \subseteq Id /\ listed \subseteq Id
  BY <1>2, Numbers DEF IInv, TypeOK, pageResults
<1>5. position <= next /\ next < maximumId
  BY <1>3, <1>4 DEF IInv, Passed, Working
<1>6. Passed'
  BY <1>2, <1>3, <1>4, <1>5 DEF IInv, Passed, Working
<1>7. ASSUME NEW i \in stable, next <= i
      PROVE  i \in listed'
  <2>1. CASE maximumId <= i
    BY <1>3, <2>1 DEF IInv, NothingLost
  <2>2. CASE ~(maximumId <= i)
    <3>1. i \in results
      BY <1>3, <1>4, <1>5, <1>7, <2>2 DEF IInv, NothingLost, Working
    <3>2. i \in pageResults
      BY <1>2, <1>4, <1>7, <3>1, PageIsTop
    <3> QED BY <1>3, <3>2
  <2> QED BY <2>1, <2>2
<1>8. NothingLost'
  BY <1>1, <1>2, <1>3, <1>7 DEF IInv, NothingLost, Working
<1>9. FromTheBox'
  BY <1>1, <1>3, <1>4 DEF IInv, FromTheBox, Filtered
<1> QED BY <1>6, <1>8, <1>9

LEMMA AnswerLastPageInv ==
    ASSUME IInv, AnswerLastPage
    PROVE  Passed' /\ NothingLost' /\ FromTheBox'
<1>1. UNCHANGED <<messages, archived, view, stable, listable>>
      /\ Everywhere' = Everywhere /\ Somewhere' = Somewhere
  BY RequestLeaves DEF Request
<1>2. /\ pc = "query" /\ pc' = "end" /\ listed' = listed \cup pageResults
      /\ pageResults \cap failed = {} /\ (~enough \/ pageResults = {})
      /\ enough \/ queryPage = {}
      /\ UNCHANGED <<maximumId, position, chunk, results, failed>>
  BY DEF AnswerLastPage, PageBuilt
<1>3. /\ TypeOK /\ pageResults \subseteq results /\ results \subseteq Id
      /\ \A i \in Id : i \in Nat
      /\ maximumId \in Nat /\ position \in Nat /\ stable \subseteq Id
  BY Numbers DEF IInv, TypeOK, pageResults
<1>4. Passed'
  BY <1>2 DEF Passed, Working
<1>5. ASSUME pageSize > 0
      PROVE  ~enough
  <2>1. SUFFICES ASSUME enough  PROVE FALSE
    OBVIOUS
  <2>2. pageResults = {}
    BY <1>2, <2>1
  <2> QED BY <1>3, <1>5, <2>1, <2>2, TopResult
<1>6. ASSUME pageSize > 0, NEW i \in stable
      PROVE  i \in listed'
  <2>1. ~enough /\ queryPage = {} /\ pageResults = results
    BY <1>2, <1>3, <1>5, <1>6, PageIsAll
  <2>2. i \in Listable(source, messages, archived, view) /\ i \in Id
    BY <1>3 DEF IInv, NothingLost, Everywhere, AllListable, TypeOK
  <2>3. position <= i
    BY <1>3, <2>1, <2>2 DEF Listable, queryPage, box
  <2>4. CASE maximumId <= i
    BY <1>2, <2>4 DEF IInv, NothingLost
  <2>5. CASE ~(maximumId <= i)
    BY <1>2, <1>3, <2>1, <2>3, <2>5 DEF IInv, NothingLost, Working
  <2> QED BY <2>4, <2>5
<1>7. NothingLost'
  BY <1>1, <1>2, <1>6 DEF IInv, NothingLost, Working
<1>8. FromTheBox'
  BY <1>1, <1>2, <1>3 DEF IInv, FromTheBox, Filtered
<1> QED BY <1>4, <1>7, <1>8

-----------------------------------------------------------------------------
(* The theorems.                                                           *)

LEMMA StepInv == IInv /\ [Next]_vars => IInv'
<1> SUFFICES ASSUME IInv, [Next]_vars PROVE IInv'
  OBVIOUS
<1>1. TypeOK'
  BY TypeStep
<1>2. CASE UNCHANGED vars
  BY <1>1, <1>2 DEF vars, env, page, hist, IInv, Passed, NothingLost, FromTheBox, Working,
     Everywhere, Somewhere, AllListable, SomeListable, Listable, box
<1>3. ASSUME NEW i \in Id, Send(i) \/ Process(i) \/ Archive(i) \/ UpdateView(i)
      PROVE  IInv'
  BY <1>1, <1>3, EventInv DEF IInv
<1>4. CASE Request
  BY <1>1, <1>4, AskInv, NextOfViewInv, NextOfMessagesInv, EnrichInv, GiveUpInv,
     AnswerPageInv, AnswerLastPageInv DEF Request, IInv
<1> QED BY <1>2, <1>3, <1>4 DEF Next

\* The inductive invariant holds.
THEOREM Inductive == Spec => []IInv
BY InitInv, StepInv, PTL DEF Spec

\* Every variable keeps its type.
THEOREM TypeCorrect == Spec => []TypeOK
<1>1. IInv => TypeOK
  BY DEF IInv
<1> QED BY <1>1, Inductive, PTL

\* With any page size but 0, which openapi does not allow and the handler lets
\* through, a session that reaches its last page has listed every message that was
\* there all along.
THEOREM Everything == ASSUME pageSize > 0 PROVE Spec => []ListsEverything
<1>1. IInv => ListsEverything
  BY DEF IInv, NothingLost, ListsEverything
<1> QED BY <1>1, Inductive, PTL

\* What looks at the statuses, the view or the fallback with enrichment, lists
\* messages of the requested box only.
THEOREM RequestedBox == ASSUME Filtered PROVE Spec => []ListsTheRequestedBox
<1>1. IInv => ListsTheRequestedBox
  BY DEF IInv, FromTheBox, ListsTheRequestedBox
<1> QED BY <1>1, Inductive, PTL

\* The pages of every session go back in time: none overlaps the ones before.
THEOREM GoesBack == Spec => []PagesGoBack
<1>1. ASSUME IInv, Working, NEW i \in results \cup chunk, NEW j \in listed
      PROVE  i < j
  <2>1. i < maximumId /\ maximumId <= j
    BY <1>1 DEF IInv, Passed, Working
  <2>2. i \in Nat /\ j \in Nat /\ maximumId \in Nat
    BY <1>1, Numbers DEF IInv, TypeOK
  <2> QED BY <2>1, <2>2
<1>2. IInv => PagesGoBack
  BY <1>1 DEF PagesGoBack, Working
<1> QED BY <1>2, Inductive, PTL

-----------------------------------------------------------------------------
(* GetMessages implements Listing.                                         *)

\* The instance counts as this module does.
LEMMA SameCardinality ==
    ASSUME NEW S
    PROVE  Abstract!Cardinality(S) = Cardinality(S)
BY DEF Abstract!Cardinality, Cardinality

LEMMA EventImplements ==
    ASSUME IInv, NEW i \in Id,
           Send(i) \/ Process(i) \/ Archive(i) \/ UpdateView(i)
    PROVE  Abstract!Change
<1>1. Happens
  BY DEF Send, Process, Archive, UpdateView
<1>2. SomeListable(messages', archived', view') \subseteq Id /\ listable \subseteq Id
  BY DEF IInv, TypeOK, SomeListable
<1> QED BY <1>1, <1>2 DEF Abstract!Change, Happens, page

\* What is on a page is below the cursor and, if the statuses are looked at, of the
\* requested box.
LEMMA PageOfTheBox ==
    ASSUME IInv, PageBuilt, pageResults \cap failed = {}
    PROVE  /\ pageResults \in SUBSET Id
           /\ \A i \in pageResults : i < maximumId
           /\ Filtered => pageResults \subseteq listable
BY DEF IInv, TypeOK, Passed, FromTheBox, Working, PageBuilt, pageResults

LEMMA NextPageImplements ==
    ASSUME IInv, AnswerPage
    PROVE  Abstract!NextPage
<1>1. PICK last \in pageResults :
        (\A i \in pageResults : last <= i) /\ maximumId' = last
  BY DEF AnswerPage
<1>2. /\ pc = "query" /\ pc' = "ask" /\ listed' = listed \cup pageResults
      /\ UNCHANGED <<stable, listable>>
      /\ enough /\ PageBuilt /\ pageResults \cap failed = {}
  BY DEF AnswerPage, PageBuilt, hist
<1>3. /\ TypeOK /\ last \in results /\ \A i \in Id : i \in Nat
      /\ stable \subseteq Id /\ results \subseteq Id
      /\ maximumId \in Nat /\ position \in Nat /\ position <= last
  BY <1>1, <1>2, Numbers DEF IInv, TypeOK, pageResults, Passed, Working
<1>4. ASSUME NEW i \in stable, last <= i, i < maximumId
      PROVE  i \in pageResults
  <2>1. i \in results
    BY <1>2, <1>3, <1>4 DEF IInv, NothingLost, Working
  <2> QED BY <1>1, <1>3, <1>4, <2>1, PageIsTop
<1>5. Cardinality(pageResults) = pageSize
  BY <1>2, <1>3, PageIsFull
<1>6. Abstract!Page(pageResults, last)
  BY <1>1, <1>2, <1>4, PageOfTheBox DEF Abstract!Page, Filtered
<1>7. pageResults \in SUBSET Id /\ (pc' = "end") = (pc = "end")
  BY <1>2, PageOfTheBox
<1> QED BY <1>1, <1>5, <1>6, <1>7, SameCardinality DEF Abstract!NextPage

LEMMA LastPageImplements ==
    ASSUME IInv, AnswerLastPage
    PROVE  Abstract!LastPage \/ Abstract!NoPage
<1>1. /\ pc = "query" /\ pc' = "end" /\ listed' = listed \cup pageResults
      /\ UNCHANGED <<maximumId, stable, listable>>
      /\ PageBuilt /\ pageResults \cap failed = {}
      /\ ~enough \/ pageResults = {}
  BY DEF AnswerLastPage, PageBuilt, hist
<1>2. /\ TypeOK /\ \A i \in Id : i \in Nat
      /\ stable \subseteq Id /\ maximumId \in Nat /\ position \in Nat
      /\ pageSize \in Nat
  BY Numbers, RequestAssumption DEF IInv, TypeOK, RequestAssumption
<1>3. CASE ~enough
  <2>1. pageResults = results /\ queryPage = {}
    BY <1>1, <1>2, <1>3, PageIsAll DEF PageBuilt
  <2>2. Cardinality(pageResults) <= pageSize
    <3>1. IsFiniteSet(results) /\ Cardinality(results) \in Nat
      BY <1>2, IdAssumption, FS_Subset, FS_CardinalityType DEF TypeOK, IdAssumption
    <3> QED BY <1>2, <1>3, <2>1, <3>1 DEF enough
  <2>3. ASSUME NEW i \in stable, i < maximumId
        PROVE  i \in pageResults
    <3>1. i \in Listable(source, messages, archived, view) /\ i \in Id
      BY <1>2 DEF IInv, NothingLost, Everywhere, AllListable, TypeOK
    <3>2. position <= i
      BY <1>2, <2>1, <3>1 DEF Listable, queryPage, box
    <3>3. i \in results
      BY <1>1, <2>3, <3>2 DEF IInv, NothingLost, Working
    <3> QED BY <2>1, <3>3
  <2>4. \A i \in pageResults : 0 <= i /\ i < maximumId
    BY <1>1, <1>2, PageOfTheBox
  <2>5. Abstract!Page(pageResults, 0)
    BY <1>1, <2>3, <2>4, PageOfTheBox DEF Abstract!Page, Filtered
  <2> QED BY <1>1, <2>2, <2>5, PageOfTheBox, SameCardinality DEF Abstract!LastPage
<1>4. CASE enough
  <2>1. pageResults = {} /\ pageSize = 0
    BY <1>1, <1>2, <1>4, TopResult
  <2> QED BY <1>1, <2>1 DEF Abstract!NoPage
<1> QED BY <1>3, <1>4

\* Any session, with its queries, chunks, filters and failed requests, is a listing
\* in pages of one step: full pages that skip nothing, down to a last one that has all
\* that is left.
THEOREM Implements == Spec => ImplementsListing
<1>1. IInv /\ Init => Abstract!Init
  BY DEF Init, IInv, TypeOK, Abstract!Init
<1>2. IInv /\ [Next]_vars => [Abstract!Next]_(Abstract!vars)
  <2> SUFFICES ASSUME IInv, [Next]_vars PROVE [Abstract!Next]_(Abstract!vars)
    OBVIOUS
  <2>1. CASE UNCHANGED vars
    BY <2>1 DEF vars, page, hist, Abstract!vars
  <2>2. CASE Ask \/ NextOfView \/ NextOfMessages \/ Wrap \/ enrichMessagesStatus
             \/ StatusFails \/ enrichContentData \/ AnswerError \/ RequestFails
    BY <2>2 DEF Ask, NextOfView, NextOfMessages, Pull, Wrap, enrichMessagesStatus,
       StatusFails, enrichContentData, AnswerError, RequestFails, PageBuilt, page, hist,
       Abstract!vars
  <2> QED BY <2>1, <2>2, EventImplements, NextPageImplements, LastPageImplements
          DEF Next, Request, Abstract!Next
<1> QED BY <1>1, <1>2, InitInv, Inductive, PTL DEF Spec, ImplementsListing, Abstract!Spec

=============================================================================
