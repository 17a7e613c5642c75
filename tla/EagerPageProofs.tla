--------------------------- MODULE EagerPageProofs ----------------------------
(***************************************************************************)
(* Proofs about EagerPage, for any number of requests and messages, any    *)
(* chunks and page sizes.  The invariant says, of every request, that the  *)
(* messages asked for are those listed and, below them, those awaited; and *)
(* what a promise that is still running is behind.                         *)
(***************************************************************************)
EXTENDS EagerPage, TLAPS

Elements(res) == {res[i] : i \in 1..Len(res)}

States == {"idle", "next", "statuses", "await", "answered", "lost"}
Promises == {"none", "rejected", "lost"} \cup Running \cup Settled
Answers == {"none", "page", "Cannot enrich data", "rejected", "no status", "query failed"}

\* The type of a request: state, page size, position, chunk, awaited, promises,
\* results, answer and cursor.
Typed(p, n, pos, ch, aw, pr, res, a, c) ==
    /\ p \in States /\ n \in Nat /\ pos \in 0..Last
    /\ ch \in SUBSET Message /\ aw \in SUBSET Message
    /\ pr \in [Message -> Promises] /\ res \in Seq(Message)
    /\ a \in Answers /\ c \in 0..Last

\* What is asked for is listed or awaited, in order, and awaited in its chunk.
Ordered(pos, ch, aw, pr, res) ==
    /\ \A m \in ch : pos - MaxChunk < m /\ m <= pos
    /\ aw \subseteq ch
    /\ \A m \in Message : pr[m] # "none" <=> m \in Elements(res) \/ m \in aw
    /\ \A m \in Elements(res) : pr[m] \in Settled /\ m <= pos
    /\ \A m \in Elements(res), k \in aw : m < k
    /\ \A i, j \in 1..Len(res) : i < j => res[i] < res[j]

\* What the state of the request says of it; when nothing is awaited any more, a
\* promise only runs behind another.
Staged(p, n, ch, aw, pr, res) ==
    /\ Len(res) <= n
    /\ p = "idle" => res = <<>>
    /\ p \in {"idle", "next", "statuses"} => aw = {}
    /\ p = "statuses" => \A m \in Elements(res), k \in ch : m < k
    /\ p # "await" => \A m \in aw : pr[m] \in Running => \E k \in aw : k < m

\* What an answer says.
Ended(p, n, pos, aw, pr, res, a, c) ==
    /\ a # "none" => p = "answered"
    /\ a # "page" => c = 0
    /\ a = "page" =>
          /\ \A m \in Elements(res) : pr[m] = "right"
          /\ c = 0 => n = 0 \/ (pos = Last /\ aw = {})
          /\ c # 0 => c \in Elements(res) /\ \A m \in Elements(res) : m <= c
    /\ a = "Cannot enrich data" => \E m \in Elements(res) : pr[m] = "left"
    /\ a = "rejected" => \E m \in aw : pr[m] = "rejected" /\ \A k \in aw : m <= k

Good(p, n, pos, ch, aw, pr, res, a, c) ==
    /\ Typed(p, n, pos, ch, aw, pr, res, a, c)
    /\ Ordered(pos, ch, aw, pr, res)
    /\ Staged(p, n, ch, aw, pr, res)
    /\ Ended(p, n, pos, aw, pr, res, a, c)

GoodRow(r) == Good(pc[r], pageSize[r], position[r], chunk[r], awaited[r],
                   promise[r], results[r], answer[r], next[r])

\* A rejection that nobody awaited.
Behind(r, m) ==
    /\ m \in noContent
    /\ promise[r][m] \in {"rejected", "lost"}
    /\ m \in chunk[r]
    /\ \E k \in chunk[r] : k < m

IInv ==
    /\ TypeOK
    /\ \A r \in Request : GoodRow(r)
    /\ \A p \in unhandled : Behind(p[1], p[2])

-----------------------------------------------------------------------------
\* A row that keeps its type has all its parts in their ranges.
LEMMA TypedRow ==
    ASSUME TypeOK, NEW r \in Request
    PROVE  Typed(pc[r], pageSize[r], position[r], chunk[r], awaited[r],
                 promise[r], results[r], answer[r], next[r])
BY DEF TypeOK, Typed, States, Promises, Answers

\* The elements of a sequence that has grown.
LEMMA ElementsAppend ==
    ASSUME NEW res \in Seq(Message), NEW m \in Message
    PROVE  /\ Append(res, m) \in Seq(Message)
           /\ Len(Append(res, m)) = Len(res) + 1
           /\ Elements(Append(res, m)) = Elements(res) \cup {m}
           /\ \A i \in 1..Len(res) : Append(res, m)[i] = res[i]
           /\ Append(res, m)[Len(res) + 1] = m
<1>1. /\ Append(res, m) \in Seq(Message) /\ Len(Append(res, m)) = Len(res) + 1
      /\ \A i \in 1..Len(res) : Append(res, m)[i] = res[i]
      /\ Append(res, m)[Len(res) + 1] = m
      /\ Len(res) \in Nat
  OBVIOUS
<1>2. Elements(Append(res, m)) \subseteq Elements(res) \cup {m}
  <2> SUFFICES ASSUME NEW i \in 1..Len(res) + 1
               PROVE  Append(res, m)[i] \in Elements(res) \cup {m}
    BY <1>1 DEF Elements
  <2> QED BY <1>1 DEF Elements
<1>3. Elements(res) \cup {m} \subseteq Elements(Append(res, m))
  <2>1. m \in Elements(Append(res, m))
    <3>1. Len(res) + 1 \in 1..Len(Append(res, m))
      BY <1>1
    <3> QED BY <1>1, <3>1 DEF Elements
  <2>2. \A i \in 1..Len(res) : res[i] \in Elements(Append(res, m))
    <3> SUFFICES ASSUME NEW i \in 1..Len(res) PROVE res[i] \in Elements(Append(res, m))
      OBVIOUS
    <3>1. i \in 1..Len(Append(res, m)) /\ Append(res, m)[i] = res[i]
      BY <1>1
    <3> QED BY <3>1 DEF Elements
  <2> QED BY <2>1, <2>2 DEF Elements
<1> QED BY <1>1, <1>2, <1>3

\* The cursor is the last, and greatest, element of a page that is not empty.
LEMMA Cursor ==
    ASSUME NEW res \in Seq(Message),
           \A i, j \in 1..Len(res) : i < j => res[i] < res[j], res # <<>>
    PROVE  /\ res[Len(res)] \in Elements(res) /\ res[Len(res)] # 0
           /\ \A m \in Elements(res) : m <= res[Len(res)]
<1>1. Len(res) \in Nat /\ Len(res) # 0 /\ Len(res) \in 1..Len(res)
  OBVIOUS
<1>2. \A i \in 1..Len(res) : res[i] \in Nat /\ res[i] # 0
  BY SizeAssumption DEF SizeAssumption, Message
<1>3. \A i \in 1..Len(res) : res[i] <= res[Len(res)]
  BY <1>1, <1>2
<1> QED BY <1>1, <1>2, <1>3 DEF Elements

-----------------------------------------------------------------------------
(* The rows.                                                               *)

\* A promise of a row settles (or runs on, or is lost).
LEMMA SettleRow ==
    ASSUME NEW p, NEW n, NEW pos, NEW ch, NEW aw, NEW pr, NEW res, NEW a, NEW c,
           Good(p, n, pos, ch, aw, pr, res, a, c),
           NEW qr \in [Message -> Promises],
           \A m \in Message : qr[m] = pr[m] \/ (pr[m] \in Running /\ qr[m] # "none"),
           \A m \in Message : pr[m] \notin Running => qr[m] \notin Running
    PROVE  Good(p, n, pos, ch, aw, qr, res, a, c)
<1> USE DEF Good, Running, Settled
<1>0. Elements(res) \subseteq Message /\ aw \subseteq Message
  BY DEF Typed, Elements
<1>1. Typed(p, n, pos, ch, aw, qr, res, a, c)
  BY DEF Typed
<1>2. \A m \in Elements(res) : qr[m] = pr[m]
  BY <1>0 DEF Ordered
<1>3. Ordered(pos, ch, aw, qr, res)
  BY <1>0, <1>2 DEF Ordered
<1>4. Staged(p, n, ch, aw, qr, res)
  BY <1>0 DEF Staged
<1>5. Ended(p, n, pos, aw, qr, res, a, c)
  BY <1>0, <1>2 DEF Ended
<1> QED BY <1>1, <1>3, <1>4, <1>5

\* A row is answered without a page, or is lost.
LEMMA StopRow ==
    ASSUME NEW p, NEW n, NEW pos, NEW ch, NEW aw, NEW pr, NEW res, NEW a, NEW c,
           Good(p, n, pos, ch, aw, pr, res, a, c), p # "answered",
           \A m \in aw : pr[m] \in Running => \E k \in aw : k < m,
           NEW b \in {"none", "query failed", "no status"},
           NEW q \in {"answered", "lost"}, b # "none" => q = "answered"
    PROVE  Good(q, n, pos, ch, aw, pr, res, b, c)
BY DEF Good, Typed, Staged, Ended, States, Answers

LEMMA AskRow ==
    ASSUME NEW n, NEW pos, NEW ch, NEW aw, NEW pr, NEW res, NEW a, NEW c,
           Good("idle", n, pos, ch, aw, pr, res, a, c), NEW k \in Nat
    PROVE  Good("next", k, pos, ch, aw, pr, res, a, c)
<1> USE DEF Good
<1>1. res = <<>> /\ aw = {} /\ a = "none"
  BY DEF Staged, Ended
<1>2. Typed("next", k, pos, ch, aw, pr, res, a, c)
  BY DEF Typed, States
<1>3. Staged("next", k, ch, aw, pr, res)
  BY <1>1 DEF Staged
<1>4. Ended("next", k, pos, aw, pr, res, a, c)
  BY <1>1 DEF Ended
<1> QED BY <1>2, <1>3, <1>4

LEMMA ChunkRow ==
    ASSUME NEW n, NEW pos, NEW ch, NEW aw, NEW pr, NEW res, NEW a, NEW c,
           Good("next", n, pos, ch, aw, pr, res, a, c),
           NEW k \in pos + 1 .. Last, k <= pos + MaxChunk,
           NEW docs \in SUBSET (pos + 1 .. k)
    PROVE  Good("statuses", n, k, docs, aw, pr, res, a, c)
<1> USE SizeAssumption DEF SizeAssumption, Message, Good
<1>1. pos \in Nat /\ k \in Nat /\ pos <= k /\ k <= Last /\ aw = {}
  BY DEF Typed, Staged
<1>2. docs \subseteq Message
  BY <1>1
<1>3. Typed("statuses", n, k, docs, aw, pr, res, a, c)
  BY <1>1, <1>2 DEF Typed, States
<1>4. \A m \in Elements(res) : m \in Int /\ m <= pos
  BY DEF Ordered, Typed, Elements
<1>5. Ordered(k, docs, aw, pr, res)
  <2>1. \A m \in docs : k - MaxChunk < m /\ m <= k
    BY <1>1
  <2>2. \A m \in Elements(res) : pr[m] \in Settled /\ m <= k
    BY <1>1, <1>4 DEF Ordered
  <2> QED BY <1>1, <2>1, <2>2 DEF Ordered
<1>6. Staged("statuses", n, docs, aw, pr, res)
  BY <1>1, <1>4 DEF Staged
<1>7. Ended("statuses", n, k, aw, pr, res, a, c)
  BY DEF Ended
<1> QED BY <1>3, <1>5, <1>6, <1>7

\* A chunk is yielded with its promises.
LEMMA YieldRow ==
    ASSUME NEW n, NEW pos, NEW ch, NEW aw, NEW pr, NEW res, NEW a, NEW c,
           Good("statuses", n, pos, ch, aw, pr, res, a, c),
           NEW kept \in SUBSET ch, NEW state \in {"content", "left"},
           NEW qr, qr = [m \in Message |-> IF m \in kept THEN state ELSE pr[m]],
           NEW q, q = IF kept = {} THEN "next" ELSE "await"
    PROVE  Good(q, n, pos, kept, kept, qr, res, a, c)
<1> USE DEF Good
<1>1. aw = {} /\ kept \subseteq Message /\ Elements(res) \subseteq Message
  BY DEF Typed, Staged, Elements
<1>2. \A m \in Elements(res), k \in kept : m < k
  BY DEF Staged
<1>3. \A m \in Elements(res) : m \notin kept /\ qr[m] = pr[m]
  BY <1>1, <1>2 DEF Message
<1>4. Typed(q, n, pos, kept, kept, qr, res, a, c)
  BY <1>1 DEF Typed, States, Promises, Running, Settled
<1>5. Ordered(pos, kept, kept, qr, res)
  BY <1>1, <1>2, <1>3 DEF Ordered
<1>6. Staged(q, n, kept, kept, qr, res)
  BY <1>1 DEF Staged
<1>7. Ended(q, n, pos, kept, qr, res, a, c)
  BY DEF Ended
<1> QED BY <1>4, <1>5, <1>6, <1>7

LEMMA CollectRow ==
    ASSUME NEW n, NEW pos, NEW ch, NEW aw, NEW pr, NEW res, NEW a, NEW c,
           Good("await", n, pos, ch, aw, pr, res, a, c), Len(res) < n,
           NEW m \in aw, \A k \in aw : m <= k, pr[m] \in Settled,
           NEW q, q = IF aw = {m} THEN "next" ELSE "await"
    PROVE  Good(q, n, pos, ch, aw \ {m}, pr, Append(res, m), a, c)
<1> USE DEF Good
<1> DEFINE out == Append(res, m)
<1>1. /\ aw \subseteq Message /\ m \in Message /\ res \in Seq(Message) /\ n \in Nat
      /\ Len(res) \in Nat /\ Message \subseteq Int
  BY DEF Typed, Message
<1>2. /\ out \in Seq(Message) /\ Len(out) = Len(res) + 1
      /\ Elements(out) = Elements(res) \cup {m}
      /\ \A i \in 1..Len(res) : out[i] = res[i]
      /\ out[Len(res) + 1] = m
  BY <1>1, ElementsAppend
<1> HIDE DEF out
<1>3. Typed(q, n, pos, ch, aw \ {m}, pr, out, a, c)
  BY <1>1, <1>2 DEF Typed, States
<1>4. Ordered(pos, ch, aw \ {m}, pr, out)
  <2>1. \A i \in 1..Len(res) : res[i] < m
    BY DEF Ordered, Elements
  <2>2. \A i, j \in 1..Len(out) : i < j => out[i] < out[j]
    <3> SUFFICES ASSUME NEW i \in 1..Len(out), NEW j \in 1..Len(out), i < j
                 PROVE  out[i] < out[j]
      OBVIOUS
    <3>1. i \in 1..Len(res) /\ out[i] = res[i]
      BY <1>1, <1>2
    <3>2. CASE j = Len(res) + 1
      BY <1>2, <2>1, <3>1, <3>2
    <3>3. CASE j # Len(res) + 1
      <4>1. j \in 1..Len(res) /\ out[j] = res[j]
        BY <1>1, <1>2, <3>3
      <4> QED BY <3>1, <4>1 DEF Ordered
    <3> QED BY <3>2, <3>3
  <2>3. \A e \in Elements(out), k \in aw \ {m} : e < k
    BY <1>1, <1>2 DEF Ordered
  <2>4. \A e \in Elements(out) : pr[e] \in Settled /\ e <= pos
    BY <1>2 DEF Ordered
  <2>5. \A k \in Message : pr[k] # "none" <=> k \in Elements(out) \/ k \in aw \ {m}
    BY <1>2 DEF Ordered
  <2> QED BY <2>2, <2>3, <2>4, <2>5 DEF Ordered
<1>5. Staged(q, n, ch, aw \ {m}, pr, out)
  BY <1>1, <1>2 DEF Staged
<1>6. Ended(q, n, pos, aw \ {m}, pr, out, a, c)
  BY DEF Ended
<1> QED BY <1>3, <1>4, <1>5, <1>6 DEF out

\* Among what was listed there is an error, or all is enriched.
LEMMA LeftOrRight ==
    ASSUME NEW pos, NEW ch, NEW aw, NEW pr, NEW res, Ordered(pos, ch, aw, pr, res)
    PROVE  \/ \E m \in Elements(res) : pr[m] = "left"
           \/ \A m \in Elements(res) : pr[m] = "right"
BY DEF Ordered, Settled

\* A page is refused for an error it lists, full or not.
LEMMA CannotEnrichRow ==
    ASSUME NEW p \in {"next", "await"}, NEW n, NEW pos, NEW ch, NEW aw, NEW pr,
           NEW res, NEW a, NEW c, Good(p, n, pos, ch, aw, pr, res, a, c),
           \A m \in aw : pr[m] \in Running => \E k \in aw : k < m,
           \E m \in Elements(res) : pr[m] = "left"
    PROVE  Good("answered", n, pos, ch, aw, pr, res, "Cannot enrich data", c)
BY DEF Good, Typed, Staged, Ended, States, Answers

LEMMA PageFullRow ==
    ASSUME NEW n, NEW pos, NEW ch, NEW aw, NEW pr, NEW res, NEW a, NEW c,
           Good("await", n, pos, ch, aw, pr, res, a, c), Len(res) = n,
           \A m \in aw : pr[m] \in Running => \E k \in aw : k < m,
           \A m \in Elements(res) : pr[m] = "right",
           NEW d, d = IF res = <<>> THEN 0 ELSE res[Len(res)]
    PROVE  Good("answered", n, pos, ch, aw, pr, res, "page", d)
<1> USE DEF Good
<1>1. res \in Seq(Message) /\ \A i, j \in 1..Len(res) : i < j => res[i] < res[j]
  BY DEF Typed, Ordered
<1>2. CASE res = <<>>
  <2>1. d = 0 /\ n = 0
    BY <1>2
  <2>2. d \in 0..Last
    BY <2>1, SizeAssumption DEF SizeAssumption
  <2>3. Ended("answered", n, pos, aw, pr, res, "page", d)
    BY <2>1 DEF Ended
  <2> QED BY <2>2, <2>3 DEF Typed, Staged, States, Answers
<1>3. CASE res # <<>>
  <2>1. /\ d \in Elements(res) /\ d # 0 /\ \A m \in Elements(res) : m <= d
    BY <1>1, <1>3, Cursor
  <2>2. d \in 0..Last
    BY <1>1, <2>1, SizeAssumption DEF SizeAssumption, Message, Elements
  <2>3. Ended("answered", n, pos, aw, pr, res, "page", d)
    BY <2>1 DEF Ended
  <2> QED BY <2>2, <2>3 DEF Typed, Staged, States, Answers
<1> QED BY <1>2, <1>3

LEMMA PageEndsRow ==
    ASSUME NEW n, NEW ch, NEW aw, NEW pr, NEW res, NEW a, NEW c,
           Good("next", n, Last, ch, aw, pr, res, a, c), c = 0,
           \A m \in Elements(res) : pr[m] = "right"
    PROVE  Good("answered", n, Last, ch, aw, pr, res, "page", c)
BY DEF Good, Typed, Staged, Ended, States, Answers

LEMMA PageRejectedRow ==
    ASSUME NEW n, NEW pos, NEW ch, NEW aw, NEW pr, NEW res, NEW a, NEW c,
           Good("await", n, pos, ch, aw, pr, res, a, c),
           NEW m \in aw, \A k \in aw : m <= k, pr[m] = "rejected"
    PROVE  Good("answered", n, pos, ch, aw, pr, res, "rejected", c)
<1> USE DEF Good
<1>1. aw \subseteq Message /\ Message \subseteq Int
  BY DEF Typed, Message
<1>2. \A k \in aw : pr[k] \in Running => m < k
  BY <1>1 DEF Running
<1> QED BY <1>2 DEF Typed, Staged, Ended, States, Answers

-----------------------------------------------------------------------------
(* The steps.                                                              *)

SameRow(q) ==
    /\ pc'[q] = pc[q] /\ pageSize'[q] = pageSize[q] /\ position'[q] = position[q]
    /\ chunk'[q] = chunk[q] /\ awaited'[q] = awaited[q] /\ promise'[q] = promise[q]
    /\ results'[q] = results[q] /\ answer'[q] = answer[q] /\ next'[q] = next[q]

\* Promises that are rejected or lost stay so.
Keeps(q) ==
    /\ chunk'[q] = chunk[q]
    /\ \A m \in Message : promise[q][m] \in {"rejected", "lost"} => promise'[q][m] = promise[q][m]

\* A request that awaits nothing has no rejection behind it.
LEMMA NothingBehind ==
    ASSUME IInv, NEW r \in Request, awaited[r] = {}
    PROVE  \A m \in Message : ~Behind(r, m)
BY DEF IInv, GoodRow, Good, Ordered, Behind, Settled

\* A step of one request, which keeps its chunk or awaits nothing.
LEMMA OneRow ==
    ASSUME IInv, NEW r \in Request, TypeOK', GoodRow(r)', unhandled' = unhandled,
           \A q \in Request \ {r} : SameRow(q), awaited[r] = {} \/ Keeps(r)
    PROVE  IInv'
<1>1. \A q \in Request : GoodRow(q)'
  BY DEF IInv, SameRow, GoodRow
<1>2. ASSUME NEW p \in unhandled  PROVE Behind(p[1], p[2])'
  <2>1. p[1] \in Request /\ p[2] \in Message /\ Behind(p[1], p[2])
    BY DEF IInv, TypeOK
  <2>2. Keeps(p[1])
    BY <2>1, NothingBehind DEF SameRow, Keeps
  <2> QED BY <2>1, <2>2 DEF Behind, Keeps
<1> QED BY <1>1, <1>2 DEF IInv

LEMMA InitInv == Init => IInv
<1> SUFFICES ASSUME Init PROVE IInv
  OBVIOUS
<1>1. Len(<<>>) = 0 /\ <<>> \in Seq(Message) /\ Elements(<<>>) = {}
  BY DEF Elements
<1>2. TypeOK
  BY <1>1, SizeAssumption DEF SizeAssumption, Init, TypeOK
<1>3. ASSUME NEW r \in Request PROVE GoodRow(r)
  <2>1. Typed("idle", 0, 0, {}, {}, [m \in Message |-> "none"], <<>>, "none", 0)
    BY <1>1, SizeAssumption DEF SizeAssumption, Typed, States, Promises, Answers
  <2>2. Ordered(0, {}, {}, [m \in Message |-> "none"], <<>>)
    BY <1>1 DEF Ordered
  <2>3. Staged("idle", 0, {}, {}, [m \in Message |-> "none"], <<>>)
    BY <1>1 DEF Staged
  <2>4. Ended("idle", 0, 0, {}, [m \in Message |-> "none"], <<>>, "none", 0)
    BY DEF Ended
  <2> QED BY <2>1, <2>2, <2>3, <2>4 DEF Init, GoodRow, Good
<1> QED BY <1>2, <1>3 DEF Init, IInv

LEMMA AskInv ==
    ASSUME IInv, NEW r \in Request, Ask(r)
    PROVE  IInv'
<1>1. PICK n \in PageSize : pageSize' = [pageSize EXCEPT ![r] = n]
  BY DEF Ask
<1>2. n \in Nat /\ TypeOK
  BY SizeAssumption DEF SizeAssumption, IInv
<1>3. TypeOK'
  BY <1>1, <1>2 DEF Ask, TypeOK
<1>4. GoodRow(r)'
  <2>1. pc[r] = "idle" /\ pc'[r] = "next" /\ pageSize'[r] = n
    BY <1>1, <1>2 DEF Ask, TypeOK
  <2>2. GoodRow(r)
    BY DEF IInv
  <2> QED BY <1>2, <2>1, <2>2, AskRow DEF Ask, GoodRow
<1>5. \A q \in Request \ {r} : SameRow(q)
  BY <1>1, <1>2 DEF Ask, TypeOK, SameRow
<1>6. Keeps(r)
  BY DEF Ask, Keeps
<1> QED BY <1>3, <1>4, <1>5, <1>6, OneRow DEF Ask

LEMMA NextChunkInv ==
    ASSUME IInv, NEW r \in Request, NextChunk(r)
    PROVE  IInv'
<1> USE DEF NextChunk, Documents
<1>1. PICK n \in position[r] + 1 .. Last :
          /\ n <= position[r] + MaxChunk
          /\ position' = [position EXCEPT ![r] = n]
          /\ \E docs \in SUBSET (position[r] + 1 .. n) :
                chunk' = [chunk EXCEPT ![r] = docs]
  OBVIOUS
<1>2. PICK docs \in SUBSET (position[r] + 1 .. n) : chunk' = [chunk EXCEPT ![r] = docs]
  BY <1>1
<1>3. TypeOK /\ position[r] \in 0..Last /\ n \in 0..Last /\ docs \subseteq Message
  <2>1. TypeOK /\ position[r] \in 0..Last
    BY DEF IInv, TypeOK
  <2>2. n \in 0..Last /\ docs \subseteq 1..Last
    BY <1>1, <2>1, SizeAssumption DEF SizeAssumption
  <2> QED BY <2>1, <2>2 DEF Message
<1>4. TypeOK'
  BY <1>1, <1>2, <1>3 DEF TypeOK
<1>5. /\ pc[r] = "next" /\ pc'[r] = "statuses" /\ position'[r] = n /\ chunk'[r] = docs
  BY <1>1, <1>2, <1>3 DEF TypeOK
<1>6. GoodRow(r)
  BY DEF IInv
<1>7. GoodRow(r)'
  BY <1>1, <1>5, <1>6, ChunkRow DEF GoodRow
<1>8. \A q \in Request \ {r} : SameRow(q)
  BY <1>1, <1>2, <1>3 DEF TypeOK, SameRow
<1>9. awaited[r] = {}
  BY <1>5, <1>6 DEF GoodRow, Good, Staged
<1> QED BY <1>4, <1>7, <1>8, <1>9, OneRow

LEMMA YieldInv ==
    ASSUME IInv, NEW r \in Request, pc[r] = "statuses", NEW kept \in SUBSET chunk[r],
           NEW state \in {"content", "left"}, Yield(r, kept, state)
    PROVE  IInv'
<1> USE DEF Yield
<1>1. TypeOK /\ kept \subseteq Message
  BY DEF IInv, TypeOK
<1>2. /\ pc'[r] = (IF kept = {} THEN "next" ELSE "await")
      /\ chunk'[r] = kept /\ awaited'[r] = kept
      /\ promise'[r] = [m \in Message |-> IF m \in kept THEN state ELSE promise[r][m]]
  BY <1>1 DEF TypeOK
<1>3. TypeOK'
  <2>1. promise'[r] \in [Message -> {"none", "rejected", "lost"} \cup Running \cup Settled]
    BY <1>1, <1>2 DEF TypeOK, Running, Settled
  <2> QED BY <1>1, <1>2, <2>1 DEF TypeOK
<1>4. GoodRow(r)
  BY DEF IInv
<1>5. GoodRow(r)'
  BY <1>2, <1>4, YieldRow DEF GoodRow
<1>6. \A q \in Request \ {r} : SameRow(q)
  BY <1>1 DEF TypeOK, SameRow
<1>7. awaited[r] = {}
  BY <1>4 DEF GoodRow, Good, Staged
<1> QED BY <1>3, <1>5, <1>6, <1>7, OneRow

\* An answer, with or without a cursor, changes nothing else.
LEMMA AnswerInv ==
    ASSUME IInv, NEW r \in Request, NEW a \in Answers \ {"none"}, Answer(r, a),
           NEW c \in 0..Last, next' = [next EXCEPT ![r] = c],
           UNCHANGED <<pageSize, position, chunk, awaited, promise, results, unhandled>>,
           Good("answered", pageSize[r], position[r], chunk[r], awaited[r],
                promise[r], results[r], a, c)
    PROVE  IInv'
<1>1. TypeOK /\ pc'[r] = "answered" /\ answer'[r] = a /\ next'[r] = c
  BY DEF IInv, TypeOK, Answer
<1>2. TypeOK'
  BY <1>1 DEF TypeOK, Answer, Answers
<1>3. GoodRow(r)'
  BY <1>1 DEF GoodRow
<1>4. \A q \in Request \ {r} : SameRow(q)
  BY <1>1 DEF TypeOK, Answer, SameRow
<1>5. Keeps(r)
  BY DEF Keeps
<1> QED BY <1>2, <1>3, <1>4, <1>5, OneRow

LEMMA QueryFailsInv ==
    ASSUME IInv, NEW r \in Request, QueryFails(r) \/ StatusMissing(r)
    PROVE  IInv'
<1>1. GoodRow(r) /\ TypeOK
  BY DEF IInv
<1>2. /\ pc[r] # "answered" /\ awaited[r] = {} /\ next' = [next EXCEPT ![r] = next[r]]
      /\ next[r] \in 0..Last
  BY <1>1 DEF QueryFails, StatusMissing, GoodRow, Good, Staged, TypeOK
<1>3. PICK a \in {"query failed", "no status"} : Answer(r, a)
  BY DEF QueryFails, StatusMissing
<1>4. Good("answered", pageSize[r], position[r], chunk[r], awaited[r],
           promise[r], results[r], a, next[r])
  BY <1>1, <1>2, StopRow DEF GoodRow
<1> QED BY <1>2, <1>3, <1>4, AnswerInv DEF QueryFails, StatusMissing, Answers

\* When the promise of the element awaited is settled, the others run behind it.
LEMMA RunBehind ==
    ASSUME IInv, NEW r \in Request, NEW m, IsAwaited(r, m), promise[r][m] \notin Running
    PROVE  \A k \in awaited[r] : promise[r][k] \in Running => \E l \in awaited[r] : l < k
<1>1. awaited[r] \subseteq Message
  BY DEF IInv, TypeOK
<1>2. \A k \in awaited[r] : k \in Int
  BY <1>1 DEF Message
<1>3. m \in awaited[r] /\ \A k \in awaited[r] : m <= k
  BY DEF IsAwaited
<1> QED BY <1>2, <1>3

LEMMA CollectInv ==
    ASSUME IInv, NEW r \in Request, NEW m \in Message, Collect(r, m)
    PROVE  IInv'
<1> USE DEF Collect, Collectable, IsAwaited
<1>1. TypeOK /\ Append(results[r], m) \in Seq(Message)
  BY ElementsAppend DEF IInv, TypeOK
<1>2. /\ pc[r] = "await" /\ results'[r] = Append(results[r], m)
      /\ awaited'[r] = awaited[r] \ {m}
      /\ pc'[r] = (IF awaited[r] = {m} THEN "next" ELSE "await")
  BY <1>1 DEF TypeOK
<1>3. TypeOK'
  BY <1>1 DEF TypeOK
<1>4. GoodRow(r)
  BY DEF IInv
<1>5. GoodRow(r)'
  <2>1. Good(pc'[r], pageSize[r], position[r], chunk[r], awaited[r] \ {m},
             promise[r], Append(results[r], m), answer[r], next[r])
    BY <1>2, <1>4, CollectRow DEF GoodRow
  <2> QED BY <1>2, <2>1 DEF GoodRow
<1>6. \A q \in Request \ {r} : SameRow(q)
  BY <1>1 DEF TypeOK, SameRow
<1>7. Keeps(r)
  BY DEF Keeps
<1> QED BY <1>3, <1>5, <1>6, <1>7, OneRow

\* SomeLeft is about the elements of the page.
LEMMA SomeLeftMeans ==
    ASSUME NEW r \in Request
    PROVE  SomeLeft(r) <=> \E m \in Elements(results[r]) : promise[r][m] = "left"
BY DEF SomeLeft, Elements

LEMMA PageFullInv ==
    ASSUME IInv, NEW r \in Request, NEW m \in Message, PageFull(r, m)
    PROVE  IInv'
<1>1. GoodRow(r) /\ TypeOK /\ next[r] \in 0..Last
  BY DEF IInv, TypeOK
<1>2. pc[r] = "await" /\ Len(results[r]) = pageSize[r] /\ promise[r][m] \notin Running
  BY DEF PageFull, Collectable, IsAwaited, Settled, Running
<1>3. \A k \in awaited[r] : promise[r][k] \in Running => \E l \in awaited[r] : l < k
  BY <1>2, RunBehind DEF PageFull, Collectable
<1>4. CASE SomeLeft(r)
  <2>1. Answer(r, "Cannot enrich data") /\ next' = [next EXCEPT ![r] = next[r]]
    BY <1>1, <1>4 DEF PageFull, TypeOK
  <2>2. Good("answered", pageSize[r], position[r], chunk[r], awaited[r],
             promise[r], results[r], "Cannot enrich data", next[r])
    BY <1>1, <1>2, <1>3, <1>4, SomeLeftMeans, CannotEnrichRow DEF GoodRow
  <2> QED BY <1>1, <2>1, <2>2, AnswerInv DEF PageFull, Answers
<1>5. CASE ~SomeLeft(r)
  <2>1. Answer(r, "page") /\ next' = [next EXCEPT ![r] = cursor(r)]
    BY <1>5 DEF PageFull
  <2>2. \A k \in Elements(results[r]) : promise[r][k] = "right"
    BY <1>1, <1>5, SomeLeftMeans, LeftOrRight DEF GoodRow, Good
  <2>3. Good("answered", pageSize[r], position[r], chunk[r], awaited[r],
             promise[r], results[r], "page", cursor(r))
    BY <1>1, <1>2, <1>3, <2>2, PageFullRow DEF GoodRow, cursor
  <2>4. cursor(r) \in 0..Last
    BY <2>3 DEF Good, Typed
  <2> QED BY <2>1, <2>3, <2>4, AnswerInv DEF PageFull, Answers
<1> QED BY <1>4, <1>5

LEMMA PageEndsInv ==
    ASSUME IInv, NEW r \in Request, PageEnds(r)
    PROVE  IInv'
<1>0. GoodRow(r) /\ TypeOK /\ pc[r] = "next" /\ position[r] = Last
  BY DEF IInv, PageEnds
<1>1. /\ next[r] = 0 /\ next[r] \in 0..Last /\ awaited[r] = {}
      /\ next' = [next EXCEPT ![r] = next[r]]
  <2>1. answer[r] # "page" /\ awaited[r] = {}
    BY <1>0 DEF GoodRow, Good, Ended, Staged
  <2>2. next[r] = 0
    BY <1>0, <2>1 DEF GoodRow, Good, Ended
  <2> QED BY <1>0, <2>1, <2>2 DEF TypeOK, PageEnds
<1>2. CASE SomeLeft(r)
  <2>1. Good("answered", pageSize[r], position[r], chunk[r], awaited[r],
             promise[r], results[r], "Cannot enrich data", next[r])
    BY <1>0, <1>1, <1>2, SomeLeftMeans, CannotEnrichRow DEF GoodRow
  <2> QED BY <1>1, <1>2, <2>1, AnswerInv DEF PageEnds, Answers
<1>3. CASE ~SomeLeft(r)
  <2>1. \A k \in Elements(results[r]) : promise[r][k] = "right"
    BY <1>0, <1>3, SomeLeftMeans, LeftOrRight DEF GoodRow, Good
  <2>2. Good("answered", pageSize[r], position[r], chunk[r], awaited[r],
             promise[r], results[r], "page", next[r])
    BY <1>0, <1>1, <2>1, PageEndsRow DEF GoodRow
  <2> QED BY <1>1, <1>3, <2>2, AnswerInv DEF PageEnds, Answers
<1> QED BY <1>2, <1>3

LEMMA PageRejectedInv ==
    ASSUME IInv, NEW r \in Request, NEW m \in Message, PageRejected(r, m)
    PROVE  IInv'
<1>1. /\ GoodRow(r) /\ TypeOK /\ next[r] \in 0..Last
      /\ next' = [next EXCEPT ![r] = next[r]]
      /\ pc[r] = "await" /\ m \in awaited[r] /\ \A k \in awaited[r] : m <= k
  BY DEF IInv, TypeOK, PageRejected, IsAwaited
<1>2. Good("answered", pageSize[r], position[r], chunk[r], awaited[r],
           promise[r], results[r], "rejected", next[r])
  BY <1>1, PageRejectedRow DEF GoodRow, PageRejected
<1> QED BY <1>1, <1>2, AnswerInv DEF PageRejected, Answers

\* Promises settle, are rejected or lost; nothing else of a request changes but that
\* it may be lost.
LEMMA PromisesInv ==
    ASSUME IInv, UNCHANGED <<pageSize, position, chunk, awaited, results, answer, next>>,
           promise' \in [Request -> [Message -> Promises]],
           NEW r \in Request, NEW m \in Message, promise[r][m] \in Running,
           promise'[r][m] # "none",
           \A q \in Request, k \in Message : q # r \/ k # m =>
              \/ promise'[q][k] = promise[q][k]
              \/ promise[q][k] \in Running /\ promise'[q][k] = "lost",
           \/ pc' = pc
           \/ /\ pc' \in [Request -> States]
              /\ \A q \in Request : \A k \in Message : promise'[q][k] \notin Running
              /\ \A q \in Request :
                    pc'[q] = pc[q] \/ (pc'[q] = "lost" /\ pc[q] # "answered"),
           \/ unhandled' = unhandled
           \/ /\ unhandled' = unhandled \cup {<<r, m>>}
              /\ promise'[r][m] \in {"rejected", "lost"}
              /\ m \in noContent
              /\ ~IsAwaited(r, m)
    PROVE  IInv'
<1>1. TypeOK'
  <2>1. pc' \in [Request -> States]
    BY DEF IInv, TypeOK, States
  <2>2. unhandled' \subseteq Request \X Message
    <3>1. <<r, m>> \in Request \X Message /\ unhandled \subseteq Request \X Message
      BY DEF IInv, TypeOK
    <3>2. unhandled' \subseteq unhandled \cup {<<r, m>>}
      OBVIOUS
    <3> QED BY <3>1, <3>2
  <2> QED BY <2>1, <2>2 DEF IInv, TypeOK, States, Promises
<1>2. ASSUME NEW q \in Request  PROVE GoodRow(q)'
  <2>1. GoodRow(q) /\ promise'[q] \in [Message -> Promises]
    BY DEF IInv
  <2>2. \A k \in Message :
          /\ \/ promise'[q][k] = promise[q][k]
             \/ promise[q][k] \in Running /\ promise'[q][k] # "none"
          /\ promise[q][k] \notin Running => promise'[q][k] \notin Running
    BY DEF Running
  <2>3. Good(pc[q], pageSize[q], position[q], chunk[q], awaited[q],
             promise'[q], results[q], answer[q], next[q])
    BY <2>1, <2>2, SettleRow DEF GoodRow
  <2>4. CASE pc'[q] = pc[q]
    BY <2>3, <2>4 DEF GoodRow
  <2>5. CASE pc'[q] # pc[q]
    <3>1. /\ \A k \in Message : promise'[q][k] \notin Running
          /\ pc'[q] = "lost" /\ pc[q] # "answered" /\ awaited[q] \subseteq Message
      BY <2>5 DEF IInv, TypeOK
    <3>2. answer[q] = "none"
      BY <2>3, <3>1 DEF Good, Ended, Typed, Answers
    <3>3. Good("lost", pageSize[q], position[q], chunk[q], awaited[q],
               promise'[q], results[q], "none", next[q])
      BY <2>3, <3>1, StopRow
    <3> QED BY <3>1, <3>2, <3>3 DEF GoodRow
  <2> QED BY <2>4, <2>5
<1>3. ASSUME NEW p \in unhandled'  PROVE Behind(p[1], p[2])'
  <2>1. CASE p \in unhandled
    <3>1. p[1] \in Request /\ p[2] \in Message /\ Behind(p[1], p[2])
      BY <2>1 DEF IInv, TypeOK
    <3>2. promise'[p[1]][p[2]] = promise[p[1]][p[2]]
      BY <3>1 DEF Behind, Running
    <3> QED BY <3>1, <3>2 DEF Behind
  <2>2. CASE p = <<r, m>> /\ p \notin unhandled
    <3>1. /\ promise'[r][m] \in {"rejected", "lost"} /\ m \in noContent
          /\ ~IsAwaited(r, m) /\ p[1] = r /\ p[2] = m
      BY <2>2
    <3>2. GoodRow(r) /\ awaited[r] \subseteq Message
      BY DEF IInv, TypeOK
    <3>3. m \in awaited[r] /\ awaited[r] \subseteq chunk[r]
      BY <3>2 DEF GoodRow, Good, Ordered, Running, Settled
    <3>4. \E k \in awaited[r] : k < m
      <4>1. CASE pc[r] = "await"
        <5>1. \A k \in awaited[r] : k \in Int
          BY <3>2 DEF Message
        <5> QED BY <3>1, <3>3, <4>1, <5>1 DEF IsAwaited
      <4>2. CASE pc[r] # "await"
        BY <3>2, <3>3, <4>2 DEF GoodRow, Good, Staged
      <4> QED BY <4>1, <4>2
    <3> QED BY <3>1, <3>3, <3>4 DEF Behind
  <2> QED BY <2>1, <2>2
<1> QED BY <1>1, <1>2, <1>3 DEF IInv

LEMMA SettleInv ==
    ASSUME IInv, NEW r \in Request, NEW m \in Message, NEW from \in Running,
           NEW to \in Promises \ {"none"}, Settle(r, m, from, to)
    PROVE  IInv'
<1>1. promise' = [promise EXCEPT ![r][m] = to] /\ promise[r][m] = from
  BY DEF Settle
<1>2. promise \in [Request -> [Message -> Promises]]
  BY DEF IInv, TypeOK, Promises
<1>3. /\ promise' \in [Request -> [Message -> Promises]]
      /\ promise'[r][m] = to
      /\ \A q \in Request, k \in Message : q # r \/ k # m => promise'[q][k] = promise[q][k]
  BY <1>1, <1>2
<1>4. UNCHANGED <<pc, pageSize, position, chunk, awaited, results, answer, next, unhandled>>
  BY DEF Settle, work
<1> QED BY <1>1, <1>3, <1>4, PromisesInv

LEMMA ContentMissingInv ==
    ASSUME IInv, NEW r \in Request, NEW m \in Message, ContentMissing(r, m)
    PROVE  IInv'
<1>1. promise' = [promise EXCEPT ![r][m] = "rejected"] /\ promise[r][m] \in Running
  BY DEF ContentMissing, Rejects, Running
<1>2. promise \in [Request -> [Message -> Promises]]
  BY DEF IInv, TypeOK, Promises
<1>3. /\ promise' \in [Request -> [Message -> Promises]]
      /\ promise'[r][m] = "rejected"
      /\ \A q \in Request, k \in Message : q # r \/ k # m => promise'[q][k] = promise[q][k]
  BY <1>1, <1>2 DEF Promises
<1>4. UNCHANGED <<pc, pageSize, position, chunk, awaited, results, answer, next>>
  BY DEF ContentMissing, work
<1>5. \/ unhandled' = unhandled
      \/ /\ unhandled' = unhandled \cup {<<r, m>>}
         /\ m \in noContent /\ ~IsAwaited(r, m)
  BY DEF ContentMissing, Rejects
<1> QED BY <1>1, <1>3, <1>4, <1>5, PromisesInv

LEMMA ProcessExitsInv ==
    ASSUME IInv, NEW r \in Request, NEW m \in Message, ProcessExits(r, m)
    PROVE  IInv'
<1> USE DEF ProcessExits
<1>1. promise \in [Request -> [Message -> Promises]] /\ pc \in [Request -> States]
  BY DEF IInv, TypeOK, Promises, States
<1>2. /\ promise' \in [Request -> [Message -> Promises]]
      /\ \A q \in Request, k \in Message :
            /\ promise'[q][k] = (IF promise[q][k] \in Running THEN "lost" ELSE promise[q][k])
            /\ promise'[q][k] \notin Running
  BY <1>1 DEF Promises, Running
<1>3. /\ pc' \in [Request -> States]
      /\ \A q \in Request : pc'[q] = pc[q] \/ (pc'[q] = "lost" /\ pc[q] # "answered")
  BY <1>1 DEF States
<1>4. promise[r][m] \in Running /\ m \in noContent /\ ~IsAwaited(r, m)
  BY DEF Rejects, Running
<1>5. promise'[r][m] = "lost" /\ unhandled' = unhandled \cup {<<r, m>>}
  BY <1>2, <1>4
<1> QED BY <1>2, <1>3, <1>4, <1>5, PromisesInv

LEMMA StepInv == IInv /\ [Next]_vars => IInv'
<1> SUFFICES ASSUME IInv, [Next]_vars PROVE IInv'
  OBVIOUS
<1>1. CASE UNCHANGED vars
  BY <1>1 DEF vars, work, IInv, TypeOK, GoodRow, Behind
<1>2. CASE Next
  <2>1. PICK r \in Request :
            \/ Ask(r)
            \/ getMessagesFromFallback(r)
            \/ \E m \in Message : Promise(r, m)
    BY <1>2 DEF Next
  <2>2. CASE Ask(r)
    BY <2>2, AskInv
  <2>3. CASE getMessagesFromFallback(r)
    <3>1. CASE NextChunk(r)
      BY <3>1, NextChunkInv
    <3>2. CASE QueryFails(r) \/ StatusMissing(r)
      BY <3>2, QueryFailsInv
    <3>3. CASE enrichContentData(r)
      BY <3>3, YieldInv DEF enrichContentData
    <3>4. CASE StatusFails(r)
      BY <3>4, YieldInv DEF StatusFails
    <3>5. CASE PageEnds(r)
      BY <3>5, PageEndsInv
    <3>6. ASSUME NEW m \in Message,
                 Collect(r, m) \/ PageFull(r, m) \/ PageRejected(r, m)
          PROVE  IInv'
      BY <3>6, CollectInv, PageFullInv, PageRejectedInv
    <3> QED BY <2>3, <3>1, <3>2, <3>3, <3>4, <3>5, <3>6 DEF getMessagesFromFallback
  <2>4. ASSUME NEW m \in Message, Promise(r, m)  PROVE IInv'
    <3>1. CASE ContentFound(r, m)
      <4>1. PICK to \in {"configuration", "right"} : Settle(r, m, "content", to)
        BY <3>1 DEF ContentFound
      <4> QED BY <4>1, SettleInv DEF Promises, Running, Settled
    <3>2. CASE ContentFails(r, m)
      BY <3>2, SettleInv DEF ContentFails, Promises, Running, Settled
    <3>3. CASE ConfigurationFound(r, m)
      BY <3>3, SettleInv DEF ConfigurationFound, Promises, Running, Settled
    <3>4. CASE ConfigurationFails(r, m)
      BY <3>4, SettleInv DEF ConfigurationFails, Promises, Running, Settled
    <3> QED BY <2>4, <3>1, <3>2, <3>3, <3>4, ContentMissingInv, ProcessExitsInv DEF Promise
  <2> QED BY <2>1, <2>2, <2>3, <2>4
<1> QED BY <1>1, <1>2

LEMMA Inductive == Spec => []IInv
BY InitInv, StepInv, PTL DEF Spec

-----------------------------------------------------------------------------
(* What follows.                                                           *)

\* Listed and Offered are what the rows say.
LEMMA ListedOffered ==
    ASSUME IInv, NEW r \in Request
    PROVE  /\ Listed(r) = Elements(results[r])
           /\ \A m \in Message : m \in Offered(r) <=> m \in Listed(r) \/ m \in awaited[r]
           /\ Listed(r) \subseteq Message /\ awaited[r] \subseteq Message
           /\ Offered(r) \subseteq Message
<1>1. Listed(r) = Elements(results[r])
  BY DEF Listed, Elements
<1>2. GoodRow(r)
  BY DEF IInv
<1>3. /\ Elements(results[r]) \subseteq Message /\ awaited[r] \subseteq Message
  BY <1>2 DEF GoodRow, Good, Typed, Elements
<1> QED BY <1>1, <1>2, <1>3 DEF GoodRow, Good, Ordered, Offered

\* The variables of EagerPage keep their types.
THEOREM TypeCorrect == Spec => []TypeOK
<1>1. IInv => TypeOK
  BY DEF IInv
<1> QED BY <1>1, Inductive, PTL

\* Whatever order the contents arrive in, for any number of requests, chunks and any
\* page size, a page lists the enriched messages in the order of the query and skips
\* none.
THEOREM InOrder == Spec => []PageInOrder
<1>1. IInv => PageInOrder
  <2> SUFFICES ASSUME IInv, NEW r \in Request, answer[r] = "page"
               PROVE  /\ Len(results[r]) <= pageSize[r]
                      /\ \A i, j \in 1..Len(results[r]) : i < j => results[r][i] < results[r][j]
                      /\ \A m \in Listed(r) : promise[r][m] = "right"
                      /\ \A m \in Offered(r) \ Listed(r) : \A n \in Listed(r) : n < m
                      /\ next[r] # 0 =>
                            next[r] \in Listed(r) /\ \A m \in Listed(r) : m <= next[r]
    BY DEF PageInOrder
  <2>1. GoodRow(r)
    BY DEF IInv
  <2> QED BY <2>1, ListedOffered DEF GoodRow, Good, Ordered, Staged, Ended
<1> QED BY <1>1, Inductive, PTL

\* A page is only refused for a message it would list or for the next one.
THEOREM OwnErrors == Spec => []ErrorsAreOfThePage
<1>1. IInv => ErrorsAreOfThePage
  <2> SUFFICES ASSUME IInv, NEW r \in Request
               PROVE  /\ answer[r] = "Cannot enrich data" =>
                            /\ Len(results[r]) <= pageSize[r]
                            /\ \E m \in Listed(r) : promise[r][m] = "left"
                      /\ answer[r] = "rejected" => \E m \in Offered(r) \ Listed(r) :
                            /\ promise[r][m] = "rejected"
                            /\ Len(results[r]) <= pageSize[r]
                            /\ \A n \in Offered(r) : n < m => n \in Listed(r)
    BY DEF ErrorsAreOfThePage
  <2>1. GoodRow(r)
    BY DEF IInv
  <2>2. Len(results[r]) <= pageSize[r]
    BY <2>1 DEF GoodRow, Good, Staged
  <2>3. answer[r] = "Cannot enrich data" => \E m \in Listed(r) : promise[r][m] = "left"
    BY <2>1, ListedOffered DEF GoodRow, Good, Ended
  <2>4. ASSUME answer[r] = "rejected"
        PROVE  \E m \in Offered(r) \ Listed(r) :
                  /\ promise[r][m] = "rejected"
                  /\ \A n \in Offered(r) : n < m => n \in Listed(r)
    <3>1. PICK m \in awaited[r] : promise[r][m] = "rejected" /\ \A k \in awaited[r] : m <= k
      BY <2>1, <2>4 DEF GoodRow, Good, Ended
    <3>2. m \notin Listed(r)
      BY <2>1, <3>1, ListedOffered DEF GoodRow, Good, Ordered, Settled
    <3>3. \A n \in awaited[r] : ~(n < m)
      BY <3>1, ListedOffered DEF Message
    <3> QED BY <3>1, <3>2, <3>3, ListedOffered
  <2> QED BY <2>2, <2>3, <2>4
<1> QED BY <1>1, Inductive, PTL

\* A page without a cursor, but of page_size 0, has listed everything.
THEOREM LastPage == Spec => []NoCursorNoMore
<1>1. IInv => NoCursorNoMore
  <2> SUFFICES ASSUME IInv, NEW r \in Request, answer[r] = "page", next[r] = 0,
                      pageSize[r] # 0
               PROVE  position[r] = Last /\ Offered(r) = Listed(r)
    BY DEF NoCursorNoMore
  <2>1. GoodRow(r)
    BY DEF IInv
  <2>2. position[r] = Last /\ awaited[r] = {}
    BY <2>1 DEF GoodRow, Good, Ended
  <2> QED BY <2>2, ListedOffered
<1> QED BY <1>1, Inductive, PTL

\* What a request leaves running is of the last chunk it read.
THEOREM Bounded == Spec => []BoundedEagerness
<1>1. IInv => BoundedEagerness
  <2> SUFFICES ASSUME IInv, NEW r \in Request, NEW m \in Message, promise[r][m] \in Running
               PROVE  m \in awaited[r] /\ position[r] - MaxChunk < m /\ m <= position[r]
    BY DEF BoundedEagerness
  <2>1. GoodRow(r)
    BY DEF IInv
  <2>2. m \in awaited[r]
    BY <2>1 DEF GoodRow, Good, Ordered, Running, Settled
  <2> QED BY <2>1, <2>2 DEF GoodRow, Good, Ordered
<1> QED BY <1>1, Inductive, PTL

\* No rejection is left unhandled but of content that is missing behind another
\* message of its own chunk.
THEOREM OnlyBehind == Spec => []FirstIsAwaited
<1>1. IInv => FirstIsAwaited
  BY DEF IInv, Behind, FirstIsAwaited
<1> QED BY <1>1, Inductive, PTL
=============================================================================
