------------------------------- MODULE LazyPage -------------------------------
(***************************************************************************)
(* What the pages of the requests of a process amount to, without chunks   *)
(* and without promises: a page takes the messages that the query has      *)
(* found one at a time, in order, and what goes wrong with a message is    *)
(* only known when the page has come to it.  Of what goes on behind the    *)
(* page nothing can be told but that it may end the process.               *)
(***************************************************************************)
EXTENDS Integers, Sequences

CONSTANTS Request, Last, MaxChunk, PageSize, noContent

Message == 1..Last

VARIABLES
    state,      \* of each request: "idle", "open", "answered" or "lost"
    pageSize,
    reached,    \* the documents that the query has read
    found,      \* the messages it has found
    results,    \* those the page has taken, in order
    errors,     \* those of them that could not be enriched
    answer, next

vars == <<state, pageSize, reached, found, results, errors, answer, next>>

Init ==
    /\ state    = [r \in Request |-> "idle"]
    /\ pageSize = [r \in Request |-> 0]
    /\ reached  = [r \in Request |-> 0]
    /\ found    = [r \in Request |-> {}]
    /\ results  = [r \in Request |-> <<>>]
    /\ errors   = [r \in Request |-> {}]
    /\ answer   = [r \in Request |-> "none"]
    /\ next     = [r \in Request |-> 0]

waiting(r) == found[r] \ {results[r][i] : i \in 1..Len(results[r])}

\* m is the message the page has come to.
IsNext(r, m) ==
    /\ state[r] = "open"
    /\ m \in waiting(r)
    /\ \A n \in waiting(r) : m <= n

Ask(r) ==
    /\ state[r] = "idle"
    /\ state' = [state EXCEPT ![r] = "open"]
    /\ \E n \in PageSize : pageSize' = [pageSize EXCEPT ![r] = n]
    /\ UNCHANGED <<reached, found, results, errors, answer, next>>

\* The page needs more messages: all that were found are taken.
NeedsMore(r) == state[r] = "open" /\ waiting(r) = {}

\* The query reads some more documents ...
Read(r) ==
    /\ NeedsMore(r)
    /\ \E n \in reached[r] + 1 .. Last :
          /\ n <= reached[r] + MaxChunk
          /\ reached' = [reached EXCEPT ![r] = n]
    /\ UNCHANGED <<state, pageSize, found, results, errors, answer, next>>

\* ... and finds messages of the box among them.
Find(r) ==
    /\ NeedsMore(r)
    /\ \E ms \in SUBSET Message :
          /\ \A m \in ms : /\ reached[r] - MaxChunk < m /\ m <= reached[r]
                           /\ \A n \in found[r] : n < m
          /\ found' = [found EXCEPT ![r] = @ \cup ms]
    /\ UNCHANGED <<state, pageSize, reached, results, errors, answer, next>>

\* The page takes the next message, enriched or as an error.
Take(r) ==
    /\ Len(results[r]) < pageSize[r]
    /\ \E m \in Message :
          /\ IsNext(r, m)
          /\ results' = [results EXCEPT ![r] = Append(@, m)]
          /\ errors' \in {errors, [errors EXCEPT ![r] = @ \cup {m}]}
    /\ UNCHANGED <<state, pageSize, reached, found, answer, next>>

Answer(r, a, c) ==
    /\ state' = [state EXCEPT ![r] = "answered"]
    /\ answer' = [answer EXCEPT ![r] = a]
    /\ next' = [next EXCEPT ![r] = c]
    /\ UNCHANGED <<pageSize, reached, found, results, errors>>

\* The page, with the cursor c, unless a message of it is an error.
AnswerPage(r, c) ==
    IF errors[r] = {} THEN Answer(r, "page", c) ELSE Answer(r, "Cannot enrich data", 0)

\* The page is full, and there is another message.
Full(r) ==
    /\ Len(results[r]) = pageSize[r]
    /\ \E m \in Message : IsNext(r, m)
    /\ AnswerPage(r, IF results[r] = <<>> THEN 0 ELSE results[r][Len(results[r])])

\* There are no more messages.
End(r) ==
    /\ NeedsMore(r)
    /\ reached[r] = Last
    /\ AnswerPage(r, 0)

\* More messages cannot be had.
Fail(r) ==
    /\ NeedsMore(r)
    /\ \E a \in {"query failed", "no status"} : Answer(r, a, 0)

\* The next message has no content.
Reject(r) ==
    /\ \E m \in noContent : IsNext(r, m)
    /\ Answer(r, "rejected", 0)

\* The process ends, for a message without content close behind another one.
Exit ==
    /\ \E r \in Request : \E m \in noContent \cap waiting(r) : \E n \in found[r] :
          n < m /\ m < n + MaxChunk
    /\ state' = [r \in Request |-> IF state[r] = "open" THEN "lost" ELSE state[r]]
    /\ UNCHANGED <<pageSize, reached, found, results, errors, answer, next>>

Next ==
    \/ \E r \in Request :
          \/ Ask(r) \/ Read(r) \/ Find(r) \/ Take(r)
          \/ Full(r) \/ End(r) \/ Fail(r) \/ Reject(r)
    \/ Exit

Spec == Init /\ [][Next]_vars
=============================================================================
