------------------------------ MODULE StatusLog ------------------------------
(***************************************************************************)
(* What the message-status collection promises to its readers, without the *)
(* reads, errors and races of the handler that writes it: one append-only  *)
(* log per message, numbered without gaps, whose entries belong to the     *)
(* recipient of the message; a request adds at most one entry, equal to an *)
(* EARLIER entry of the same message (not necessarily the last one) with   *)
(* the fields of its change replaced.                                      *)
(***************************************************************************)
EXTENDS MessageStatusData

CONSTANT
    Request         \* the requests that may change a status

VARIABLES
    log,            \* the entries of every message
    effective       \* the requests that have added their entry

logVars == <<log, effective>>

entries(m) == {d \in log : d.messageId = m}

\* d is the last entry of its message.
IsLast(d) == \A e \in entries(d.messageId) : e.version <= d.version

Init ==
    /\ log = {}
    /\ effective = {}

\* The sending services log that they accepted a message ...
Accept(m) ==
    /\ entries(m) = {}
    /\ log' = log \cup
          {[messageId |-> m, version |-> 0, fiscalCode |-> Owner[m],
            isRead |-> FALSE, isArchived |-> FALSE, status |-> "ACCEPTED"]}
    /\ UNCHANGED effective

\* ... and that they processed it.
Process(m) ==
    /\ \E d \in entries(m) :
          /\ IsLast(d)
          /\ log' = log \cup
                {[d EXCEPT !.version = d.version + 1, !.status = "PROCESSED"]}
    /\ UNCHANGED effective

\* A request adds its entry: an earlier one with the change applied.
Apply(r) ==
    /\ r \notin effective
    /\ \E b \in log, c \in Change :
          \E d \in entries(b.messageId) :
             /\ IsLast(d)
             /\ log' = log \cup {[mapChange(b, c) EXCEPT !.version = d.version + 1]}
    /\ effective' = effective \cup {r}

Next ==
    \/ \E m \in Message : Accept(m) \/ Process(m)
    \/ \E r \in Request : Apply(r)

Spec == Init /\ [][Next]_logVars
=============================================================================
