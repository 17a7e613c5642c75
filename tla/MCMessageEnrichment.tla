------------------------- MODULE MCMessageEnrichment -------------------------
(* Contents for model checking: attributes that the data do not have are fixed. *)
EXTENDS MessageEnrichment

Meaningful ==
    {c \in ContentType :
        /\ "payment_data" \notin c.data => ~c.payee
        /\ "third_party_data" \notin c.data =>
              c.has_precondition = "undefined" /\ ~c.configuration_id}

Payments == {c \in Meaningful : "payment_data" \in c.data /\ "third_party_data" \notin c.data}
Payeeless == {c \in Meaningful : ~c.payee /\ "legal_data" \notin c.data}
\* Payments with and without a payee, a certificate that comes before a payment, and
\* third party data that tell their precondition, need the configuration, or have none.
Chosen ==
    {c \in Meaningful :
        \/ c.data = {"payment_data"}
        \/ c.data = {"eu_covid_cert", "payment_data"} /\ ~c.payee
        \/ c.data = {"third_party_data"} /\ c.has_precondition = "undefined"
        \/ c.data = {"third_party_data"} /\ c.has_precondition = "ONCE" /\ c.configuration_id}

\* A configuration that no route reads is the same in every behaviour at first.
InitOneUnread == Init /\ (~NeedsConfiguration => configuration = "ALWAYS")
OneUnread == InitOneUnread /\ [][Next]_vars
=============================================================================
