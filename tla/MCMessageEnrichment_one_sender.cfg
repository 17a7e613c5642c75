\* The detail of payments, while the service is published.
CONSTANTS
    Route = {"detail"}
    Contents <- Payments
    isPN = FALSE
    isMapped = FALSE
    MaxVersion = 2
    MaxChanges = 2
SPECIFICATION Spec
INVARIANTS
    OneSender
\* Every route may have been answered.
CHECK_DEADLOCK FALSE
