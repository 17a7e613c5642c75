\* An item of the view, for payments.
CONSTANTS
    Route = {"view"}
    Contents <- Payments
    isPN = FALSE
    isMapped = FALSE
    MaxVersion = 1
    MaxChanges = 0
SPECIFICATION Spec
INVARIANTS
    PayeeWins
\* Every route may have been answered.
CHECK_DEADLOCK FALSE
