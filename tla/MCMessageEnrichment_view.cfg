\* Both sources of the list, for contents that name no payee.
CONSTANTS
    Route = {"fallback", "view"}
    Contents <- Payeeless
    isPN = TRUE
    isMapped = TRUE
    MaxVersion = 2
    MaxChanges = 2
SPECIFICATION Spec
INVARIANTS
    RoutesAgree
    PreconditionFitsTheItem
\* Every route may have been answered.
CHECK_DEADLOCK FALSE
