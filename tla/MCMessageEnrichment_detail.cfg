\* The detail with and without public_message, and the item of the containers.
CONSTANTS
    Route = {"detail", "plain", "fallback"}
    Contents <- Chosen
    isPN = FALSE
    isMapped = FALSE
    MaxVersion = 2
    MaxChanges = 1
SPECIFICATION OneUnread
INVARIANTS
    TypeOK
    RoutesAgree
    PayeeWins
    PaidToTheShown
    AnswersAreWhole
PROPERTIES
    ImplementsCachedLookups
\* Every route may have been answered.
CHECK_DEADLOCK FALSE
