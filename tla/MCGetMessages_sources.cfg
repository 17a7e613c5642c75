\* Enriched pages, from the containers or from the view, as each request is answered.
CONSTANTS
    Id = {1, 2, 3, 4}
    Top = 9
    Source = {"fallback", "view"}
    shouldGetArchivedMessages = FALSE
    minimumId = 0
    pageSize = 1
    MaxChunk = 2
    MaxEvents = 3
SPECIFICATION Spec
INVARIANTS
    TypeOK
    ListsTheRequestedBox
    PagesGoBack
PROPERTIES
    ImplementsListing
\* The session ends.
CHECK_DEADLOCK FALSE
