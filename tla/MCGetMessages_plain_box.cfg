\* Without enrichment the fallback ignores `archived`.
CONSTANTS
    Id = {1, 2, 3}
    Top = 9
    Source = {"plain"}
    shouldGetArchivedMessages = FALSE
    minimumId = 0
    pageSize = 2
    MaxChunk = 2
    MaxEvents = 2
SPECIFICATION Spec
INVARIANTS
    ListsTheRequestedBox
\* The session ends.
CHECK_DEADLOCK FALSE
