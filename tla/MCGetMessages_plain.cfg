\* Pages above a minimum_id, of the archive, with or without enrichment.
CONSTANTS
    Id = {1, 2, 3, 4}
    Top = 9
    Source = {"fallback", "plain"}
    shouldGetArchivedMessages = TRUE
    minimumId = 1
    pageSize = 2
    MaxChunk = 2
    MaxEvents = 3
SPECIFICATION Spec
INVARIANTS
    ListsEverything
\* The session ends.
CHECK_DEADLOCK FALSE
