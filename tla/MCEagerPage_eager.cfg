\* Two requests in one process: the second message of three has no content.
CONSTANTS
    Request = {r1, r2}
    Last = 3
    MaxChunk = 2
    PageSize = {0, 1, 2}
    noContent = {2}
    needsConfiguration = {3}
SPECIFICATION FairSpec
INVARIANTS
    TypeOK
    PageInOrder
    ErrorsAreOfThePage
    NoCursorNoMore
    BoundedEagerness
    FirstIsAwaited
PROPERTIES
    EveryRequestEnds
    ImplementsLazyPage
\* Every request may have ended.
CHECK_DEADLOCK FALSE
