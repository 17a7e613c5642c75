\* Two overlapping requests, any change, on one message; reads lag by a version or not.
CONSTANTS
    m1 = m1
    alice = alice
    bob = bob
    Message <- OneMessage
    FiscalCode = {alice, bob}
    Owner <- OwnerOne
    Request = {r1, r2}
    Asked <- AllChanges
    Lag = 1
    NoDoc = NoDoc
SPECIFICATION Spec
SYMMETRY RequestSymmetry
INVARIANTS
    TypeOK
    VersionsGapless
    OnlyRecipientWrites
    ResponsesTellTheLog
    RaceFreeKeepsFlags
    SettledChangesStay
PROPERTIES
    ImplementsStatusLog
\* Every request may have been answered.
CHECK_DEADLOCK FALSE
