\* A reading and an archiving change that overlap: one flag is lost.
CONSTANTS
    m1 = m1
    alice = alice
    bob = bob
    Message <- OneMessage
    FiscalCode = {alice}
    Owner <- OwnerOne
    Request = {r1, r2}
    Asked <- FewChanges
    Lag = 0
    NoDoc = NoDoc
SPECIFICATION Spec
INVARIANTS
    EveryChangeKeepsFlags
\* Every request may have been answered.
CHECK_DEADLOCK FALSE
