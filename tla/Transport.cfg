CONSTANTS
    NoBinding = none
    d1 = d1
    d2 = d2
    Bindings = {none, d1, d2}
    Views <- AllViews
    FinalView <- Revision1
    Garbled <- MiddleAndEnd
    HoldLimit = 2
    MaxSeq = 4
SPECIFICATION FairSpec
INVARIANTS
    TypeOK
    NonceNeverReused
    AcceptedIsHeld
PROPERTIES
    NothingDeliveredOverContradiction
    ImplementsChannel
    SealedIsDelivered
CHECK_DEADLOCK FALSE
