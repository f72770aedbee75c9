CONSTANTS
    NoBinding = none
    d1 = d1
    d2 = d2
    Bindings = {none, d1, d2}
    Views <- AllViews
    FinalView <- Revision1
    Garbled <- MiddleAndEnd
    HoldLimit = 2
    MaxSeq = 4
SPECIFICATION Spec
PROPERTIES
    UnobservedIsHeld
CHECK_DEADLOCK FALSE
