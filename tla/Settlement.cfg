SPECIFICATION Spec
CONSTANTS
    HOUR = 2
    FULL_NOTICE = 48
    HALF_NOTICE = 24
    Prices <- PricesFull
    MaxNotice = 100
    MaxLate = 3
    None = None
INVARIANTS LedgerWithinACent UnderpaidOnlyInOneHour
PROPERTY WaitingNeverPaysMore
CHECK_DEADLOCK FALSE
