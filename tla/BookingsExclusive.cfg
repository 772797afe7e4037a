SPECIFICATION ExclusiveSpec
CONSTANTS
    ann = ann
    bob = bob
    eve = eve
    desk = desk
    loft = loft
    Requests = {r1, r2, r3}
    Users = {ann, eve}
    Admins = {eve}
    Rooms = {desk}
    UserOrg <- OneOrg
    RoomOrg <- OneRoom
    Rate <- OneRate
    HOUR = 1
    FULL_NOTICE = 1
    HALF_NOTICE = 1
    QUOTA_LIMIT = 1
    MIN_DURATION_HOURS = 1
    MAX_DURATION_HOURS = 4
    GRACE = 2
    FIRST_CODE = 1000
    Starts <- ExclusiveStarts
    Durations <- UpToFourHours
    MaxClock = 2
    None = None
SYMMETRY Symmetric
INVARIANTS NoDoubleBooking QuotaRespected RefusalsJustified AtMostOneRefund CountMatchesAtRest RevenueMatchesAtRest
PROPERTY LedgerImplemented
CHECK_DEADLOCK FALSE
