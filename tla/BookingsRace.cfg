SPECIFICATION FaultSpec
CONSTANTS
    ann = ann
    bob = bob
    eve = eve
    desk = desk
    loft = loft
    Requests = {r1, r2, r3}
    Users = {ann, bob, eve}
    Admins = {bob, eve}
    Rooms = {desk, loft}
    UserOrg <- TwoOrgs
    RoomOrg <- RoomOfEach
    Rate <- TwoRates
    HOUR = 2
    FULL_NOTICE = 1
    HALF_NOTICE = 1
    QUOTA_LIMIT = 1
    MIN_DURATION_HOURS = 1
    MAX_DURATION_HOURS = 2
    GRACE = 1
    FIRST_CODE = 1000
    Starts <- EarlyStart
    Durations <- RaceDurations
    MaxClock = 1
    None = None
SYMMETRY Symmetric
INVARIANTS TypeOK DoubleBookingOnlyByRace QuotaExceededOnlyByRace DoubleRefundOnlyByRace CancelledDetailShowsRefund CancelledIffRefunded TenantsApart
CHECK_DEADLOCK FALSE
