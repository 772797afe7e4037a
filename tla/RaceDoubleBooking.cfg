SPECIFICATION Spec
CONSTANTS
    ann = ann
    bob = bob
    eve = eve
    desk = desk
    loft = loft
    Requests = {r1, r2, r3}
    Users = {ann, eve}
    Admins = {eve}
    Rooms = {desk}
    UserOrg <- OneOrg
    RoomOrg <- OneRoom
    Rate <- OneRate
    HOUR = 2
    FULL_NOTICE = 1
    HALF_NOTICE = 1
    QUOTA_LIMIT = 1
    MIN_DURATION_HOURS = 1
    MAX_DURATION_HOURS = 2
    GRACE = 1
    FIRST_CODE = 1000
    Starts <- RacingStarts
    Durations <- OneHour
    MaxClock = 0
    None = None
SYMMETRY Symmetric
INVARIANT NoDoubleBooking
CHECK_DEADLOCK FALSE
