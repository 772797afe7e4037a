SPECIFICATION MCSpec
CONSTANTS
    c1 = c1
    c2 = c2
    x1 = x1
    g1 = g1
    desk = desk
    loft = loft
    Creates = {c1, c2}
    Cancels = {x1}
    Gets = {g1}
    Rooms = {desk, loft}
    Price = 29
    FIRST_CODE = 1000
    THREADS = 2
    POOL = 2
    None = None
INVARIANTS NoLostUpdate CountLosesOnlyEarlyCancels AuditFollowsMail NothingLeaks LocksAreNotHeldUp JamNeedsThreadsAndPool StatsCoverWhatWasDone
PROPERTIES IssuesAtomically EveryRequestAnswered
CHECK_DEADLOCK FALSE
