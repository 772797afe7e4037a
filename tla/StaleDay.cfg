SPECIFICATION Spec
CONSTANTS
    late = late
    early = early
    Bookings = {late, early}
    BookingRoom <- DeskOnly
    StartDay <- Starts
    LastDay <- Lasts
    Rooms = {1, 2}
    OldRooms = {1}
    Writes <- AllWrites
    Ranges <- OneRange
    Dates <- BothDays
    Readers = {r1}
INVARIANTS NothingCancelledShown
CHECK_DEADLOCK FALSE
