SPECIFICATION Spec
CONSTANTS
    late = late
    early = early
    Bookings = {late, early}
    BookingRoom <- DeskAndLoft
    StartDay <- Starts
    LastDay <- Lasts
    Rooms = {1, 2}
    OldRooms = {1}
    Writes <- ThreeWrites
    Ranges <- TwoRanges
    Dates <- FirstDay
    Readers = {r1}
INVARIANTS ReportStaleOnlyByRace HiddenOnlyByRace
CHECK_DEADLOCK FALSE
