SPECIFICATION Spec
CONSTANTS
    a1 = a1
    a2 = a2
    a3 = a3
    bobs = bobs
    doras = doras
    away = away
    ann = ann
    bob = bob
    dora = dora
    desk = desk
    loft = loft
    annex = annex
    Bookings <- MCBookings
    Owner <- MCOwner
    Room <- MCRoom
    Start <- MCStart
    Users = {ann, bob, dora}
    Rooms = {desk, loft, annex}
    Admins = {ann, dora}
    UserOrg <- MCUserOrg
    RoomOrg <- MCRoomOrg
    Readers = {ann}
    Limits = {1, 2}
    None = None
INVARIANTS SkippedOnlyByStoppingEarly RepeatedOnlyByInsert ExportAddsUp ExportAgreesWithList
PROPERTIES PageHasWhatWasCounted
CHECK_DEADLOCK FALSE
