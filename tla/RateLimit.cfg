SPECIFICATION Spec
CONSTANTS
    Requests = {r1, r2, r3, r4, r5}
    WINDOW = 2
    MAX_REQUESTS = 2
    MaxClock = 4
SYMMETRY Symmetric
INVARIANTS RejectionJustified LimitBrokenOnlyByOvertaking
CHECK_DEADLOCK FALSE
