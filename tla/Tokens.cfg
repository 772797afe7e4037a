SPECIFICATION Spec
CONSTANTS
    Requests = {r1, r2, r3}
    Users = {11}
    MaxTokens = 4
SYMMETRY Symmetric
INVARIANTS SessionForksOnlyByRestart LogoutHolds RefusedForItsOwnToken
CHECK_DEADLOCK FALSE
