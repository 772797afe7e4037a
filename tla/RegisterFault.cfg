SPECIFICATION FaultSpec
CONSTANTS
    Requests = {r1, r2, r3, r4}
    Orgs = {"acme", "beta"}
    Usernames = {"ann", "bob"}
SYMMETRY Symmetric
INVARIANTS AtMostOneAdmin AdminMissingOnlyByAccident
CHECK_DEADLOCK FALSE
