SPECIFICATION Spec
CONSTANTS
    Requests = {r1, r2}
    Orgs = {"acme", "beta"}
    Usernames = {"ann", "bob"}
INVARIANTS UsersHaveAnAdmin
CHECK_DEADLOCK FALSE
