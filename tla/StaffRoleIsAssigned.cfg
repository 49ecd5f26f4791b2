\* One request at a time is enough: the answer is wrong.
SPECIFICATION MCSpec
CONSTANTS
    Permissions = {"user", "role"}
    Slugs = {"sales"}
    Passwords = {"k1", "k2"}
    Workers = {w1, w2}
    MaxId = 3
    MaxRequests = 3
SYMMETRY Symmetric
INVARIANTS RoleIsAssigned
