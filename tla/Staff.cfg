\* Three requests, two at a time: one can take away what the others read.
SPECIFICATION MCSpec
CONSTANTS
    Permissions = {"user", "role"}
    Slugs = {"sales"}
    Passwords = {"k1", "k2"}
    Workers = {w1, w2}
    MaxId = 3
    MaxRequests = 3
SYMMETRY Symmetric
INVARIANTS StaffInv
PROPERTIES AdministratorsStay SavesOneChangeApart
