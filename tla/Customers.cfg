\* Three requests on an empty table or on a row from before phones were
\* normalized: two can make what the third, overlapping, may undo.
SPECIFICATION MCSpec
CONSTANTS
    Phones = {p1}
    Emails = {e1}
    Subs = {s1}
    Passwords = {k1, k2}
    Workers = {w1, w2}
    Chats = {h1}
    NoChat = NoChat
    None = none
    Forms = {f1}
    NoForm = NoForm
    MaxAttempts = 1
    MaxRows = 0
    MaxCodes = 0
    MaxLosses = 0
    MaxRequests = 3
    MaxFaults = 1
SYMMETRY Symmetric
CHECK_DEADLOCK FALSE
INVARIANTS CustomersInv ChangesStay
PROPERTIES NoAccountIsTrueAlone
