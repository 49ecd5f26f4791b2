\* AttemptsCounted is refuted.
SPECIFICATION Spec
CONSTANTS
    Phones = {p1}
    Chats = {h1, h2}
    NoChat = NoChat
    Forms = {f1}
    NoForm = NoForm
    Workers = {w1, w2}
    MaxAttempts = 1
    MaxRows = 2
    MaxCodes = 2
    MaxLosses = 1
SYMMETRY Symmetric
INVARIANT AttemptsCounted
