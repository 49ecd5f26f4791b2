\* Two requests overlap for two phones; for one of them they fail as well.
SPECIFICATION Spec
CONSTANTS
    Phones = {p1, p2}
    Chats = {h1, h2}
    NoChat = NoChat
    Forms = {f1}
    NoForm = NoForm
    Workers = {w1, w2}
    MaxAttempts = 1
    MaxRows = 2
    MaxCodes = 2
    MaxLosses = 1
CONSTRAINT LossesWithOnePhone
SYMMETRY Symmetric
INVARIANTS OtpInv OneAccountEach RegisteredUnlessCut CodeUsedOnce
