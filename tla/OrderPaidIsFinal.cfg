\* Overlapping handlers break PaidIsFinal.
SPECIFICATION MCFairSpec
CONSTANTS
    OrderIds = {o1}
    Workers = {w1, w2}
    Statuses = {"pending", "confirmed"}
    Pending = "pending"
    NoOrder = NoOrder
    MaxLosses = 1
PROPERTY PaidIsFinal
