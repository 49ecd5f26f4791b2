\* Two handlers overlap on one order, with two restarts or lost answers.
SPECIFICATION MCFairSpec
CONSTANTS
    OrderIds = {o1}
    Workers = {w1, w2}
    Statuses = {"pending", "confirmed"}
    Pending = "pending"
    NoOrder = NoOrder
    MaxLosses = 2
INVARIANTS RecordsAreTrue PaidIsAnnounced OrderAgrees
PROPERTIES PaymentsStand PaymentRecordedAnyway
