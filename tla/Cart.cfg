\* Two requests overlap, of one customer or of two; prices and the fee change.
SPECIFICATION MCSpec
CONSTANTS
    Customers = {c1, c2}
    Products = {p1}
    Prices = {1, 3}
    Fees = {1, 2}
    Workers = {w1, w2}
    Nobody = Nobody
    MaxLines = 2
    MaxQty = 2
    MaxOrders = 2
SYMMETRY Symmetric
INVARIANTS CartInv CartAsAsked
PROPERTIES OnlyOwnerEdits
