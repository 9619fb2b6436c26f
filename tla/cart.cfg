SPECIFICATION Spec
CONSTANTS
    Products = {p1, p2}
    MaxQuantity = 2
    MaxRequests = 2
    MaxFaults = 2
    EarlyReload = FALSE
SYMMETRY Symmetry
INVARIANTS
    RefreshKeepsCart
    OrderedOnce
