SPECIFICATION CheckedSpec
CONSTANTS
    o1 = o1
    o2 = o2
    o3 = o3
    p1 = p1
    p2 = p2
    p3 = p3
    Pods = {pod1, pod2}
    Orders <- MCOrders
    Products <- MCProducts
    InitialStock <- MCStock
    Demand <- MCDemand
    Listing <- MCListing
    Unpaid <- MCUnpaid
    Checks <- MCChecks
    MaxFailures = 1
INVARIANTS
    CheckTypeOK
    CheckStockTrue
PROPERTIES
    AtomicTransactions
    OrdersProcessed
    DeclinedReleased
