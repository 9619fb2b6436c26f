SPECIFICATION FairSpec
CONSTANTS
    p1 = p1
    p2 = p2
    p3 = p3
    p4 = p4
    Orders = {o1, o2}
    InventoryPods = {pod1, pod2}
    Products <- MCProducts
    Carts <- AllCarts
    Prices <- MCPrices
    InitialStock <- MCStock
    Limits <- MCLimits
    MaxFaults = 2
INVARIANTS
    TypeOK
    OneOutcome
    StockConserved
    PaidKeepsStock
    AgreementAtRest
PROPERTIES
    TerminalStatusFinal
    PublishedOrderSettles
    LifecycleLive
