SPECIFICATION FairSpec
CONSTANTS
    p1 = p1
    p2 = p2
    p3 = p3
    p4 = p4
    Orders = {o1, o2}
    InventoryPods = {pod1}
    Products <- MCProducts
    Carts <- TwoCarts
    Prices <- MCPrices
    InitialStock <- MCStock
    Limits <- MCLimits
    MaxFaults = 1
PROPERTIES
    PlacedOrderSettles
