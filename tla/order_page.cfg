SPECIFICATION PageFairSpec
CONSTANTS
    p1 = p1
    p2 = p2
    p3 = p3
    Orders = {o1}
    InventoryPods = {pod1}
    Products <- MCProducts
    Carts <- MCCarts
    Prices <- MCPrices
    InitialStock <- MCStock
    Limits <- MCLimits
    MaxFaults = 1
INVARIANTS
    PageTypeOK
    StoppedIsFinal
    OneStory
    StoryMatchesStatus
    ShownAgree
PROPERTIES
    PageSettles
    EveryEventTold
