SPECIFICATION Spec
CONSTANTS
    p1 = p1
    p2 = p2
    p3 = p3
    p1Text = p1Text
    p1Upper = p1Upper
    p2Text = p2Text
    p3Text = p3Text
    noText = noText
    Orders = {o1, o2}
    Readers = {q1}
    Half = 4
    MaxFaults = 2
    MaxFailures = 1
    Products <- MCProducts
    Texts <- MCTexts
    Value <- MCValue
    Prices <- MCPrices
    Requests <- MCRequests
INVARIANTS
    TypeOK
    StoredAsAsked
    AnswersTrue
PROPERTIES
    StepsOfOrderService
