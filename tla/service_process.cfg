SPECIFICATION FairSpec
CONSTANTS
    Pods = {pod1, pod2}
    Requests = {r1}
    Latest = 1
    MaxFaults = 2
INVARIANTS
    TypeOK
    ReadySchema
    SignalFinishesRequests
PROPERTIES
    EndsWhenTold
    ConsumesAgain
