SPECIFICATION Spec
CONSTANTS
    Requests = {r1, r2}
    Sent <- MCSent
    Mortal = {"order", "product", "inventory", "notification"}
    MaxFaults = 2
INVARIANTS
    TypeOK
    AnswerTellsEffect
    IdCorrelates
PROPERTIES
    BackInService
