SPECIFICATION Spec
CONSTANTS
    Handlers = {h1, h2}
    Ids = {q1, q2}
    Amount = 2
    MaxBalance = 3
    MaxServed = 1
    MaxSessions = 1
    MaxRolls = 2
    MaxTroubles = 0
    None = None
SYMMETRY Symmetry
PROPERTIES
    PaysFromAvailable
CHECK_DEADLOCK FALSE
