SPECIFICATION Spec
CONSTANTS
    Handlers = {h1, h2}
    Ids = {q1, q2}
    Amount = 2
    MaxBalance = 3
    MaxServed = 2
    MaxSessions = 2
    MaxRolls = 1
    MaxTroubles = 1
    None = None
SYMMETRY Symmetry
INVARIANTS StatusIsTrue 
PROPERTIES ImplementsSingleTransfer
CHECK_DEADLOCK FALSE
