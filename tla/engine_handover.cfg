SPECIFICATION Spec
CONSTANTS
  None = None
  Workers = {w1, w2}
  Sessions = {s1}
  Bets = {b1, b2}
  Runners = {r1, r2}
  StartRequests = {q1}
  StopRequests = {p1}
  Repeated = {}
  Channels = {"queue"}
  MaxProcesses = 2
  MaxLapses = 1
  MaxFaults = 0
SYMMETRY Symmetry
INVARIANTS TypeOK OneFlightPerSession ExecutedIsDurable
PROPERTY StopDrains
CHECK_DEADLOCK FALSE
