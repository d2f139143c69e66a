SPECIFICATION Spec
CONSTANTS
  None = None
  Workers = {w1, w2}
  Sessions = {s1, s2}
  Bets = {b1, b2}
  Runners = {r1}
  StartRequests = {q1}
  StopRequests = {}
  Repeated = {q1}
  Channels = {"queue"}
  MaxProcesses = 1
  MaxLapses = 0
  MaxFaults = 1
SYMMETRY Symmetry
INVARIANT SettledIsTrue
PROPERTY ImplementsLifecycle
CHECK_DEADLOCK FALSE
