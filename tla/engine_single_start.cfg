SPECIFICATION Spec
CONSTANTS
  None = None
  Workers = {w1}
  Sessions = {s1}
  Bets = {b1, b2, b3}
  Runners = {r1, r2}
  StartRequests = {q1}
  StopRequests = {p1}
  Repeated = {}
  Channels = {"queue"}
  MaxProcesses = 1
  MaxLapses = 0
  MaxFaults = 0
SYMMETRY Symmetry
INVARIANT CompletedIsSettled
CHECK_DEADLOCK FALSE
