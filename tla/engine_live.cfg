SPECIFICATION FairSpec
CONSTANTS
  None = None
  Workers = {w1, w2}
  Sessions = {s1}
  Bets = {b1}
  Runners = {r1, r2}
  StartRequests = {q1}
  StopRequests = {p1}
  Repeated = {}
  Channels = {"http"}
  MaxProcesses = 1
  MaxLapses = 0
  MaxFaults = 0
PROPERTIES StopIsCarriedOut OrphanIsAdopted
CHECK_DEADLOCK FALSE
