SPECIFICATION FairSpec
CONSTANTS
  None = None
  Workers = {w1, w2}
  Flushes = {f1, f2}
  Users = {u1, u2}
  Payouts = {p1, p2, p3}
  FeeAmounts = {1}
  MaxProcesses = 1
  MaxRolls = 3
  MaxFaults = 1
INVARIANTS TypeOK NoFeeTwice PayoutCovered
PROPERTIES ImplementsSingleTransfer FeeIsDispatched
CHECK_DEADLOCK FALSE
