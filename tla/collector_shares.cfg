SPECIFICATION Spec
CONSTANTS
  Whole = 10
  ann = ann
  ben = ben
  Users = {ann, ben}
  Bettors = {ben}
  Nobody = nobody
  Referrer <- MCReferrer
  Referral <- MCReferral
  Holding = 2
  Gains = {40}
  Share <- MCShare
  Processes = {p1, p2}
  Slots = 2
  MinimumClaim = 1
  Opening = 0
  MaxBets = 1
  MaxRequests = 1
  MaxCrashes = 1
SYMMETRY Symmetry
INVARIANTS EveryShareTried SharesAddUp CutoffCovered MoveIsRecorded
PROPERTY ImplementsSingleTransfer
CHECK_DEADLOCK FALSE
