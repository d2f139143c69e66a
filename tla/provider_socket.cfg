SPECIFICATION Spec
CONSTANTS
  Readers = {r1, r2}
  Viewer = viewer
  Bettor = bettor
  Login = login
  Loop = loop
  Nobody = nobody
  Attempts = 2
  MaxSockets = 2
  MaxEvents = 3
SYMMETRY Symmetry
INVARIANTS OwnUpdate NoStraySocket StaleIsExplained NobodyIsLeftWaiting
CHECK_DEADLOCK FALSE
