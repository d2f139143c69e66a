SPECIFICATION Spec
CONSTANTS
  Whole = 10
  Profiles <- MCProfiles
  Opening = 6
  Gains = {5}
  Rule <- MCRule
  Exempt = FALSE
  Scale = 10
  Overrides = {3}
  Callers = {c1}
  Savers = {s1, s2}
  MaxRolls = 2
  MaxSaves = 2
  MaxCommands = 2
  MaxCrashes = 1
SYMMETRY Symmetry
INVARIANTS ProfitAddsUp ResetHonoured SwitchKept SavedIsInForce
  PastLimitByCrash OverrideStakedOnce
CHECK_DEADLOCK FALSE
