SPECIFICATION Spec
CONSTANTS
  Browsers = {home}
  Reqs = {r1, r2}
  Limit = 1
  MaxLogins = 2
  MaxPages = 3
  MaxSids = 2
  MaxResets = 1
SYMMETRY MCSymmetry
INVARIANTS EndedStaysEnded ResetHolds LoginKept GuessesBounded
CHECK_DEADLOCK FALSE
