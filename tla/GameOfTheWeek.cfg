SPECIFICATION Spec
CONSTANTS
  Games = {doom, quake}
  Voters = {ann, bob}
  Stars <- MCStars
  Conns = {c1, c2, c3}
  Batch = 2
  MaxStarts = 4
  Week = 2
  Patience = 1
  Recent = 6
  Horizon = 3
SYMMETRY MCSymmetry
INVARIANTS TotalsExact VotesNeverDeadlock OneGameAWeek
CHECK_DEADLOCK FALSE
