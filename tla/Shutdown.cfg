SPECIFICATION FairSpec
CONSTANTS
  Conns = {c1, c2, c3}
  Queries = {q1, q2}
  Deadline = 3
INVARIANTS CleanMeansDrained CrashReported
PROPERTIES IdleSwept Leaves
