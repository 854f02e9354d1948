SPECIFICATION Spec
CONSTANTS
  r1 = r1
  r2 = r2
  r3 = r3
  r4 = r4
  Names = {1, 2, 3, 4, 9}
  Runs = {r1, r2, r3, r4}
  Files <- MCFiles
  Sum <- MCSum
  KindOf <- MCKind
  Malformed = {4}
  Foreign = {9}
  Initially <- MCInitially
  Attempts = 2
INVARIANTS OneAtATime RowsMeanSchema OnceEach DoneMeansCurrent
PROPERTIES RecordedInOrder
