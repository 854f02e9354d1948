SPECIFICATION AnyTwoSpec
CONSTANTS
  m1 = m1
  m2 = m2
  w1 = w1
  w2 = w2
  w3 = w3
  sitemap = sitemap
  widget = widget
  Machines = {m1, m2}
  Mortal = {}
  Writes = {w1, w2, w3}
  KindOf <- GapKinds
  OwnerOf <- GapOwners
  Keys = {widget}
  LocalDrop <- MCLocalDrop
  MaxRetries = 2
INVARIANTS Coherence NoWriteForgotten
SYMMETRY Alike
