SPECIFICATION FairSpec
CONSTANTS
  m1 = m1
  m2 = m2
  w1 = w1
  w2 = w2
  w3 = w3
  sitemap = sitemap
  widget = widget
  Machines = {m1, m2}
  Mortal = {m1, m2}
  Writes = {w1}
  KindOf <- OneKind
  OwnerOf <- OneOwner
  Keys = {widget}
  LocalDrop <- MCLocalDrop
  MaxRetries = 2
PROPERTIES Converges ImplementsPromise
