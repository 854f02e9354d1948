SPECIFICATION Spec
CONSTANTS
  Titles <- MCTitles
  Words <- MCWords
  Base <- MCBase
  Reserved <- MCReserved
  MaxId = 2
  Catalogues <- MCCatalogues
  s1 = s1
  s2 = s2
  Saves = {s1, s2}
  Attempts = 2
  MaxOvertakes = 1
SYMMETRY Sym
INVARIANTS RegistryMatchesRouter
PROPERTIES AddressKept RetryHasAnAnswer
