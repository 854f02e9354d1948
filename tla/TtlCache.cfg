SPECIFICATION TtlSpec
CONSTANTS
  Keys = {genres, sitemap}
  Loads = {l1, l2, l3}
  Remembered = {genres}
  MaxVersion = 2
INVARIANTS TimersMatch
PROPERTIES IsReadThrough
