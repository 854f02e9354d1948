SPECIFICATION BrowserSpec
CONSTANTS
  g1 = g1
  g2 = g2
  profile = profile
  home = home
  card = card
  pick = pick
  slide = slide
  Games = {g1, g2}
  Tabs = {profile, home}
  Profile <- MCProfile
  BatchSize = 1
  RecentLimit = 1
  ContinueLimit = 1
  Exports <- MCExports
  Kept <- MCKept
  MaxHydrations <- MCMaxHydrations
  MaxActs = 2
  MaxMishaps = 1
  MaxImports = 1
  Copies = {card, pick, slide}
  Readonly = {slide}
  Ratings = {1, 2}
  MaxVotes = 2
  MaxMoves = 5
  MaxKeys = 6
  Limit = 2
  MaxPage = 4
  Ids <- MCIds
  Editions <- MCEditions
  Initial <- MCInitial
  Genres = {"action", "rpg", "puzzle"}
  Curated <- MCCurated
  Fixed = {"about"}
  Respelt <- MCRespelt
  Matches = {1, 2}
  Played = {1}
  Streamed = {1, 2}
  Remarks = {1, 2, 3, 4, 5}
  Articles = {1, 2, 3}
  Headlines <- MCHeadlines
  Stock <- MCStock
  Typed <- MCTyped
  Bookmarks <- MCBookmarks
  MaxEdits = 1
  MaxLinks = 1
INVARIANTS RedirectsSettle NothingDead EveryGameListed DisplayTrue LastVoteShown FullscreenIsSaved
PROPERTIES OnlyAskedFor
CHECK_DEADLOCK FALSE
