------------------------------- MODULE Pages -------------------------------
(***************************************************************************)
(* The site by its addresses: the redirects app.ts puts in front of the    *)
(* routes, the pages and listings of routes/home.ts, lists.ts, news.ts and *)
(* comments.ts, what a listing holds (Game.find and Game.count in          *)
(* models/game.ts), the links of the sitemap (routes/sitemap.ts), and a    *)
(* browser that goes where it is sent and stores the redirects it may.     *)
(* Games and news are edited between any two queries of a request.         *)
(*                                                                         *)
(* An address is an origin, a spelling, a path and a query.  A path of one *)
(* segment has no kind of its own: the routes are asked in their order.    *)
(***************************************************************************)
EXTENDS Paging, Sequences, FiniteSets, SequencesExt, TLC

CONSTANTS
  Ids,        \* the ids of games
  Editions,   \* Editions[g]: what the row of g may say
  Initial,    \* Initial[slug]: the bucket of the letter a slug begins with
  Genres,     \* the genre enum, as addresses spell it
  Curated,    \* Curated[slug]: the genre of a curated list, "" for all of them
  Fixed,      \* the pages that have a path and no listing
  Respelt,    \* Respelt[letter]: the bucket another spelling stands for
  Matches,    \* the games the search term finds
  Played,     \* the games somebody has played
  Streamed,   \* the games that can be
  Remarks,    \* the ids of comments
  Articles,   \* the ids of news articles
  Headlines,  \* Headlines[n]: the slugs the article n may take
  Stock,      \* the catalogues a behaviour starts from
  Typed,      \* addresses that are typed, or found elsewhere
  Bookmarks,  \* those that are gone back to
  MaxEdits,   \* bound: saves and deletions
  MaxLinks    \* bound: links and bookmarks followed

(* no listing is longer than the pages that an address can name *)
ASSUME PagesConstants ==
  \A all \in {Ids, Articles, Remarks} :
    /\ all \subseteq Nat /\ IsFiniteSet(all)
    /\ Cardinality(all) <= Limit * MaxPage

VARIABLES
  shelf,      \* the "games" rows
  past,       \* "game_slugs": the slugs each game has had
  headline,   \* the live slug of each article, "" before and after its time
  headlinePast, \* "news_slugs": the slugs each article has had
  at,         \* the address bar
  step,       \* "start", "ask", "history", "id", "rows" or "done"
  reply,      \* what came back: "page", "missing" or "refused"
  counted,    \* the count the listing was judged by
  kept,       \* redirects the browser has stored
  hops,       \* redirects in a row, no edit between them
  linked,     \* did the site name the address?
  quiet,      \* has nothing been edited since it did?
  walk,       \* what was on the pages of a listing, walked from its first
  edits, links

library == <<shelf, past, headline, headlinePast, edits>>
pageVars == <<shelf, past, headline, headlinePast, at, step, reply, counted, kept, hops, linked, quiet,
              walk, edits, links>>

----------------------------------------------------------------------------
(* Addresses *)

NoQuery == [genre |-> "", search |-> "none", by |-> "", dir |-> "", page |-> NoPage]
Path(kind, name) == [kind |-> kind, name |-> name, n |-> 0]
Home == Path("front", "")
One(name) == Path("one", name)
PlayerFile == Path("file", "js-dos.html")
Documents == {"favicon.ico", "sitemap.xml", "sitemap-index.xml"}
Own == {"most-played", "random"}
Link(path, query) ==
  [host |-> "site", https |-> TRUE, slash |-> FALSE, caps |-> FALSE,
   path |-> path, query |-> query]

(* page 1 is the bare address *)
PageUrl(path, page) == Link(path, [NoQuery EXCEPT !.page = IF page = 1 THEN NoPage ELSE page])

(* A search is blank, a term, a term whose key came escaped, or too long.  *)
HasSearch(q) == q.search # "none"
Searches(q) == q.search \in {"term", "escaped"}
HasListingParam(q) == HasSearch(q) \/ q.by # "" \/ q.dir # ""

WithoutSearch_KeysAsTheyCame(q) ==
  IF q.search = "escaped" THEN q ELSE [q EXCEPT !.search = "none"]

(* rawQueryWithout compares the keys decoded *)
WithoutSearch(q) == [q EXCEPT !.search = "none"]
WithoutListingParams(q) == [q EXCEPT !.search = "none", !.by = "", !.dir = ""]

RefusedOrdering(q) ==
  \/ q.by \notin {"", "createdAt", "release", "title", "rating"}
  \/ q.dir \notin {"", "ASC", "DESC"}

(* the comments past their first page say so themselves *)
IsNoindex(a) ==
  \/ Searches(a.query) \/ a.query.by # "" \/ a.query.dir # ""
  \/ a.path.kind = "comments" /\ ParsePage(a.query.page) > 1

(* an address has its parts, whatever they say *)
IsAddress(a) ==
  /\ a = [host |-> a.host, https |-> a.https, slash |-> a.slash, caps |-> a.caps,
          path |-> a.path, query |-> a.query]
  /\ a.https \in BOOLEAN /\ a.slash \in BOOLEAN /\ a.caps \in BOOLEAN
  /\ a.path = [kind |-> a.path.kind, name |-> a.path.name, n |-> a.path.n]
  /\ a.query = [genre |-> a.query.genre, search |-> a.query.search, by |-> a.query.by,
                dir |-> a.query.dir, page |-> a.query.page]

ASSUME AddressAssumption ==
  \A a \in Typed \cup Bookmarks : IsAddress(a) /\ a.query.page \in Int

(* The pages with a path of their own are different pages, and no spelling *)
(* of a letter stands for another spelling.                                *)
ASSUME RoutesAssumption ==
  /\ Documents \cap (Fixed \cup DOMAIN Curated) = {}
  /\ Own \cap (Fixed \cup DOMAIN Curated) = {}
  /\ Fixed \cap DOMAIN Curated = {}
  /\ Genres \cap (Documents \cup Own \cup Fixed \cup DOMAIN Curated) = {}
  /\ \A l \in DOMAIN Respelt : Respelt[l] \notin DOMAIN Respelt

----------------------------------------------------------------------------
(* The catalogue *)

NoRow == [slug |-> ""]

(* RESERVED_ROOT_PATHS: a game's slug is none of them *)
Reserved == Documents \cup Own \cup Fixed \cup DOMAIN Curated

(* what validateGame, uniqueSlug and the columns see to; the rating is a rank *)
Filed(row) ==
  /\ row.slug \notin Reserved /\ Initial[row.slug] \notin DOMAIN Respelt
  /\ row.genre \in Genres
  /\ row.title \in Int /\ row.rating \in Int /\ row.released \in Int

ASSUME CatalogueAssumption ==
  /\ \A s \in Stock : /\ DOMAIN s.shelf = Ids
                      /\ \A g \in Ids : s.shelf[g] # NoRow => Filed(s.shelf[g])
  /\ \A g \in Ids : \A row \in Editions[g] : Filed(row)

Rows(games) == {g \in Ids : games[g] # NoRow}
FindBySlug(slug) == {g \in Rows(shelf) : shelf[g].slug = slug}
FindCurrentSlug(slug) == {g \in Rows(shelf) : slug \in past[g]}
Told == {n \in Articles : headline[n] # ""}

(* a game without a publisher is credited to its developer *)
Filtered(path, query) == {g \in Rows(shelf) :
  LET r == shelf[g] IN
  CASE path.kind = "front"     -> Searches(query) => g \in Matches
    [] path.kind = "one"       -> r.genre = path.name
    [] path.kind = "letter"    -> Initial[r.slug] = path.name
    [] path.kind = "developer" -> r.developer = path.name
    [] path.kind = "year"      -> r.year = path.name
    [] path.kind = "publisher" ->
         r.publisher = path.name \/ (r.developer = path.name /\ r.publisher = "")}

Listed(path, query) ==
  CASE path.kind = "news"     -> Told
    [] path.kind = "comments" -> Remarks
    [] OTHER                  -> Filtered(path, query)

ByTitle(path) == path.kind \in {"letter", "developer", "publisher", "year"}

OrderBy(path, query) ==
  IF query.by # "" THEN query.by
  ELSE IF Searches(query) THEN "relevance"
  ELSE IF ByTitle(path) THEN "title"
  ELSE IF path.kind \in {"news", "comments"} THEN "createdAt" ELSE "rating"
Ascending(path, query) ==
  /\ OrderBy(path, query) # "relevance"
  /\ query.dir = IF ByTitle(path) /\ query.dir = "" THEN "" ELSE "ASC"

(* undated games come last, whichever way *)
Key(by, undated, i) ==
  CASE by \in {"title", "relevance"} -> shelf[i].title
    [] by = "rating"    -> shelf[i].rating
    [] by = "release"   -> IF shelf[i].year = "" THEN undated ELSE shelf[i].released
    [] by = "createdAt" -> i

(* the order of a listing: ties go by id *)
Comes(path, query, g, h) ==
  LET up     == Ascending(path, query)
      key(i) == Key(OrderBy(path, query), IF up THEN 9999 ELSE 0, i)
      Less(i, j) == key(i) < key(j) \/ (key(i) = key(j) /\ i < j)
  IN  IF up THEN Less(g, h) ELSE Less(h, g)

(* the row of a listing that so many others come before *)
After(path, query, g) == Cardinality({h \in Listed(path, query) : Comes(path, query, h, g)})
RowAfter(path, query, n) == CHOOSE g \in Listed(path, query) : After(path, query, g) = n

(* Game.count, News.findAll's count and Comment.countSitewide *)
Count(path, query) == Cardinality(Listed(path, query))

(* Game.find; News.findAll and Comment.findRecent, the newest first *)
Find(path, query) ==
  LET before == Offset(ParsePage(query.page))
      rest   == Count(path, query) - before
  IN  [i \in 1..(IF rest < Limit THEN rest ELSE Limit) |-> RowAfter(path, query, before + i - 1)]

----------------------------------------------------------------------------
(* What the site names: the sitemap, the canonical address, the pager *)

(* getSitemapCounts: the groups a game is counted in, as paths *)
CountedIn(g) ==
  LET r == shelf[g]
      credit == IF r.publisher = "" THEN r.developer ELSE r.publisher
  IN  {Path("letter", Initial[r.slug]), One(r.genre)}
        \cup {Path("developer", d) : d \in {r.developer} \ {""}}
        \cup {Path("publisher", c) : c \in {credit} \ {""}}
        \cup {Path("year", y) : y \in {r.year} \ {""}}
SitemapCount(path) == Cardinality({g \in Rows(shelf) : path \in CountedIn(g)})

CountListGames(list) ==
  IF Curated[list] = "" THEN Cardinality(Rows(shelf)) ELSE SitemapCount(One(Curated[list]))

(* buildEntries *)
AllPages(path, total) == {PageUrl(path, p) : p \in 1..TotalPages(total)}
GroupPages ==
  UNION {AllPages(path, SitemapCount(path)) : path \in UNION {CountedIn(g) : g \in Rows(shelf)}}
Sitemap ==
  AllPages(Home, Cardinality(Rows(shelf)))
    \cup AllPages(Path("news", ""), Cardinality(Told))
    \cup {PageUrl(Path("comments", ""), 1)} \cup {PageUrl(One(f), 1) : f \in Fixed}
    \cup {PageUrl(One("most-played"), 1) : g \in Rows(shelf) \cap Played}
    \cup {PageUrl(One(l), 1) : l \in {l \in DOMAIN Curated : CountListGames(l) > 0}}
    \cup GroupPages
    \cup {PageUrl(One(shelf[g].slug), 1) : g \in Rows(shelf)}
    \cup {PageUrl(Path("article", headline[n]), 1) : n \in Told}

IsListing(path) ==
  \/ path.kind \in {"front", "letter", "developer", "publisher", "year", "news", "comments"}
  \/ path.kind = "one" /\ path.name \in Genres

Canonical(a) ==
  PageUrl(a.path, IF IsListing(a.path) THEN ParsePage(a.query.page) ELSE 1)

(* pageHref: every parameter it came with, the key no longer escaped *)
NextPageHref(a) ==
  [a EXCEPT !.query.page = ParsePage(@) + 1,
            !.query.search = IF Searches(a.query) THEN "term" ELSE @]

----------------------------------------------------------------------------
(* The visitor *)

Off == [on |-> FALSE, shown |-> <<>>]
Walk(a) == [on |-> ParsePage(a.query.page) = 1, shown |-> <<>>]

PagesInit ==
  /\ \E s \in Stock :
       shelf = s.shelf /\ past = s.past /\ headline = s.news /\ headlinePast = s.newsPast
  /\ at = Link(Home, NoQuery) /\ step = "start" /\ reply = "" /\ counted = 0
  /\ kept = << >> /\ hops = 0
  /\ linked = FALSE /\ quiet = TRUE /\ walk = Off
  /\ edits = 0 /\ links = 0

Goes(a, named) ==
  /\ at' = a /\ step' = "ask" /\ reply' = "" /\ counted' = 0 /\ hops' = 0
  /\ linked' = named
  /\ UNCHANGED <<kept, library>>

Type(a) ==
  /\ step = "start"
  /\ Goes(a, FALSE) /\ walk' = Walk(a) /\ quiet' = TRUE
  /\ UNCHANGED links

Bookmark(a) ==
  /\ step = "done" /\ links < MaxLinks
  /\ Goes(a, FALSE) /\ walk' = Walk(a) /\ quiet' = TRUE
  /\ links' = links + 1

FollowSitemap(a) ==
  /\ step = "done" /\ links < MaxLinks
  /\ Goes(a, TRUE) /\ walk' = Walk(a) /\ quiet' = TRUE
  /\ links' = links + 1

FollowCanonical ==
  /\ step = "done" /\ links < MaxLinks
  /\ reply = "page" /\ ~IsNoindex(at)
  /\ at.host = "site" /\ at.path.kind \notin {"gallery", "file"}
  /\ at.path.name \notin Documents
  /\ Goes(Canonical(at), TRUE) /\ walk' = Walk(Canonical(at))
  /\ links' = links + 1
  /\ UNCHANGED quiet

FollowNext ==
  /\ step = "done" /\ reply = "page" /\ IsListing(at.path)
  /\ HasNext(ParsePage(at.query.page), counted)
  /\ Goes(NextPageHref(at), TRUE)
  /\ UNCHANGED <<walk, quiet, links>>

----------------------------------------------------------------------------
(* Answers *)

Answers(what) ==
  /\ reply' = what /\ step' = "done"
  /\ UNCHANGED <<at, counted, kept, hops, linked, quiet, walk, links, library>>

Turns(next) ==
  /\ step' = next
  /\ UNCHANGED <<at, reply, counted, kept, hops, linked, quiet, walk, links, library>>

(* an address as the site writes its own *)
Plain(a) == a = Link(a.path, a.query)

(* A redirect; a listing's walk starts where it leads.  Links and bookmarks *)
(* are plain, so that no other address is asked for a second time.          *)
Redirects(a, stored) ==
  /\ at' = a /\ step' = "ask" /\ hops' = hops + 1 /\ walk' = Walk(a)
  /\ kept' = IF stored /\ Plain(at)
             THEN [b \in DOMAIN kept \cup {at} |-> IF b = at THEN a ELSE kept[b]] ELSE kept
  /\ UNCHANGED <<reply, counted, linked, quiet, links, library>>

(* Cache-Control: private, no-cache is on every answer below the static    *)
(* files, the redirects of the routes with it.                             *)
Storable == FALSE

Recall ==
  /\ step = "ask" /\ at \in DOMAIN kept
  /\ Redirects(kept[at], FALSE)

Unstored == step = "ask" /\ at \notin DOMAIN kept

(* one origin, one spelling: the host, https, the slash at the end, the    *)
(* capitals of the first segment                                           *)
Elsewhere == at.host = "elsewhere"
Bare == ~Elsewhere /\ at.https /\ ~(at.slash /\ at.path # Home)

CanonicalHost ==
  /\ Unstored /\ Elsewhere
  /\ Redirects([at EXCEPT !.host = "site", !.https = TRUE], TRUE)
Https ==
  /\ Unstored /\ ~Elsewhere /\ ~at.https
  /\ Redirects([at EXCEPT !.https = TRUE], TRUE)
TrailingSlash ==
  /\ Unstored /\ ~Elsewhere /\ at.https /\ at.slash /\ at.path # Home
  /\ Redirects([at EXCEPT !.slash = FALSE], TRUE)
PlayerHost ==
  /\ Unstored /\ Bare /\ at.host = "player"
  /\ Answers(IF at.path = PlayerFile THEN "page" ELSE "missing")
LowerCase ==
  /\ Unstored /\ Bare /\ at.host = "site" /\ at.caps
  /\ Redirects([at EXCEPT !.caps = FALSE], TRUE)

Routed == Unstored /\ Bare /\ at.host = "site" /\ ~at.caps
At(kind) == Routed /\ at.path.kind = kind
SentTo(path, query) == Redirects(Link(path, query), Storable)

----------------------------------------------------------------------------
(* The pages that are not listings *)

(* a static file, the player's page among them *)
StaticFile == At("file") /\ Answers("page")

(* the icon and the sitemap under the names that crawlers guess *)
Favicon ==
  /\ At("one") /\ at.path.name = "favicon.ico"
  /\ Redirects(Link(Path("file", "favicon.png"), NoQuery), TRUE)
SitemapXml ==
  /\ At("one") /\ at.path.name = "sitemap.xml"
  /\ Redirects(Link(One("sitemap-index.xml"), NoQuery), TRUE)
SitemapIndex == At("one") /\ at.path.name = "sitemap-index.xml" /\ Answers("page")

(* redirectUnreadListingParams *)
FixedPage ==
  /\ At("one") /\ at.path.name \in Fixed
  /\ IF HasListingParam(at.query) THEN SentTo(at.path, WithoutListingParams(at.query))
     ELSE Answers("page")

(* a ranking on one page: no search, no sort, no page, and not empty *)
Ranking(games) ==
  IF HasListingParam(at.query) \/ at.query.page # NoPage
  THEN SentTo(at.path, [WithoutListingParams(at.query) EXCEPT !.page = NoPage])
  ELSE Answers(IF games = {} THEN "missing" ELSE "page")

MostPlayed ==
  /\ At("one") /\ at.path.name = "most-played"
  /\ Ranking(Rows(shelf) \cap Played)

(* GET /:slug of routes/lists.ts *)
CuratedList ==
  /\ At("one") /\ at.path.name \in DOMAIN Curated
  /\ LET genre == Curated[at.path.name] IN
     Ranking({g \in Rows(shelf) : genre = "" \/ shelf[g].genre = genre})

(* findRandom: the draw, and the game fetched by its id, as one *)
Random ==
  /\ At("one") /\ at.path.name = "random"
  /\ LET games == Rows(shelf) \cap Streamed IN
     \/ \E g \in games : SentTo(One(shelf[g].slug), NoQuery)
     \/ games = {} /\ Answers("missing")

(* GET /:id: the live slug, then the history, then the id *)
Elsewise ==
  At("one") /\ at.path.name \notin Reserved

GamePage ==
  /\ Elsewise /\ (at.path.name \in Genres => Count(at.path, NoQuery) = 0)
  /\ IF FindBySlug(at.path.name) = {} THEN Turns("history")
     ELSE IF HasListingParam(at.query) THEN SentTo(at.path, WithoutListingParams(at.query))
     ELSE Answers("page")

Gallery ==
  /\ At("gallery")
  /\ LET live == FindBySlug(at.path.name) IN
     IF live = {} THEN Turns("history")
     ELSE Answers(IF \E g \in live : at.path.n < shelf[g].pictures THEN "page" ELSE "missing")

ReadHistory ==
  /\ step = "history" /\ at.path.kind # "article"
  /\ LET held == FindCurrentSlug(at.path.name) IN
     \/ held # {} /\ \E g \in held : SentTo([at.path EXCEPT !.name = shelf[g].slug], NoQuery)
     \/ held = {} /\ at.path.kind = "one" /\ Turns("id")
     \/ held = {} /\ at.path.kind = "gallery" /\ Answers("missing")

ReadId ==
  /\ step = "id"
  /\ LET byId == {g \in Rows(shelf) : ToString(g) = at.path.name} IN
     \/ \E g \in byId : SentTo(One(shelf[g].slug), NoQuery)
     \/ byId = {} /\ Answers("missing")

Article ==
  /\ At("article")
  /\ IF \A n \in Told : headline[n] # at.path.name THEN Turns("history")
     ELSE IF HasListingParam(at.query) THEN SentTo(at.path, WithoutListingParams(at.query))
     ELSE Answers("page")

(* an article taken back keeps its slugs and answers at none of them *)
ReadNewsHistory ==
  /\ step = "history" /\ at.path.kind = "article"
  /\ LET held == {n \in Told : at.path.name \in headlinePast[n]} IN
     \/ \E n \in held : SentTo(Path("article", headline[n]), NoQuery)
     \/ held = {} /\ Answers("missing")

----------------------------------------------------------------------------
(* The listings *)

ReadsRows ==
  /\ counted' = Count(at.path, at.query) /\ step' = "rows"
  /\ UNCHANGED <<at, reply, kept, hops, linked, quiet, walk, links, library>>

Beyond == IsPageBeyondTotal(ParsePage(at.query.page), Count(at.path, at.query))

(* GET /: a genre is a page of its own, and takes the search with it *)
HomePage ==
  /\ At("front")
  /\ IF at.query.genre # ""
     THEN SentTo(One(at.query.genre), [WithoutSearch(at.query) EXCEPT !.genre = ""])
     ELSE IF at.query.search = "long" \/ RefusedOrdering(at.query) THEN Answers("refused")
     ELSE IF Beyond THEN Answers("missing")
     ELSE ReadsRows

(* the count, the search it cannot make, the order, the page *)
Judged ==
  LET query == WithoutSearch(at.query) IN
  IF Count(at.path, query) = 0 THEN Answers("missing")
  ELSE IF HasSearch(at.query) THEN SentTo(at.path, query)
  ELSE IF RefusedOrdering(query) THEN Answers("refused")
  ELSE IF Beyond THEN Answers("missing")
  ELSE ReadsRows

GenrePage == Elsewise /\ at.path.name \in Genres /\ Count(at.path, NoQuery) > 0 /\ Judged
LetterPage == At("letter") /\ at.path.name \notin DOMAIN Respelt /\ Judged
DeveloperPage == At("developer") /\ Judged
PublisherPage == At("publisher") /\ Judged
YearPage == At("year") /\ Judged

RespeltLetter ==
  /\ At("letter") /\ at.path.name \in DOMAIN Respelt
  /\ SentTo(Path("letter", Respelt[at.path.name]), at.query)

(* they page, and that is all *)
Archive ==
  IF HasListingParam(at.query) THEN SentTo(at.path, WithoutListingParams(at.query))
  ELSE IF Beyond THEN Answers("missing")
  ELSE ReadsRows

NewsIndex == At("news") /\ Archive
CommentsOverview == At("comments") /\ Archive

(* the rows come after the count: an empty genre, letter or later page of  *)
(* the catalogue or the news is missing after all                          *)
ShowRows ==
  LET rows == Find(at.path, at.query)
      gone == \/ at.path.kind \in {"one", "letter"}
              \/ at.path.kind \in {"front", "news"} /\ ParsePage(at.query.page) > 1
  IN
  /\ step = "rows" /\ step' = "done"
  /\ reply' = IF rows = <<>> /\ gone THEN "missing" ELSE "page"
  /\ walk' = [walk EXCEPT !.shown = @ \o rows]
  /\ UNCHANGED <<at, counted, kept, hops, linked, quiet, links, library>>

----------------------------------------------------------------------------
(* The administrators *)

Edited == /\ edits < MaxEdits /\ edits' = edits + 1
          /\ quiet' = FALSE /\ hops' = 0
          /\ UNCHANGED <<at, step, reply, counted, kept, linked, walk, links>>

(* a save: no slug that another game has had *)
Save(g, row) ==
  /\ row # shelf[g] /\ \A h \in Ids \ {g} : row.slug \notin past[h]
  /\ shelf' = [shelf EXCEPT ![g] = row]
  /\ past' = [past EXCEPT ![g] = @ \cup {row.slug}]
  /\ Edited /\ UNCHANGED <<headline, headlinePast>>

Withdraw(g) ==
  /\ shelf[g] # NoRow
  /\ shelf' = [shelf EXCEPT ![g] = NoRow]
  /\ past' = [past EXCEPT ![g] = {}]
  /\ Edited /\ UNCHANGED <<headline, headlinePast>>

Announce(n, slug) ==
  /\ slug # headline[n] /\ (headline[n] = "" => headlinePast[n] = {})
  /\ \A m \in Articles \ {n} : slug \notin headlinePast[m]
  /\ headline' = [headline EXCEPT ![n] = slug]
  /\ headlinePast' = [headlinePast EXCEPT ![n] = @ \cup {slug}]
  /\ Edited /\ UNCHANGED <<shelf, past>>

(* a soft delete: the row keeps its slugs *)
Retract(n) ==
  /\ headline[n] # ""
  /\ headline' = [headline EXCEPT ![n] = ""]
  /\ Edited /\ UNCHANGED <<shelf, past, headlinePast>>

PagesNext ==
  \/ \E a \in Typed : Type(a)
  \/ \E a \in Bookmarks : Bookmark(a)
  \/ \E a \in Sitemap : FollowSitemap(a)
  \/ FollowCanonical \/ FollowNext \/ Recall
  \/ CanonicalHost \/ Https \/ TrailingSlash \/ PlayerHost \/ LowerCase
  \/ StaticFile \/ Favicon \/ SitemapXml \/ SitemapIndex \/ FixedPage
  \/ MostPlayed \/ CuratedList \/ Random
  \/ GamePage \/ Gallery \/ ReadHistory \/ ReadId \/ Article \/ ReadNewsHistory
  \/ HomePage \/ GenrePage \/ LetterPage \/ DeveloperPage \/ PublisherPage \/ YearPage
  \/ RespeltLetter \/ NewsIndex \/ CommentsOverview \/ ShowRows
  \/ \E g \in Ids : Withdraw(g) \/ \E row \in Editions[g] : Save(g, row)
  \/ \E n \in Articles : Retract(n) \/ \E slug \in Headlines[n] : Announce(n, slug)

----------------------------------------------------------------------------
(* However an address is spelt, the redirects of the two layers lead to an *)
(* answer: never round in a circle, whatever was renamed, there and back,  *)
(* between two requests or between two queries of one (app.ts and          *)
(* routes/home.ts argue it redirect by redirect).  The longest chain is    *)
(* http, slash, capitals, the letter's spelling and the search.            *)
LongestChain == 5
RedirectsSettle == hops <= LongestChain

(* An address the site names itself, in the sitemap, as the canonical of a *)
(* page or as the next page of a listing, opens a page at once: no 404, no *)
(* 400, no redirect (utils/pagination.ts, routes/sitemap.ts).              *)
NothingDead ==
  linked /\ quiet /\ step = "done" => reply = "page" /\ hops = 0

(* Walking a listing from its first page by the pager shows every game,    *)
(* article or comment of it once, in any order a visitor may choose        *)
(* (Game.find and Game.count, News.findAll, Comment.findRecent).           *)
EveryGameListed ==
  LET all == Listed(at.path, at.query) IN
  /\ step = "done" /\ reply = "page" /\ quiet /\ walk.on /\ IsListing(at.path)
  /\ ~HasNext(ParsePage(at.query.page), counted)
  => Len(walk.shown) = Cardinality(all) /\ ToSet(walk.shown) = all
=============================================================================
