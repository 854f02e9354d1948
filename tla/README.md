# Formal models of Old School Games

TLA+ models of the parts of the site where the order of events matters, with
the TLC configurations that check them and proofs that TLAPS checks. The site
is an Express application in TypeScript over Postgres; several copies of the
process serve it at once, each with its own in-memory caches.

To check a run: `tlc -config CacheEpoch.cfg MCCacheEpoch`. To check the proofs
of a module: `tlapm CacheEpochProofs.tla`.

## 1. Inventory

| Part of the system | State it keeps | Operations | What is hard | What makes it correct |
|---|---|---|---|---|
| Cache epochs (`utils/cache-epoch.ts`) | a counter per scope in the table `cache_epochs`; per process the last number seen, one read in flight, one pending retry per scope | bump after a write, retry a failed bump, sync before a request | bumps, reads and retries of several machines interleave; answers come late, not at all or after the statement ran | no machine serves what a write it has been told of made stale; no write is forgotten; everything converges |
| Read-through caches (`utils/cache.ts`, `sidebar-cache.ts`, `page-cache.ts`, `middlewares/sidebar-data.ts`) | a map of entries, a timer per settled entry | get, delete, clear, clearAllCaches | a load goes on after its entry was dropped, and another load of the same key may have started | timers and entries match; an answer is never older than its query |
| Password hashing (`utils/password.ts`) | a count of running derivations, a queue | derive (acquire, release) | handing a place on, the priority lane, the queue's limit | no place lost or forged, nobody waits beside a free place, everybody queued is served |
| Shutdown (`utils/shutdown.ts`, `index.ts`) | five flags, two timers, the exit code | signal, crash, sweep, callbacks, forced exit | any of them in any order, more than once | a clean exit means a full drain; a crash is reported; the process leaves |
| Migrations (`utils/migrations.ts`, `migrate.ts`) | the table `migrations`, an advisory lock, the schema | acquire the lock, plan, apply, record, retry | racing releases of different builds, deaths between a statement and its row, INVALID indexes | one at a time, each once, in order, recorded only if true |
| Slugs and addresses (`utils/slug.ts`, `models/game.ts`, migrations 0021, 0054, 0060 to 0065) | live slugs, their history, a registry of numeric addresses | create, rename, delete, GET /:id | a slug is chosen by several reads and written later; ids and slugs share one space of addresses | an address keeps opening the game it opened |
| Game of the week (`models/game-of-the-week.ts`) | a row per week | getOrSelectCurrent | two machines find the week over at once | one selection per week |
| Sessions and sign-in (`utils/session-*.ts`, `routes/auth.ts`, `middlewares/is-admin.ts`, `models/user.ts`) | session rows, cookies, a credential stamp | sign in, sign out, change of password, touch | requests in flight while a session ends | an ended session stays ended |
| CSRF tokens (`middlewares/csrf.ts`) | a secret per browser in a cookie | issue, mask, validate, rotate at sign-in | forms rendered before a rotation | a form the site rendered is accepted, no other |
| Rate limits (`utils/rate-limit-store.ts`) | a row per key with a window | increment, decrement, reset, prune | a refund that comes after its window | no window counts less than was used in it |
| Ratings (`models/game.ts`, migration 0042) | a row per vote, totals per game by trigger | rate, prune | concurrent votes of one voter, votes against the prune | totals are the sums of the rows |
| Comments (`models/comment.ts`, `routes/comments.ts`) | rows with parents | create, delete with replies, delete by source, pages by cursor | deletions between two pages | a page neither repeats nor loses a comment |
| Catalogue pages, news, sitemap (`routes/home.ts`, `lists.ts`, `news.ts`, `comments.ts`, `sitemap.ts`, `models/game.ts`, `utils/pagination.ts`) | rows; the redirects a browser has stored | GET of every address, listings with filters, orders and pages | two layers of redirects, several queries per request, edits in between | every chain of redirects ends; what the site links to opens; paging shows everything once |
| Application wiring (`app.ts`) | none | host, scheme, slash, capitals, player host | the order of the redirects | as above |
| Browser: favourites and recently played (`public/js/favorites.js`) | two lists in localStorage, shared by tabs | toggle, fetch in batches, hydrate, prune, import | answers that come after the list has changed, several tabs | no favourite lost or brought back; a tab shows what is stored |
| Browser: rating stars (`public/js/rating-stars.js`) | a vote per game, copies of its stars | connect, disconnect, fetch the stored vote, vote | the stored vote arrives after a newer one | every copy shows the last vote |
| Browser: the player (`game-player.js`, `js-dos-player.js`) | fullscreen in two documents | keys, buttons, messages both ways | messages that cross | what was changed in fullscreen is saved when it ends |
| Admin forms, feeds, other widgets, logging and CSP reports, text helpers, media backup | little or none | field checks, presentation, formatting | no | unit tests |

How they interact: a model's write (game, news, comment) drops the keys of its
own process and then bumps a scope of the cache epochs. A request first passes
`cacheEpochSync`, which may read the epochs and drop caches, then reads through
the caches. Sign-in goes through the rate limits and then through the gate of
password hashing. A release runs the migrations before any new machine starts,
while the old ones still serve. Shutdown ends the pool, which makes bumps give
up and the session store's timer fail if it were still armed.

## 2. Plan

In the order the modules were written:

1. `Invalidation` (what caches promise), `CacheEpoch` (how), `CacheEpochProofs`.
2. `EpochCheck`: the timing of the reads that `CacheEpoch` lets happen any time.
3. `ReadThrough` and `TtlCache`: the cell that `CacheEpoch` uses, and the map
   with its timers that implements it.
4. `PasswordGate`.
5. `Shutdown`; `ProcessProofs` is about both, about `TtlCache` and about
   `EpochCheck` (the parts a process has to itself).
6. `Migrations`, `MigrationsProofs`.
7. `Addresses`, `AddressesProofs`.
8. `Comments` (tables and queries) and `CommentPage` (a reader's page);
   `CommentPageProofs`.
9. `Votes` (transactions and row locks), extended by `GameOfTheWeek`, which
   runs on the same tables and locks; `GameOfTheWeekProofs`.
10. `Sessions` (the table and the account) and `SignIn` (browsers, CSRF, the
    limiter); `SignInProofs`.
11. `Paging` and `Pages` (the site by its addresses), `Favourites`,
    `RatingStars`, `Player`, and `Browser`, which composes the four; `BrowserProofs`.

Abstract specifications: the promise of the caches (`Invalidation`) and the
read-through cell (`ReadThrough`).

What would come next: the admin forms in front of `Addresses`; the `/profile`
page's server side; the search.

## 3. Modules and the code

Everything between two awaits of one process is one action; a database
statement, with its triggers, is one action too, and where the code awaits its
answer the sending, the running and the arrival are told apart whenever another
actor could come in between. `map` in `PROJECT.json` gives the lines of each
definition. Definitions named `X_Something` next to `X` are plausible slips of
the code, used to see that each property can fail.

**`CacheEpoch`** has one `stage` per write (committed, caches dropped, bump out,
failed, done), the table `epoch`, and per machine `lastSeen`, one `check`, one
`pending` retry per scope, the `cache` and `ending` (the pool was told to end).
`ClearAndBump` is `clearGameCaches` and its siblings followed by the send of the
upsert; `RunBump` the upsert; `BumpLands`, `BumpFails` and `BumpBreaks` the
three ways `tryBump` ends; `RetryFires` to `RetryBreaks` the same for
`runRetry`; `RunCheck`, `CheckLands` and `CheckFails` a read of
`syncCacheEpoch`. A write whose own answer is lost (the model then neither
clears nor bumps) is left out (see 7). History variables: `bumpedAt`, `gaveUp`.

**`Invalidation`** is the promise: a machine learns of writes and from then on
holds no answer they made stale. `ImplementsPromise` maps `written` to the
committed writes, `told` to `Told(m)` and `cell` to the caches.

**`EpochCheck`** has ages instead of times: `age` is `Date.now() - lastChecked`.
Ages stop growing where the code can no longer tell them apart, so the clock
needs no horizon. A request waits for the check that is out or passes.

**`TtlCache`** knows an entry by the load that fills it, as the code does by the
entry's identity. `Resolve`, `Reject` and `Expire` are the promise's and the
timer's callbacks, `Dropped` is `delete` and `clear`. `ReadThrough` is the cell
it implements.

**`PasswordGate`** has the counter `running`, the queue `waiting` and the state
of each attempt. `TakePlace`, `JumpQueue`, `JoinQueue` and `Refuse` are the
outcomes of `acquire` up to its await, `Release` is `release`.

**`Shutdown`** has the flags of the closure `createShutdown` under their own
names, and the server, connections, pool and session store as the code uses
them. The clock counts sweeps and stops at the deadline.

**`Migrations`** has the table (`row`), how often each file's effect was
committed (`times`), the INVALID leftovers, the lock, and for each run its phase
and plan. A failure may strike any query; a death any moment.

**`Addresses`** has the tables `games`, `game_slugs` (`history`) and
`game_numeric_addresses` (`address`), the id sequence, and up to as many saves
in progress as there are names in `Saves`. A slug is a word and the numbers
behind it; titles are tokens and `Base` is `slugify` on them. A save reads the
row, the history and maybe the ids, then `Create` or `Update` writes with all
triggers, or `Collide` starts over. `Answerer` is the order of `GET /:id`.

**`Comments`** has the rows of one game (`rows`: id to parent) and the id
sequence, the queries of `models/comment.ts` as sets (newest roots before a
cursor, the window of a thread, what a link leads to), `Insert` with the
parent's row locked, and removal by an admin (with its cascade) and by source.
**`CommentPage`** is `comments.js` on such a page: which comments are on it, in
which thread, the cursors on its two kinds of buttons, the form, and the
requests that are out. A request is answered from one snapshot (`answers`) and
its answer lands later, in any order, or never.

**`Votes`** is about row locks. A connection has the locks it holds and the
`plan` of those it still has to take; a statement takes them one at a time, is
done when the plan is empty, and may be cancelled while it waits (by the
statement timeout, or by Postgres breaking a deadlock). `LockOrder` is the order
`Game.rate` takes care of; `Synced` is the trigger that keeps the totals.
**`GameOfTheWeek`** runs the weekly choice on the same connections: `LookUp`
found nothing and asks the pool for a client, `BeginPick` begins the transaction
when it comes, `PickLocks` has the advisory lock and looks once more on the wall
clock, then `PickSelects`, `PickInserts` (both dates are those of the
transaction's beginning) or `PickFails`. An admin takes a game's stream away and
puts it back (`Unhosted`, `Hosted`); the history variable `lapsed` has the picks
whose game has been without one since. The clock ticks a bounded time past the
look that began a choice.

**`Sessions`** has the table of sessions and one account whose passwords are
numbered; a session's credential is the number of the password it was opened
with, which stands for the stamp derived from the hash. **`SignIn`** has the
cookies of each browser (`jar`), the tokens on its open pages and up to two
requests of it under way; every await of a request is a point where others come
in between, and answers arrive in any order. The limiter has one row (`hits`)
that windows replace.

**`Paging`** is `utils/pagination.ts` and the `OFFSET` of `Game.find`.
**`Pages`** has the rows of games and articles with the slugs they have had, an
address bar, and the redirects the browser stored. An address is an origin, a
spelling (scheme, slash, capitals), a path and a query; `CanonicalHost`,
`Https`, `TrailingSlash`, `PlayerHost` and `LowerCase` are the redirects of
`app.ts` in their order, the rest the routes in theirs. A route with several
queries takes a step for each: `step` says which is next, and saves and
deletions come in between. `Find` and `Count` are `Game.find` and `Game.count`
with their filters, orders and ties: `RowAfter` is the row that so many others
come before, and a page is the rows after its `OFFSET`. `Sitemap` is the set of
addresses the sitemap names.

**`Favourites`** has the two lists in storage and, per tab, what it holds and
shows: hearts, the navbar's number, the lists that are drawn and the hydrations
under way with the batches that have answered. The lists that are ready go on in
one turn of the event loop, in any order that a fold over them may take.
`CollectionAssumption` describes the storage a behaviour starts with: lists that
this script has written. **`RatingStars`** has the copies
of one game's stars in one document, the promise of the stored vote, and the
vote that is out. **`Player`** has the fullscreen state of the page's document,
of the frame and of the browser, with the two queues of messages between them.
**`Browser`** puts the four behind one variable `script`: they share no state
their models keep, so a behaviour moves one of them.

## 4. Runs

| Run | Instance | Shows |
|---|---|---|
| `epoch_gap` | 2 machines, any two of three writes in one scope: two game writes of one machine, or one of them and a news write of the other (which drops other keys), 1 key, 2 retries | `Coherence`, `NoWriteForgotten` |
| `epoch_live` | 2 machines that may drain, die and start anew, 1 write, 2 retries | `Converges` under fairness; `ImplementsPromise` |
| `check_timing` | 3 requests, interval 5, backoff 2, timeout 2 | `FreshWhileAnswering`, `Recovers` |
| `cache_entries` | 2 keys, 3 loads, 2 writes, one key whose failures are remembered | `TimersMatch`; the cache implements `ReadThrough` |
| `gate_queue` | 4 ordinary attempts and 2 with priority, 2 places, a queue of 2 | `NoIdlePlace`, `ServedInOrder`, `QueuedAreServed` |
| `drain` | 3 connections, 2 pool clients, a deadline of 3 sweeps | `CleanMeansDrained`, `CrashReported`, `IdleSwept`, `Leaves` |
| `migrate_race` | 4 builds, 3 kinds of file, 4 initial databases, 2 passes | `OneAtATime`, `RowsMeanSchema`, `OnceEach`, `DoneMeansCurrent`, `RecordedInOrder` |
| `addresses` | 2 requests, 2 games, titles reserved, suffixed and numeric, empty and grandfathered catalogue | `AddressKept`, `RegistryMatchesRouter`, `RetryHasAnAnswer` |
| `comment_page` | up to 5 comments, three of them there from the start in one thread with a nested reply, one to a page and one to a window, 2 requests besides the first, 1 removal | `NothingUnreachable`, `PlacedRight`, `ProgressKept` |
| `votes` | 2 games, 2 voters, 3 connections, 4 statements, batches of 2; a week of 2 ticks | `TotalsExact`, `VotesNeverDeadlock`, `OneGameAWeek` |
| `sign_in` | 1 browser with 2 requests at a time, 2 sign-ins, 3 other requests, 1 reset, a limit of 1 | `EndedStaysEnded`, `ResetHolds`, `LoginKept`, `GuessesBounded` |
| `browser` | 4 games, 3 articles, 5 comments, two to a page, every route with every kind of query; 2 tabs and 2 favourites; 3 copies of stars and 2 votes; 6 keys | `RedirectsSettle`, `NothingDead`, `EveryGameListed`, `DisplayTrue`, `OnlyAskedFor`, `LastVoteShown`, `FullscreenIsSaved` |

### Bounds

Why these instances are enough to meet the cases: a gap between two bumps needs
two machines and a write of each; one key is enough because keys do not
interact. A bump that fails while the retry of another waits or is out needs two
writes of one machine in one scope, and with two retries the coalesced one can
fail and go on before the last failure gives up. `epoch_gap` has both pairs: its
behaviours commit any two of three writes (`AnyTwo` of `MCCacheEpoch`), and a
failed retry is tried again only in those of the second pair (`SecondTries`). The
two writes of the first machine are alike, a symmetry, and the run has no
temporal property. Its processes do not end; those of `epoch_live` do, with one
write, and the proofs have both at once. Three requests let one start a check,
one join it and one come after its timeout. Three loads of two keys let a dropped load end after its key has been
filled again. Six attempts for two places overflow the queue of two with both
lanes waiting. Three connections can be busy, idle and closed at once. Four
builds cover a release, its successor, a branch and a broken one.

The bounds that are part of a module: `MaxVersion` (writes in `TtlCache`),
`MaxRetries` and `Attempts` (constants of the code, made smaller), `MaxId` (the
ids the sequence reaches in `Addresses`), `Writes`, `Loads`, `Runs`, `Saves` and
`Attempts` of `PasswordGate` (identities).

`MaxOvertakes` in `Addresses` is an assumption on the surroundings: how many
other saves land between one save's reads and its write. With one, every address
is kept; with two it is not (see 6). No unique key separates the two cases in
the database, so the bound is where the code's guarantee ends.

`comment_page`: with pages and windows of one, three comments of a thread are
already three pages, so that a window that does not overlap the one on the page
exists; two requests can cross. `MaxId`, `MaxAsked` and `MaxRemovals` end it.
`votes`: three connections are the fewest for a vote, a deletion and a sweep at
once, or for two choices and a vote; `MaxStarts` bounds the statements and
`Horizon` the clock. A week is two ticks and a transaction at most one: all the
argument needs is `2 * Patience <= Week` (`WeekAssumption`), of which a week and
a statement timeout of seconds are a generous instance. `sign_in`: two requests
at once are enough for one to overtake the other and three would only repeat
that; `MaxSids`, `MaxLogins`, `MaxPages` and `MaxResets` end it, and the proofs
need none of them. `browser`: one edit and one followed link per behaviour, a
chain of redirects is counted from the last edit (`LongestChain`); two to a page
stands for the site's 25, 10 and 30, since a listing of four, three, two and one
game then ends at, before and after a page's end. `BatchSize`, `RecentLimit` and
`ContinueLimit` of one make every list longer than its limit; `MaxHydrations`
bounds the lists a tab fetches at once. The remaining `Max`
constants (`MaxMishaps`, `MaxImports`, `MaxVotes`, `MaxMoves`, `MaxKeys`,
`MaxEdits`, `MaxLinks`) count what the visitor, the network or an editor does.

### Fairness

`CacheEpoch`: queries settle because the pool has a connection and a statement
timeout; timers fire; requests keep arriving, so checks keep starting; strong
fairness of `CheckLands` says the database does not fail every check for ever
(a check may fail between any two steps, so weak fairness would not do). A
drained process is gone in the end: that is `Leaves` of `Shutdown`. Nothing is
assumed of a bump but that it settles. `EpochCheck`: the same, and time passes.
`PasswordGate`: a derivation ends (scrypt is a computation). `Shutdown`: its two
timers fire and the flush is bounded by its own timeout; nothing is assumed of
clients and queries. The other modules check safety only.

## 5. Proofs

TLAPS checks these for every value of the constants that satisfies the
assumptions stated with them.

**`CacheEpochProofs`** (any machines, writes, keys, retries). `TypeCorrect` is
the type invariant. `Coherence` is not inductive: whether adopting the number of
one's own bump may skip a drop depends on who produced the numbers in between.
Two invariants say it. `EpochsBounded`: no number a process holds or is about to
receive is ahead of the table, so a new bump's number is new to everybody.
`OneBumper`: a number on its way to a process was produced by that process, so
when it exceeds the last one seen by exactly one, no other machine's write lies
at it. With both, `CoherenceCorrect` goes by the step: whatever adds a write to
`Told(m)` drops the keys it touched in the same step. `NoWriteForgottenCorrect`
follows the one pending retry of a scope (`Owed`, `Covers`): it is waiting, or
its query has not run yet, or it has been asked to go again.
`SeenNeverBackwardsCorrect` is an action property from the types alone.
`ImplementsPromiseCorrect` is the refinement of `Invalidation`: every step maps
to one machine learning (`LearnMaps`, by `Coherence` after the step), a load, a
write, a restart or a stutter.

**`ProcessProofs`**, the cache (any keys and loads; no bound on writes is used).
`HoldsItsOwn` ties the map, read by key, to the timers, kept by load: a key
holds a load that was started for it. From it `TimersMatchCorrect`, and the
refinement `IsReadThroughCorrect`: the query of a held load answers its key,
every other step drops something or shows nothing.

**`ProcessProofs`**, the password gate (any attempts, limits and priorities).
`PlacesCountedCorrect`, `NoIdlePlaceCorrect` and `ServedInOrderCorrect`. The
counter stays equal to the number of derivations when a place is handed on only
because the waiter was not running already, which is why the invariant also has
`QueueExact`: the queue holds each queued attempt exactly once. For the order of
service the invariant is about the queue itself (`InLine`): ordinary waiters
stand behind those with priority and in the order they came, so that whoever
`Release` takes from the front has nobody before it.

**`ProcessProofs`**, shutdown (any connections, clients and deadline).
`CleanMeansDrainedCorrect`, `CrashReportedCorrect`, `IdleSweptCorrect`. The
invariant orders the stages (`Stages`: signalled, listener closed, pool ended)
and says which code the way out was taken with (`WayOut`).

**`ProcessProofs`**, the check of the epochs (any requests, any interval, pause
and timeout that satisfy `TimesAssumption`: the two timeouts a request may be
behind fit into one interval, as two times 2 s do into 10 s). `FreshWhileAnsweringCorrect`
is an action property whose step looks harmless at the request that passes: what
it is let through with was decided when it joined the check. The invariant
`CheckInv` says so: whoever waits joined at most one timeout after the check began
(`WaitersRight`), because the request that began it would have given up by then
and taken the trust in checks with it (`BeganByWaiter`). A waiter is gone one
timeout after it joined, so the read it is released with is at most two old.
`AgesRight` says the same of requests that do not wait: the clock of the checks
is never younger than the knowledge, while it can still be told from old.

**`MigrationsProofs`** (any builds, files, rows to start from, number of runs).
`OneAtATimeCorrect`, `RowsMeanSchemaCorrect`, `OnceEachCorrect`,
`DoneMeansCurrentCorrect`, `RecordedInOrderCorrect`. The lock makes a plan
stable (`PlanHolds`: what is still to do is what is pending, and lies behind
everything recorded), and a lone statement that has run took effect or met an INVALID index (`RanOutside`), so
that the check for INVALID indexes before the row is inserted is enough. The
proof takes from the model that an operator drops an INVALID index only while no
run is at work (see 6).

**`SignInProofs`** (any browsers, requests, limits, sign-ins and resets).
`SignInTyped`, `EndedStaysEndedCorrect`, `ResetHoldsCorrect` and
`LoginKeptCorrect`. The invariant
adds two facts to the types. `Fresh`: an id that a request is about to store for
the first time was minted for it alone, and nothing has ended it. `Current`: the
password a request began under is no newer than the present one, and a request
that acts holds a credential at least as new as that. Late saves are harmless
since a save of a session that had a row only updates (`Set`), which is what keeps `ended`
and `Live` apart. `LoginKept` needs to know what the answers under way can carry
(`Whole`): an id only with a secret beside it, a secret alone only to a browser
that had none when it asked, and the id of a successful sign-in only after its
row. Whichever answer comes last then replaces both cookies or neither, or the
secret of a browser that was without one (`raced`).

**`SignInProofs`**, the limiter (any finite set of requests at once). `GuessesBoundedCorrect`.
The number of guesses alone says nothing of the sign-ins still on their way, so
the invariant adds them: a request that the present window has counted and that
has neither failed nor been given back (`Charged`) may still become a guess.
Guesses and charged requests together never pass the count of the row
(`WithinCount`). A request is let on only where the count is within the limit,
and later counts past it are refused, so the sum never passes the limit either
(`WithinLimit`). Each hit given back for an earlier window loosens both by one.

**`AddressesProofs`** (any ids, words, titles and saves). The database's keys
(`Keyed`: no slug of two live games, none in two histories, a live slug in its
own game's history) are part of the invariant, since every other step of the
argument looks a slug up through them; `CatalogueAssumption` asks them of the
catalogue a behaviour starts with, and `BaseAssumption` that `slugify` never
returns an empty slug, which its fallback sees to. `RegistryMatchesRouterCorrect`: the triggers
leave in the registry exactly the numbers that `GET /:id` would resolve to a
game. `AddressKeptCorrect` and `RetryHasAnAnswerCorrect` have `MaxOvertakes <= 1`
as a hypothesis, for with two overtaking saves both fail (see 6): a save knows
what it read, at most one other save has landed since, and so a claimed address
is free, the save's own, or was taken by that one save, which the unique keys
then refuse. That the search for a free slug ends (`FirstFree`) is a pigeonhole
argument over the finite set of slugs in use.

**`GameOfTheWeekProofs`** (any games, voters, connections, horizon).
`OneGameAWeekCorrect`, on the assumption that a choice is over before half a
week has passed (`WeekAssumption` and the guard of `Tick`; the code's timeouts
are seconds). The second look at the week is taken on the wall clock and the new
dates are those of the transaction's beginning, which is earlier, so the look
alone does not show that the dates do not overlap. The argument is about the
picks that have not lapsed (`Standing`), whose games have been playable all
along. `NoneEnds` closes the gap: no standing pick ends between the look that
began a choice and the latest moment the choice may last to. With it, whoever
holds the advisory lock has seen every standing pick end before its own
beginning (`AllOver`).

The same module has the votes under them. `TotalsExactCorrect`: the trigger adds
and subtracts, and the property speaks of a fold over the rows, so the proof
needs that the fold does not depend on its order (`TotalRemove`, `TotalSame`).
No induction scheme is available, so these lemmas look at a least set of votes
for which the claim fails (the library's well-founded order on finite sets) and
find a smaller one. `VotesNeverDeadlockCorrect`: `Orders` lists what each kind of
statement may still be waiting for; from it, the connections that wait behind a
vote lie in a set that is closed under waiting and that the vote is not in, so
no chain of waiting leads back to it.

**`BrowserProofs`** (any copies of stars, keys, messages, games, articles,
spellings and addresses).
`LastVoteShownCorrect`: at most one vote is out, and every connected copy shows
what the page holds. `FullscreenIsSavedCorrect`: the page knows the frame only
by messages, and the browser only by its answers, so the invariant relates the
three: the last message under way in each direction repeats its sender's last
act, and a frame in fullscreen that has something to save is either armed to
save it, or the message that will make it save is on its way.
`RedirectsSettleCorrect` gives every address a rank, an upper bound on the
redirects it can still meet: the respellings of `app.ts` (at most three, each of
which removes a cause of one) and those of a route (at most two). Hops done
since the last edit and rank together never pass five, wherever the edit caught
the request, because a
redirect to a game's address names the row as it is, a live slug is never
reserved (`CatalogueAssumption`; `uniqueSlug` skips reserved ones) and so meets
no earlier route, and a redirect that a browser stored leads only to
addresses that redirect no more. `AddressAssumption` says that the addresses typed or
bookmarked are addresses, `RoutesAssumption` that the routes with a path of
their own are distinct and no genre is spelt like one of them, `RatingsAssumption`
that 0 is not a rating.

The same module has what a visitor is shown. `NothingDeadCorrect` and
`EveryGameListedCorrect` share the invariant `ReaderInv`, which speaks of the
time while nothing is edited (`quiet`). `Lists` and `ShowsOne` say from the
catalogue alone which addresses open a page, and the invariant that an address
the site named is one of these (`NamedRight`), that a page which was shown is,
and was judged by the count of what it lists (`CountRight`), and that the pages
walked so far have shown the first rows of the listing and no others
(`WalkRight`). The sitemap, the canonical and the pager each compute an address
in their own way, so each has a lemma that `Lists` or `ShowsOne` holds there
(`SitemapShows`, `CanonicalShows`, `NextShows`); what they rest on is that
`TotalPages`, `HasNext` and `IsPageBeyondTotal`, three formulas of
`utils/pagination.ts`, say the same of a page (`NextIsThere`, `NotBeyond`,
`PagesOfATotal`). That the rows of a listing are all of it and each once needs
the order to be one: by a key of the row, ties by id, up or down
(`ListingsOrdered`), whence the rows have the places 0, 1, 2 and so on
(`Places`, a pigeonhole argument over a finite set). `CatalogueAssumption` asks
of the stored games what `validateGame`, `uniqueSlug` and the columns see to
(`Filed`), and `PagesConstants` that no listing is longer than the `MAX_PAGE`
pages an address can name (10000 of them), past which the pager would name a
page that `parsePageParam` reads as the last one.

The favourites are the third part. `DisplayTrueCorrect` and
`OnlyAskedForCorrect` hold for any games, tabs, profile pages, sizes of a batch
and limits of the lists, and for any exports; both rest on `FavInv`, which says
three things of a tab. `Sound`: an answer holds every game of its batch that the
server still has, the cache leads from a batch to a request for just that batch,
and a hydration waits for requests that together ask for all of its list. So
when every one of them has answered, the games it did not find are gone from the
server, and a prune takes nothing else from the list as it is now
(`PruneRight`). `Waits`: between two turns of the event loop whatever is still
to be drawn waits for an answer that is out. `Truth`, of a tab on screen that has
heard the others: its number and a homepage's hearts are those of storage; a
hydration that was not superseded is of the list as it is; and every container
either has such a hydration or shows the list, the stats when both of their
lists have come (`StatsCovered`). Every act of the tab itself, and the event of
another's, either keeps this or begins a render of what it disturbs (`Truth`'s
last argument names the containers that are about to be rendered), which is why
a ticket is enough (`BeginRenderRight`, `RenderRight`). "The same games" is
everywhere up to games the server has lost, since a prune in one turn takes them
from lists that others are holding (`Thinned`). What settles in one turn is a
fold over a set of hydrations; `RunsExist` and `RunsUnique` solve its recursion
on the subsets of that set, and `RunRight` carries the invariant from one
hydration to the next. `CollectionAssumption` asks that the lists in storage
were written by this script: ids of games, none of them twice, the played ones
within their limit (`toggleFavorite` appends what is not there,
`addToRecentlyPlayed` takes the game out first and cuts, `mergeById` keys by id);
`FavInv` shows that it stays so (`ListsTyped`).

**`CommentPageProofs`** (any comments, sizes of page and window, requests and
removals). `NothingUnreachableCorrect`, `PlacedRightCorrect` and
`ProgressKeptCorrect`. The root of a comment and the cascade are defined by
recursion over the table; the proofs get their equations from the parent being
older than its answer (`Tree`, which `TablesAssumption` asks of the table a
behaviour starts with), by looking at the least comment for which they would fail
(`Solvable`, `NoLowestCounterexample`). The invariant `PageInv` says of the answers that
are out what they will mean when they land. A view of a thread leaves out only
replies older than all it shows, behind its cursor (`ViewRight`); a page between two
cursors leaves out only what is older than all of it, and then says that there
is more (`BatchRight`, `RepliesRight`). Posts and deletions leave this true,
because a comment never changes its thread and a new one is newer than whatever a
snapshot speaks of (`Grows`, `StillRight`). `NewestRight` ties `data-newest-reply`
to what the reads have delivered (`given`), except in a thread the reader opened: that is
what makes `mergeReplyWindow` notice every gap (`Merges`), and why `opened` has
to be left out.

Type invariants: proved for `CacheEpoch` and `SignIn` as theorems, and as the
first conjunct of the inductive invariants of `EpochCheck`, `TtlCache`,
`PasswordGate`, `Shutdown`, `Migrations`, `Addresses`, `Votes` and the four
modules of `Browser`. Those of `CommentPage` and `GameOfTheWeek` are
stated beside the specifications and hold when their name is added to the
configuration; no listed run asks them.

Only model-checked: every liveness property and whatever depends on fairness
(out of the prover's reach: `Converges`, `Recovers`, `QueuedAreServed`,
`Leaves`). Every safety invariant and action property that a run checks is
stated by a theorem.
The proofs about `Pages`, `Favourites`, `RatingStars` and `Player` are about
their steps as parts of `BrowserSpec`.

## 6. Disagreements and observations

Where the code and its own comments differ, or where a property had to leave a
case out because the code does not keep it. The first four show up as counterexamples
when the property says what the comment does.

- The comment on `PendingBump` (`cache-epoch.ts:209`) promises one more round
  whatever the retry's own outcome; the last failure of `runRetry`
  (`cache-epoch.ts:415`) drops it.
- The comment on `acquire` (`password.ts:158`) says a waiter cannot be overtaken
  by a later request; priority callers are queued in front of earlier priority
  callers too (`password.ts:174`). `ServedInOrder` says it of ordinary callers
  only.
- A crash while the last output is flushed does not change the exit code any
  more (`shutdown.ts:340`, against the comment at `:250`). `CrashReported` is
  about crashes before the way out is taken.
- While one save is between its reads and its write, another game may move to
  the chosen address and off it again; the write then succeeds, and the address
  no longer leads to the game that gave it up (`slug.ts:228`, against
  `slug.ts:204`). That takes two other saves in one window (`MaxOvertakes = 2`).
- Comments: the first page's roots and their number come from two queries
  (`home.ts:1238`); a root that comes or goes in between can leave older
  comments without a button (`drifted`). A thread whose only replies on the page
  are the reader's own has no cursor that leads to older ones (`opened`).
- Sign-in: a browser without any cookie that asks for two pages at once gets two
  secrets, and the later answer wins over a form already rendered (`raced`). A
  sign-in's hit that is given back after its window has ended lowers the next
  window's count: `GuessesBounded` allows for these (`strays`).
- Ratings: the sweep's `UPDATE` rechecks only the id after it has waited, so a
  vote changed in the meantime loses its new address as well.
- The game of the week: a pick whose game is without a stream is passed over
  and another is made; when the stream comes back, both picks are current and
  playable, and `getCurrent` shows the newest, as
  `game-of-the-week-rollover.test.ts:252` expects. A stream that comes back
  between the look under the lock and the insert is passed over as well.
  `OneGameAWeek` therefore speaks of picks that have not lapsed.
- The player: a fullscreen that ends between js-dos's own exit and the page's
  answer about it is lost (`js-dos-player.js:134`, `:151`), and so is the frame
  when its `load` comes while the page's request is out (`game-player.js:169`).
  Both are what `hasty` marks.
- Pages: the routes of developers, publishers, years and the comments' overview
  do not look again whether their rows are empty after the count, as the
  homepage, genres, letters and news do; a deletion in between answers 200 with
  an empty list. If the redirects to a game's new address could be stored
  (`Storable`), renaming a game there and back would send a browser in a circle;
  `no-cache` on them is what `RedirectsSettle` rests on.
- Favourites: a game that another list's prune removed keeps its card on a page
  until the next render; an import does not touch the profile's hearts before
  their cards are redrawn.
- Migrations: an operator who follows the advice of an earlier run's error and
  drops an INVALID index while another run is between its statement and its
  check would leave a row without an index; `DropInvalid` waits until no run is
  at work.

## 7. Not modelled

Parts without a module: the fields of the admin forms, the other widgets,
logging and CSP reports, the text and page helpers and the media backup; the
reasons are in `PROJECT.json`. Of the modelled parts:

- Caches: what the loads behind them compute; a write whose own answer is lost
  (`comment.ts:619`: it commits, but the process neither clears nor bumps), and
  the daily sweep of `index.ts:57` cut off between two of its deletions, which
  the next day repeats.
- Password hashing: the scrypt format. Migrations: the lexing of SQL files.
- Addresses: the news variant of slugs, the order of slugs in the history
  (`findFirstSlugs`), a truncated history, rows written by hand.
- Comments: the overview's content, the sweep of sources, validation, wording,
  focus. Inserts are taken to commit in the order of their ids, and the queries
  of one answer to read one snapshot.
- Votes: the limit on votes and the voter's cookie; games are not added while
  the votes run.
- Sign-in: roles and deleted accounts, the device's cookie, the content of flash
  messages, the masking of tokens, foreign origins, clearing of cookies, the
  other limiters; a sign-in whose save fails and the later save of its answer
  are one step.
- Pages: production's redirects are on and the player has its own origin; the
  search finds a fixed set of games and its relevance is the title's order; the
  sitemap and the lists of the most played read fresh (their caches are
  `TtlCache` and `CacheEpoch`); the random page's draw and fetch are one step;
  what a page shows beside its listing; `/profile`; error pages; feeds.
- Favourites: times (an import's order is any), export, focus, wording. The
  server's read and its answer are one step, several storage events collapse
  into one, leaving the homepage and playing the game is one act, and every
  behaviour starts from settled pages.
- Stars: drawing, keyboard, averages; a vote that fails at the client is not
  stored later.
- The player: the CRT toggle, what cannot start, the check of the address. The
  browser has one fullscreen request of a page at a time (`OneRequest`), and a
  game changes its files only after its frame has loaded: the script that starts
  the emulator is the last thing in the frame's document, and emulator and game
  are fetched by it, which its `load` does not wait for.
