----------------------------- MODULE Addresses -----------------------------
(***************************************************************************)
(* The addresses of games: how a save chooses a slug (utils/slug.ts,       *)
(* Game.create and Game.update in models/game.ts), what the database keeps *)
(* of it (the slug history of migrations 0021 and 0054, the registry of    *)
(* numeric addresses of 0060 to 0065), and what GET /:id makes of them     *)
(* (routes/home.ts).                                                       *)
(*                                                                         *)
(* A save is several queries: the current row, the history, for a title    *)
(* that spells a number the ids, and last the one statement that writes.   *)
(* Other saves run between them.  The writes themselves are serialised by  *)
(* the advisory lock of 0060, so each is one action, triggers included.    *)
(*                                                                         *)
(* A slug is a word and the numbers behind it: "doom-2" is                 *)
(* [word |-> "doom", tail |-> <<2>>], "7" has no word.  slugify is the     *)
(* constant Base: titles are tokens, and two of them may share a base.     *)
(***************************************************************************)
EXTENDS Naturals, Sequences, FiniteSets

CONSTANTS
  Titles,        \* what an administrator may type
  Words,         \* what a slug may be before its numbers, "" among them
  Base,          \* Base[t]: slugify(t)
  Reserved,      \* slugs a route already answers at
  MaxId,         \* the ids the sequence may reach, a bound
  Saves,         \* the requests that may be saving at one time
  Attempts,      \* SLUG_ATTEMPTS
  Catalogues,    \* the catalogues the history may start from
  MaxOvertakes   \* how many saves may land inside another's window

Slugs == [word : Words, tail : Seq(Nat \ {0})]

ASSUME AddressConstants ==
  /\ "" \in Words /\ "" \notin Titles
  /\ Base \in [Titles -> Slugs]
  /\ MaxId \in Nat \ {0}
  /\ Attempts \in Nat \ {0}
  /\ MaxOvertakes \in Nat

NoSlug == [word |-> "", tail |-> <<>>]
NoTitle == ""
NoGame == [title |-> NoTitle, slug |-> NoSlug]
Nobody == 0
Ids == 1..MaxId

(* slugify(title) || fallbackBase *)
ASSUME BaseAssumption == \A t \in Titles : Base[t] # NoSlug

(* The keys of a catalogue: games_slug_key, the unique slug of game_slugs  *)
(* and its foreign key, and a live slug's row in the history (0021, 0054). *)
Keyed(c) ==
  /\ c.game \in [Ids -> [title : Titles, slug : Slugs] \cup {NoGame}]
  /\ c.history \in [Ids -> SUBSET Slugs]
  /\ \A g \in Ids : IsFiniteSet(c.history[g])
  /\ \A g, h \in Ids : g # h =>
       /\ NoGame \notin {c.game[g], c.game[h]} => c.game[g].slug # c.game[h].slug
       /\ c.history[g] \cap c.history[h] = {}
  /\ \A g \in Ids :
       IF c.game[g] = NoGame THEN c.history[g] = {} ELSE c.game[g].slug \in c.history[g]

ASSUME CatalogueAssumption == \A c \in Catalogues : Keyed(c)

VARIABLES
  game,      \* the "games" rows: title and slug, NoGame where there is no row
  history,   \* the "game_slugs" rows of each game: every slug it has had
  address,   \* "game_numeric_addresses": who owns the number, Nobody if nobody
  nextId,    \* the sequence behind games.id
  save       \* the requests

vars == <<game, history, address, nextId, save>>

----------------------------------------------------------------------------
(* Slugs *)

Suffixed(base, n) == [base EXCEPT !.tail = Append(@, n)]

(* slugSharesBase: the base itself, or the base with a collision suffix *)
SharesBase(slug, base) ==
  \/ slug = base
  \/ slug.tail # <<>> /\ base = [slug EXCEPT !.tail = SubSeq(@, 1, Len(@) - 1)]

(* game_numeric_address: the id a slug spells, if it spells one *)
Spells(slug, n) == slug.word = "" /\ slug.tail = <<n>>

Live(g) == game[g] # NoGame
HeldBy(slug) == {g \in Ids : slug \in history[g]}

TakenFrom_LiveOnly(owner) == {game[g].slug : g \in {h \in Ids \ {owner} : Live(h)}}

(* resolveSlug's query: what other games have answered at *)
TakenFrom(owner) == UNION {history[g] : g \in Ids \ {owner}}

(* the lowest suffix from 2 that nobody has *)
FirstFree(base, taken) ==
  Suffixed(base, CHOOSE n \in 2..(Cardinality(taken) + 2) :
    /\ Suffixed(base, n) \notin taken
    /\ \A m \in 2..(n - 1) : Suffixed(base, m) \in taken)

----------------------------------------------------------------------------
(* The registry of numeric addresses *)

(* who answers at a slug, in GET /:id's order: live, retired, id *)
Answerer(games, past, slug) ==
  LET live    == {g \in Ids : games[g] # NoGame /\ games[g].slug = slug}
      retired == {g \in Ids : slug \in past[g]}
      byId    == {g \in Ids : games[g] # NoGame /\ Spells(slug, g)}
      best    == IF live # {} THEN live ELSE IF retired # {} THEN retired ELSE byId
  IN  IF best = {} THEN Nobody ELSE CHOOSE g \in best : TRUE

Numeral(n) == [word |-> "", tail |-> <<n>>]

Refreshed_Released(released, games, past, registry) ==
  [n \in Ids |-> IF n \in released THEN Nobody ELSE registry[n]]

(* refresh_game_numeric_address, for a set of released numbers *)
Refreshed(released, games, past, registry) ==
  [n \in Ids |-> IF n \in released THEN Answerer(games, past, Numeral(n)) ELSE registry[n]]

Spelt(slugs) == {n \in Ids : \E s \in slugs : Spells(s, n)}

(* claim_game_numeric_address lets the number through *)
MayClaim(g, n) ==
  \/ address[n] = g
  \/ address[n] = Nobody /\ (n = g \/ ~Live(n))

(* the write collides: games_slug_key or games_numeric_address_key *)
Collides(g, slug) ==
  \/ \E other \in Ids \ {g} : Live(other) /\ game[other].slug = slug
  \/ \E n \in Spelt({slug}) : ~MayClaim(g, n)

(* next_available_game_id: what the sequence skips *)
Available == {n \in Ids : n >= nextId /\ ~Live(n) /\ address[n] = Nobody}
NewId == CHOOSE n \in Available : \A m \in Available : n <= m

----------------------------------------------------------------------------
(* Saves *)

Idle == [phase |-> "idle", id |-> Nobody, title |-> NoTitle, slug |-> NoSlug,
         spare |-> NoSlug, tries |-> 0, over |-> 0]

Init ==
  \E c \in Catalogues :
    /\ game = c.game
    /\ history = c.history
    /\ nextId = c.nextId
    \* 0060's backfill, in the router's order
    /\ address = Refreshed(Ids, c.game, c.history, [n \in Ids |-> Nobody])
    /\ save = [s \in Saves |-> Idle]

(* POST /games, or POST /games/:id: the form is valid, resolving starts *)
Post(s, id, title) ==
  /\ save[s].phase = "idle"
  /\ id = Nobody => Available # {}  \* a bound: no creating past MaxId
  /\ save' = [save EXCEPT ![s] =
       [Idle EXCEPT !.phase = IF id = Nobody THEN "history" ELSE "current",
                    !.id = id, !.title = title, !.tries = 1]]
  /\ UNCHANGED <<game, history, address, nextId>>

(* resolveSlugForUpdate keeps the slug a save is not about *)
Keeps(row, title) ==
  /\ row # NoGame
  /\ \/ row.title = title
     \/ SharesBase(row.slug, Base[title]) /\ Base[row.title] = Base[title]

(* resolveSlugForUpdate's read of the row *)
ReadCurrent(s) ==
  LET row == game[save[s].id] IN
  /\ save[s].phase = "current"
  /\ save' = [save EXCEPT ![s] =
       IF Keeps(row, save[s].title)
       THEN [@ EXCEPT !.phase = "write", !.slug = row.slug]
       ELSE [@ EXCEPT !.phase = "history"]]
  /\ UNCHANGED <<game, history, address, nextId>>

(* resolveSlug's read of the history: the base, or the base suffixed.  The *)
(* suffixed one is kept in hand for a base that turns out to be an id.     *)
ReadHistory(s) ==
  LET base  == Base[save[s].title]
      taken == TakenFrom(save[s].id)
      free  == base \notin taken \cup Reserved
      spare == FirstFree(base, taken)
      number == base.word = "" /\ Len(base.tail) = 1
  IN
  /\ save[s].phase = "history"
  /\ save' = [save EXCEPT ![s] =
       IF free /\ number THEN [@ EXCEPT !.phase = "ids", !.slug = base, !.spare = spare]
       ELSE [@ EXCEPT !.phase = "write", !.slug = IF free THEN base ELSE spare]]
  /\ UNCHANGED <<game, history, address, nextId>>

ReadIds_NobodyOwns(s) ==
  /\ save[s].phase = "ids"
  /\ save' = [save EXCEPT ![s] = [@ EXCEPT !.phase = "write", !.spare = NoSlug]]
  /\ UNCHANGED <<game, history, address, nextId>>

(* resolveSlug's read of the ids: is the number another game's? *)
ReadIds(s) ==
  LET owned == \E n \in Ids \ {save[s].id} : Live(n) /\ Spells(save[s].slug, n) IN
  /\ save[s].phase = "ids"
  /\ save' = [save EXCEPT ![s] =
       [@ EXCEPT !.phase = "write", !.slug = IF owned THEN save[s].spare ELSE save[s].slug,
                 !.spare = NoSlug]]
  /\ UNCHANGED <<game, history, address, nextId>>

----------------------------------------------------------------------------
(* The writing statement *)

(* a save commits inside the windows of the other saves *)
Open(t) == save[t].phase \in {"history", "ids", "write"}
MayOvertake(s) ==
  \A t \in Saves \ {s} : Open(t) => save[t].over < MaxOvertakes
Overtaking(s) ==
  [t \in Saves |-> IF t = s THEN Idle
                   ELSE IF Open(t) THEN [save[t] EXCEPT !.over = @ + 1]
                   ELSE save[t]]

(* the history CTE and 0054's trigger: ON CONFLICT DO NOTHING *)
Recorded(g, slug) ==
  IF HeldBy(slug) = {} THEN [history EXCEPT ![g] = @ \cup {slug}] ELSE history

(* game g becomes live at the save's slug *)
Lands(s, g) ==
  LET slug  == save[s].slug
      left  == Spelt({game[g].slug} \ {slug})
      games == [game EXCEPT ![g] = [title |-> save[s].title, slug |-> slug]]
      past  == Recorded(g, slug)
      claimed == [n \in Ids |-> IF n \in Spelt({slug}) \cup (IF Live(g) THEN {} ELSE {g})
                                THEN g ELSE address[n]]
  IN
  /\ MayOvertake(s)
  /\ game' = games
  /\ history' = past
  /\ address' = Refreshed(left, games, past, claimed)
  /\ save' = Overtaking(s)

(* Game.create's INSERT goes through *)
Create(s) ==
  /\ save[s].phase = "write" /\ save[s].id = Nobody
  /\ Available # {}
  /\ ~Collides(NewId, save[s].slug)
  /\ Lands(s, NewId)
  /\ nextId' = NewId + 1

(* Game.update's UPDATE goes through *)
Update(s) ==
  /\ save[s].phase = "write" /\ save[s].id # Nobody
  /\ Live(save[s].id)
  /\ save[s].slug = game[save[s].id].slug \/ ~Collides(save[s].id, save[s].slug)
  /\ Lands(s, save[s].id)
  /\ UNCHANGED nextId

(* the row went while the save was resolving: 404 *)
UpdateNothing(s) ==
  /\ save[s].phase = "write" /\ save[s].id # Nobody
  /\ ~Live(save[s].id)
  /\ save' = [save EXCEPT ![s] = Idle]
  /\ UNCHANGED <<game, history, address, nextId>>

(* the statement fails on a slug constraint: withResolvedSlug starts over, *)
(* or gives up.  A failed INSERT has used up its id.                       *)
Collide(s) ==
  LET creating == save[s].id = Nobody
      g == IF creating THEN NewId ELSE save[s].id
  IN
  /\ save[s].phase = "write"
  /\ IF creating THEN Available # {}
     ELSE Live(g) /\ save[s].slug # game[g].slug
  /\ Collides(g, save[s].slug)
  /\ save' = [save EXCEPT ![s] =
       IF save[s].tries >= Attempts THEN Idle
       ELSE [Idle EXCEPT !.phase = IF creating THEN "history" ELSE "current",
                         !.id = save[s].id, !.title = save[s].title,
                         !.tries = save[s].tries + 1]]
  /\ nextId' = IF creating THEN NewId + 1 ELSE nextId
  /\ UNCHANGED <<game, history, address>>

(* the sequence is at its end: the INSERT fails, as it would past int4 *)
NoIdLeft(s) ==
  /\ save[s].phase = "write" /\ save[s].id = Nobody
  /\ Available = {}
  /\ save' = [save EXCEPT ![s] = Idle]
  /\ UNCHANGED <<game, history, address, nextId>>

(* Game.delete: the history rows and the registry's follow the game *)
Delete(g) ==
  LET games == [game EXCEPT ![g] = NoGame]
      past  == [history EXCEPT ![g] = {}]
      freed == {n \in Ids : address[n] = g} \cup {g}
                 \cup Spelt({game[g].slug} \cup history[g])
  IN
  /\ Live(g)
  /\ game' = games
  /\ history' = past
  /\ address' = Refreshed(freed, games, past, address)
  /\ UNCHANGED <<nextId, save>>

Next ==
  \/ \E s \in Saves :
       \/ \E id \in Ids \cup {Nobody}, t \in Titles : Post(s, id, t)
       \/ ReadCurrent(s) \/ ReadHistory(s) \/ ReadIds(s)
       \/ Create(s) \/ Update(s) \/ UpdateNothing(s) \/ Collide(s) \/ NoIdLeft(s)
  \/ \E g \in Ids : Delete(g)

Spec == Init /\ [][Next]_vars

----------------------------------------------------------------------------
(* Where GET /:id leads now *)
Leads(slug) == Answerer(game, history, slug)

(* The variables keep their types, and the rows their foreign keys: a slug *)
(* or a number on record belongs to a game that is there.                  *)
TypeOK ==
  /\ game \in [Ids -> [title : Titles, slug : Slugs] \cup {NoGame}]
  /\ \A g \in Ids : history[g] \subseteq Slugs
  /\ address \in [Ids -> Ids \cup {Nobody}]
  /\ \A g \in Ids : ~Live(g) => history[g] = {} /\ \A n \in Ids : address[n] # g
  /\ nextId \in Nat \ {0}
  /\ \A s \in Saves :
       /\ save[s].phase \in {"idle", "current", "history", "ids", "write"}
       /\ save[s].id \in Ids \cup {Nobody}
       /\ save[s].slug \in Slugs
       /\ save[s].over \in 0..MaxOvertakes
       /\ save[s].tries \in 0..Attempts

(* An address that opens a game opens that game for as long as it exists,  *)
(* whatever is created, renamed or deleted around it.                      *)
Known == UNION {history[g] : g \in Ids} \cup {game[g].slug : g \in {i \in Ids : Live(i)}}
           \cup {Numeral(n) : n \in Ids}
AddressKept ==
  [][\A a \in Known : LET g == Leads(a) IN
       g # Nobody /\ game'[g] # NoGame => Leads(a)' = g]_<<game, history>>

(* The registry the triggers maintain names, for every number, the game    *)
(* the router opens there.                                                 *)
RegistryMatchesRouter == \A n \in Ids : address[n] = Leads(Numeral(n))

(* A save meets a collision only when another save landed in its window:   *)
(* a retry has a different answer to find (models/game.ts).                *)
RetryHasAnAnswer ==
  [][\A s \in Saves : Collide(s) => save[s].over > 0]_vars
=============================================================================
