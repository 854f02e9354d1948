----------------------------- MODULE Favourites -----------------------------
(***************************************************************************)
(* The favourites and the recently played list: two lists of game ids in   *)
(* the storage every tab of the site shares.  A tab shows them as hearts,  *)
(* as a number on the navbar and as lists whose games are fetched from the *)
(* server; the answers come in any order, or fail, while this tab and      *)
(* others go on changing the lists.  A list is the sequence of its ids;    *)
(* the times beside them decide an import's order only, which is any.      *)
(***************************************************************************)
EXTENDS Integers, FiniteSets, Sequences, SequencesExt, FiniteSetsExt, Functions

CONSTANTS
  Games,          \* the ids a list can hold
  Tabs,           \* the tabs of one browser
  Profile,        \* those that show the profile page; the others, the homepage
  BatchSize,      \* COLLECTION_BATCH_SIZE
  RecentLimit,    \* RECENTLY_PLAYED_LIMIT
  ContinueLimit,  \* CONTINUE_PLAYING_LIMIT
  Exports,        \* what an export may hold: a record of two sets of games
  Kept,           \* the lists the browser may start with
  MaxHydrations,  \* bound: lists being fetched at once, per tab
  MaxActs,        \* bound: presses, plays, removals and imports
  MaxMishaps,     \* bound: requests that fail, writes that are refused, games deleted
  MaxImports      \* bound: files imported

VARIABLES
  catalogue, \* the games the server has
  stored,    \* localStorage: the favourites and the games played
  news,      \* the tabs with a storage event they have not heard
  tab,       \* what each tab holds and shows
  acts,      \* how often the visitor has done one of these
  mishaps,   \* how often something has gone wrong
  imports    \* how many files have been imported

vars == <<catalogue, stored, news, tab, acts, mishaps, imports>>

Keys == {"favorites", "played"}
Containers(t) == IF t \in Profile THEN {"favorites", "played", "stats"} ELSE {"strip"}

(* The browser starts with lists the script has written: a press appends a *)
(* game that is not there, playing one takes it out first and cuts the     *)
(* list, and mergeById keeps one entry per game.                           *)
ASSUME CollectionAssumption ==
  /\ BatchSize \in Nat \ {0} /\ RecentLimit \in Nat /\ ContinueLimit \in Nat
  /\ \A lists \in Kept :
       /\ lists \in [Keys -> Seq(Games)] /\ Len(lists["played"]) <= RecentLimit
       /\ \A k \in Keys : \A i, j \in DOMAIN lists[k] : lists[k][i] = lists[k][j] => i = j
  /\ \A export \in Exports, k \in Keys : export[k] \subseteq Games /\ IsFiniteSet(export[k])

Reads(w) == IF w = "favorites" THEN {"favorites"}
            ELSE IF w = "stats" THEN Keys ELSE {"played"}

Nothing == [x \in {} |-> x]

(* Map.set, for each key of f. *)
Over(f, g) == [x \in DOMAIN f \cup DOMAIN g |-> IF x \in DOMAIN f THEN f[x] ELSE g[x]]

(* Array.filter: the games of a list that are in S, in their order.        *)
Within(list, S) ==
  LET kept[i \in 0..Len(list)] ==
        IF i = 0 THEN <<>>
        ELSE IF list[i] \in S THEN Append(kept[i - 1], list[i]) ELSE kept[i - 1]
  IN kept[Len(list)]
Without(list, S) == Within(list, ToSet(list) \ S)
FirstOf(list, n) == SubSeq(list, 1, IF Len(list) < n THEN Len(list) ELSE n)
Blank == [state |-> "blank", games |-> {}]
Favorites == ToSet(stored["favorites"])

(***************************************************************************)
(* collectionCache maps a batch of ids to the request that was made for    *)
(* it, answered or not; a write clears it, and what still waits for an     *)
(* older request waits on.                                                 *)
(***************************************************************************)
Tidy(d) ==
  [d EXCEPT !.requests =
     Restrict(@, {n \in DOMAIN @ : \/ n \in Range(d.cache)
                                   \/ \E h \in d.hydrations : n \in h.waits})]
InvalidateCollectionCache(d) == Tidy([d EXCEPT !.cache = Nothing])

Batches(ids) ==
  {SubSeq(ids, i, IF i + BatchSize > Len(ids) THEN Len(ids) ELSE i + BatchSize - 1) :
     i \in {k \in 1..Len(ids) : (k - 1) % BatchSize = 0}}

(* A request is its batch and a number that tells it from older ones for   *)
(* the same batch that are still out.                                      *)
FetchBatches(d, batches) ==
  LET fresh == batches \ DOMAIN d.cache
      Number(b) == CHOOSE i \in 1..(Cardinality(DOMAIN d.requests) + 1) :
                     /\ <<b, i>> \notin DOMAIN d.requests
                     /\ \A j \in 1..(i - 1) : <<b, j>> \in DOMAIN d.requests
      made == [b \in fresh |-> <<b, Number(b)>>]
      sent == [n \in Range(made) |-> [state |-> "sent", found |-> {}]]
  IN [d EXCEPT !.cache = Over(made, @), !.requests = Over(sent, @)]

(***************************************************************************)
(* What a tab draws from the lists as they are: its hearts and its number  *)
(* at once, its containers when what they wait for has come.  A render     *)
(* supersedes the older ones of its container.                             *)
(***************************************************************************)
Heart(favorites, g) == IF g \in favorites THEN "on" ELSE "off"
SyncFavoriteButtons(d, favorites) ==
  [d EXCEPT !.hearts = [g \in Games |-> IF @[g] = "none" THEN "none"
                                        ELSE Heart(favorites, g)]]
UpdateFavoritesCount(d, favorites) == [d EXCEPT !.badge = Cardinality(favorites)]

BeginRender_NoTicket(d, W) == d
BeginRender(d, W) ==
  [d EXCEPT !.hydrations = {IF h.where \in W THEN [h EXCEPT !.where = "superseded"] ELSE h : h \in @},
            !.tally = IF "stats" \in W THEN Nothing ELSE @]

Render(d, W, lists) ==
  LET asks == {a \in W \X Keys : a[2] \in Reads(a[1])}
      f == FetchBatches(BeginRender(d, W), UNION {Batches(lists[a[2]]) : a \in asks})
  IN [f EXCEPT !.hydrations = @ \cup
        {[where |-> a[1], key |-> a[2], ids |-> lists[a[2]],
          waits |-> {f.cache[b] : b \in Batches(lists[a[2]])}] : a \in asks}]

RedrawFromStorage(d, t, lists) ==
  LET favorites == ToSet(lists["favorites"])
  IN Render(UpdateFavoritesCount(
              SyncFavoriteButtons(InvalidateCollectionCache(d), favorites), favorites),
            Containers(t), lists)

With(k, list) == [stored EXCEPT ![k] = list]

(***************************************************************************)
(* hydrate: a list whose batches are all back.  Games the server says are  *)
(* gone leave the list as it is now, and the newest render draws what it   *)
(* waited for.  All that is ready goes on in one turn of the event loop.   *)
(***************************************************************************)
Found(d, h) == Within(h.ids, UNION {d.requests[n].found : n \in h.waits})
Drawn(found, complete) == [state |-> IF complete THEN "drawn" ELSE "failed",
                           games |-> IF complete THEN ToSet(found) ELSE {}]

LoadFavoriteGames(d, list) ==
  [d EXCEPT !.shown["favorites"] = list,
            !.hearts = [g \in Games |-> IF g \in list.games THEN "on" ELSE "none"]]
LoadRecentlyPlayedGames(d, list) == [d EXCEPT !.shown["played"] = list]

(* The strip claims nothing, so it shows what of a broken answer there is. *)
LoadContinuePlaying(d, found) ==
  [d EXCEPT !.shown["strip"].games = ToSet(FirstOf(found, ContinueLimit))]

(* The stats wait for both lists, and count nothing unless both are whole. *)
RenderCollectionStats(d, k, list) ==
  LET tally == Over([x \in {k} |-> list], d.tally)
  IN IF DOMAIN tally # Keys THEN [d EXCEPT !.tally = tally]
     ELSE [d EXCEPT !.tally = Nothing,
                    !.shown["stats"] = IF \E x \in Keys : tally[x].state = "failed"
                                       THEN Nothing ELSE tally]

Draw(d, h, complete) ==
  LET found == Found(d, h)
      list == Drawn(found, complete)
  IN CASE h.where = "favorites" -> LoadFavoriteGames(d, list)
       [] h.where = "played" -> LoadRecentlyPlayedGames(d, list)
       [] h.where = "strip" -> LoadContinuePlaying(d, found)
       [] h.where = "stats" -> RenderCollectionStats(d, h.key, list)
       [] h.where = "superseded" -> d

Pruned_CopyReadBefore(h, gone, lists) == Without(h.ids, gone)
Pruned(h, gone, lists) == Without(lists[h.key], gone)

Hydrate(h, at, saved) ==
  LET d == at.tab
      complete == \A n \in h.waits : d.requests[n].state = "answered"
      gone == ToSet(h.ids) \ UNION {d.requests[n].found : n \in h.waits}
      prune == complete /\ gone # {}
      lists == IF prune /\ saved THEN [at.lists EXCEPT ![h.key] = Pruned(h, gone, at.lists)]
               ELSE at.lists
      favorites == ToSet(lists["favorites"])
      kept == IF prune THEN [d EXCEPT !.cache = Nothing] ELSE d
      synced == IF prune /\ saved /\ h.key = "favorites"
                THEN SyncFavoriteButtons(UpdateFavoritesCount(kept, favorites), favorites)
                ELSE kept
  IN [tab |-> Draw(synced, h, complete), lists |-> lists]

Settle(d, lists, saved) ==
  LET ready == {h \in d.hydrations : \A n \in h.waits : d.requests[n].state # "sent"}
      end == FoldSet(LAMBDA h, at : Hydrate(h, at, saved),
                     [tab |-> [d EXCEPT !.hydrations = @ \ ready], lists |-> lists], ready)
  IN [end EXCEPT !.tab = Tidy(@)]

(* A write that storage accepts is heard in every other tab. *)
Tell(lists, t) == IF lists = stored THEN news
                  ELSE news \cup (Tabs \ {t})

Turn(t, d, lists, saved) ==
  LET end == Settle(d, lists, saved)
  IN /\ tab' = [tab EXCEPT ![t] = end.tab]
     /\ Cardinality(end.tab.hydrations) <= MaxHydrations[t]
     /\ stored' = end.lists

Act == acts < MaxActs /\ acts' = acts + 1

(* Storage may refuse any write. *)
MayRefuse(saved) ==
  /\ saved \/ mishaps < MaxMishaps
  /\ mishaps' = IF saved THEN mishaps ELSE mishaps + 1

(***************************************************************************)
(* The page: coming back to it from a game, opened anew or as it was, and  *)
(* hearing of another tab's write.                                         *)
(***************************************************************************)
Fresh(t) ==
  [page |-> "open", hearts |-> [g \in Games |-> IF t \in Profile THEN "none" ELSE "off"],
   badge |-> 0, shown |-> [w \in Containers(t) |-> IF w = "stats" THEN Nothing ELSE Blank],
   hydrations |-> {}, requests |-> Nothing, cache |-> Nothing, tally |-> Nothing]

(* The way back opens the page anew ... *)
Load(t) ==
  /\ tab[t].page = "away"
  /\ Turn(t, RedrawFromStorage(Fresh(t), t, stored), stored, TRUE)
  /\ news' = news \ {t}
  /\ UNCHANGED <<catalogue, acts, mishaps, imports>>

(* ... or finds it as it was left; the events of the time away come now, or *)
(* later, or were never sent.                                              *)
Return(t) ==
  /\ tab[t].page = "away"
  /\ Turn(t, RedrawFromStorage([tab[t] EXCEPT !.page = "open"], t, stored), stored, TRUE)
  /\ news' \in {news, news \ {t}}
  /\ UNCHANGED <<catalogue, acts, mishaps, imports>>

Hear(t) ==
  /\ t \in news /\ tab[t].page = "open"
  /\ Turn(t, RedrawFromStorage(tab[t], t, stored), stored, TRUE)
  /\ news' = news \ {t}
  /\ UNCHANGED <<catalogue, acts, mishaps, imports>>

(***************************************************************************)
(* The visitor.  saved says whether storage took the write.                *)
(***************************************************************************)
Toggled(g, liked) ==
  LET list == stored["favorites"]
  IN IF liked THEN Without(list, {g})
     ELSE IF g \in ToSet(list) THEN list ELSE Append(list, g)

ToggleFavorite(t, g, saved) ==
  /\ tab[t].page = "open" /\ tab[t].hearts[g] # "none" /\ Act /\ MayRefuse(saved)
  /\ LET liked == tab[t].hearts[g] = "on"
         lists == IF saved THEN With("favorites", Toggled(g, liked)) ELSE stored
         now == ToSet(lists["favorites"])
         heart == IF saved THEN (IF liked THEN "off" ELSE "on") ELSE Heart(now, g)
         d == UpdateFavoritesCount(
                [InvalidateCollectionCache(tab[t]) EXCEPT !.hearts[g] = heart], now)
     IN Turn(t, IF saved /\ t \in Profile THEN Render(d, {"favorites", "stats"}, lists) ELSE d,
             lists, TRUE)
  /\ news' = Tell(stored', t)
  /\ UNCHANGED <<catalogue, imports>>

(* The homepage is left for the page of a game, and the game is played. *)
AddToRecentlyPlayed(t, g, saved) ==
  /\ tab[t].page = "open" /\ t \notin Profile /\ g \in catalogue /\ Act /\ MayRefuse(saved)
  /\ tab' = [tab EXCEPT ![t].page = "away"]
  /\ LET played == FirstOf(<<g>> \o Without(stored["played"], {g}), RecentLimit)
     IN stored' = IF saved THEN With("played", played) ELSE stored
  /\ news' = Tell(stored', t)
  /\ UNCHANGED <<catalogue, imports>>

RemoveFromRecentlyPlayed(t, g, saved) ==
  /\ tab[t].page = "open" /\ t \in Profile /\ Act /\ MayRefuse(saved)
  /\ g \in tab[t].shown["played"].games
  /\ LET lists == IF saved THEN With("played", Without(stored["played"], {g})) ELSE stored
         d == InvalidateCollectionCache(tab[t])
     IN Turn(t, IF saved THEN Render(d, {"played", "stats"}, lists) ELSE d, lists, TRUE)
  /\ news' = Tell(stored', t)
  /\ UNCHANGED <<catalogue, imports>>

TryAgain(t, saved) ==
  /\ tab[t].page = "open" /\ t \in Profile
  /\ \E k \in Keys : tab[t].shown[k].state = "failed"
  /\ MayRefuse(saved)
  /\ Turn(t, Render(tab[t], Containers(t), stored), stored, saved)
  /\ news' = Tell(stored', t)
  /\ UNCHANGED <<catalogue, acts, imports>>

(* mergeById keeps every entry there was; which are the newest, the times say. *)
Merged(k, export) ==
  LET all == SetToSeqs(ToSet(stored[k]) \cup export[k])
  IN IF k = "played" THEN {FirstOf(list, RecentLimit) : list \in all} ELSE all

(* What the page does when the import says that anything was saved. *)
Imported(d, t, lists) ==
  Render(UpdateFavoritesCount(d, ToSet(lists["favorites"])), Containers(t), lists)

ImportCollection(t, export, kept) ==
  /\ tab[t].page = "open" /\ t \in Profile /\ imports < MaxImports /\ Act
  /\ MayRefuse(kept = Keys)
  /\ \E k \in Keys : export[k] # {}
  /\ \E f \in Merged("favorites", export), p \in Merged("played", export) :
       LET merged == [favorites |-> f, played |-> p]
           lists == [k \in Keys |-> IF k \in kept THEN merged[k] ELSE stored[k]]
           Wanted(k) == ToSet(merged[k]) \ ToSet(stored[k])
           Added(k) == ToSet(lists[k]) \ ToSet(stored[k])
           saved == IF \A k \in Keys : Wanted(k) = {} THEN kept # {}
                    ELSE \/ \A k \in Keys : Wanted(k) # {} => k \in kept
                         \/ \E k \in Keys : Added(k) # {}
           d == InvalidateCollectionCache(tab[t])
       IN Turn(t, IF saved THEN Imported(d, t, lists) ELSE d, lists, TRUE)
  /\ news' = Tell(stored', t)
  /\ imports' = imports + 1
  /\ UNCHANGED catalogue

(***************************************************************************)
(* The server answers a request from the games it has, or the request      *)
(* fails; only a failure's own entry leaves the cache.                     *)
(***************************************************************************)
Sent(t, n) == /\ tab[t].page = "open"
              /\ tab[t].requests[n].state = "sent"

Answer(t, n, saved) ==
  /\ Sent(t, n) /\ MayRefuse(saved)
  /\ LET found == ToSet(n[1]) \cap catalogue
     IN Turn(t, [tab[t] EXCEPT !.requests[n].state = "answered",
                               !.requests[n].found = found], stored, saved)
  /\ news' = Tell(stored', t)
  /\ UNCHANGED <<catalogue, acts, imports>>

Fail(t, n) ==
  /\ Sent(t, n) /\ mishaps < MaxMishaps
  /\ Turn(t, [tab[t] EXCEPT !.requests[n].state = "failed",
                            !.cache = Restrict(@, {b \in DOMAIN @ : @[b] # n})], stored, TRUE)
  /\ mishaps' = mishaps + 1
  /\ UNCHANGED <<catalogue, news, acts, imports>>

DeleteGame(g) ==
  /\ g \in catalogue /\ mishaps < MaxMishaps
  /\ catalogue' = catalogue \ {g} /\ mishaps' = mishaps + 1
  /\ UNCHANGED <<stored, news, tab, acts, imports>>

(* A page whose first requests have all been answered. *)
Settled(t) ==
  LET d == RedrawFromStorage(Fresh(t), t, stored)
      answered == [n \in DOMAIN d.requests |-> [state |-> "answered", found |-> ToSet(n[1])]]
  IN Settle([d EXCEPT !.requests = answered], stored, TRUE).tab

Init ==
  /\ catalogue = Games /\ news = {} /\ acts = 0 /\ mishaps = 0 /\ imports = 0
  /\ stored \in Kept
  /\ tab = [t \in Tabs |-> Settled(t)]

Next ==
  \/ \E t \in Tabs :
       \/ Load(t) \/ Return(t) \/ Hear(t)
       \/ \E saved \in BOOLEAN :
            \/ TryAgain(t, saved)
            \/ \E g \in Games : \/ AddToRecentlyPlayed(t, g, saved)
                                \/ ToggleFavorite(t, g, saved)
                                \/ RemoveFromRecentlyPlayed(t, g, saved)
            \/ \E n \in DOMAIN tab[t].requests : Answer(t, n, saved)
       \/ \E export \in Exports, kept \in SUBSET Keys : ImportCollection(t, export, kept)
       \/ \E n \in DOMAIN tab[t].requests : Fail(t, n)
  \/ \E g \in Games : DeleteGame(g)

Spec == Init /\ [][Next]_vars
-----------------------------------------------------------------------------
(* What a list lost or gained in this step. *)
Lost(k) == ToSet(stored[k]) \ ToSet(stored'[k])
Gained(k) == ToSet(stored'[k]) \ ToSet(stored[k])

(***************************************************************************)
(* Only what was asked for: a favourite goes because a heart that showed   *)
(* it full was pressed, or because the server has lost the game; it comes  *)
(* because an empty heart was pressed or a file was imported.  However     *)
(* late an answer, it brings nothing back and takes nothing newer away,    *)
(* from either list (favorites.js:333).                                    *)
(***************************************************************************)
Pressed(g, heart) == \E t \in Tabs : /\ tab[t].hearts[g] = heart /\ acts' # acts
                                     /\ tab'[t].hearts[g] # heart
OnlyAskedFor == [][
  /\ \A g \in Lost("favorites") \cap catalogue : Pressed(g, "on")
  /\ imports' = imports => \A g \in Gained("favorites") : Pressed(g, "off")
  /\ acts' = acts =>
       \A k \in Keys : Lost(k) \cap catalogue = {} /\ Gained(k) = {}]_vars

(***************************************************************************)
(* A tab tells the truth: once it has heard every other tab, its number is *)
(* that of storage and so are a homepage's hearts; once its newest renders *)
(* have drawn too, so are the profile's hearts, its lists and its counts,  *)
(* whatever older answers came after newer ones.  (An import redraws the   *)
(* profile's hearts with their cards, not before.)  Games the server has   *)
(* lost are left aside: a card stays until the next render.                *)
(***************************************************************************)
SameGames(list, k) == list.games \cap catalogue = ToSet(stored[k]) \cap catalogue
DisplayTrue == \A t \in Tabs : tab[t].page = "open" /\ t \notin news =>
  LET d == tab[t]
      drawn == \A h \in d.hydrations : h.where = "superseded"
  IN
  /\ d.badge = Cardinality(Favorites)
  /\ drawn \/ t \notin Profile =>
       \A g \in catalogue : d.hearts[g] \in {"none", Heart(Favorites, g)}
  /\ drawn => \A w \in Containers(t) :
       CASE w = "strip" -> d.shown[w].games \cap catalogue \subseteq ToSet(stored["played"])
         [] w = "stats" -> \A k \in DOMAIN d.shown[w] : SameGames(d.shown[w][k], k)
         [] OTHER -> d.shown[w].state = "drawn" => SameGames(d.shown[w], w)
=============================================================================
