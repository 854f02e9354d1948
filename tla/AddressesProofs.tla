--------------------------- MODULE AddressesProofs ---------------------------
(***************************************************************************)
(* The addresses of games, for any titles, catalogues, ids and saves.      *)
(*                                                                         *)
(* First the registry of numbers: it names whom the router opens, however  *)
(* many saves overtake each other.  It follows from the keys alone: one    *)
(* live game and one history at a slug, and no history without its game.   *)
(*                                                                         *)
(* Then what an address leads to, as long as at most one other save lands  *)
(* between a save's reads and its write.                                   *)
(***************************************************************************)
EXTENDS Addresses, FiniteSetTheorems, WellFoundedInduction, TLAPS

Rows == [title : Titles, slug : Slugs]
Requests ==
  [phase : {"idle", "current", "history", "ids", "write"}, id : Ids \cup {Nobody},
   title : Titles \cup {NoTitle}, slug : Slugs, spare : Slugs, tries : Nat, over : Nat]

SaveTyped ==
  /\ save \in [Saves -> Requests]
  /\ \A s \in Saves : /\ save[s].phase # "idle" => save[s].title \in Titles
                      /\ save[s].phase = "current" => save[s].id \in Ids

Typed ==
  /\ game \in [Ids -> Rows \cup {NoGame}]
  /\ history \in [Ids -> SUBSET Slugs]
  /\ \A g \in Ids : IsFiniteSet(history[g])
  /\ address \in [Ids -> Ids \cup {Nobody}]
  /\ SaveTyped

(* games_slug_key, and the keys of game_slugs *)
LiveOnce ==
  \A g, h \in Ids : Live(g) /\ Live(h) /\ game[g].slug = game[h].slug => g = h
PastOnce == \A g, h \in Ids : history[g] \cap history[h] # {} => g = h
PastOwned == \A g \in Ids : ~Live(g) => history[g] = {}

Keys == Typed /\ LiveOnce /\ PastOnce /\ PastOwned
RegistryInv == Keys /\ RegistryMatchesRouter

----------------------------------------------------------------------------
(* Slugs and numbers *)

LEMMA Tails ==
  ASSUME NEW S, NEW t \in Seq(S), NEW n \in S
  PROVE  /\ <<n>> \in Seq(S)
         /\ Append(t, n) \in Seq(S)
         /\ Len(Append(t, n)) = Len(t) + 1 /\ Len(t) \in Nat
         /\ Append(t, n)[Len(t) + 1] = n
         /\ Len(t) = 0 => t = <<>>
  OBVIOUS

LEMMA SlugIs ==
  /\ \A slug \in Slugs : /\ slug = [word |-> slug.word, tail |-> slug.tail]
                        /\ slug.word \in Words /\ slug.tail \in Seq(Nat \ {0})
  /\ \A w \in Words, t \in Seq(Nat \ {0}) : [word |-> w, tail |-> t] \in Slugs
  BY DEF Slugs

LEMMA Numerals ==
  /\ \A n \in Ids : Numeral(n) \in Slugs /\ Spells(Numeral(n), n)
  /\ \A slug \in Slugs, n \in Ids : Spells(slug, n) => slug = Numeral(n)
  /\ \A m, n : Numeral(m) = Numeral(n) => m = n
<1>1. ASSUME NEW n \in Ids PROVE Numeral(n) \in Slugs /\ Spells(Numeral(n), n)
  <2>1. n \in Nat \ {0}
    <3>1. MaxId \in Nat BY AddressConstants
    <3>. QED BY <3>1 DEF Ids
  <2>2. <<n>> \in Seq(Nat \ {0})
    <3> DEFINE S == Nat \ {0}
    <3>1. n \in S BY <2>1
    <3> HIDE DEF S
    <3>2. <<n>> \in Seq(S) BY <3>1
    <3>. QED BY <3>2 DEF S
  <2>3. "" \in Words BY AddressConstants
  <2>4. Numeral(n) \in Slugs BY <2>2, <2>3, SlugIs DEF Numeral
  <2>5. Spells(Numeral(n), n) BY DEF Numeral, Spells
  <2>. QED BY <2>4, <2>5
<1>2. ASSUME NEW slug \in Slugs, NEW n \in Ids, Spells(slug, n) PROVE slug = Numeral(n)
  <2>1. slug.word = "" /\ slug.tail = <<n>> BY <1>2 DEF Spells
  <2>2. slug = [word |-> slug.word, tail |-> slug.tail] BY SlugIs
  <2>3. slug = [word |-> "", tail |-> <<n>>] BY <2>1, <2>2
  <2>. QED BY <2>3 DEF Numeral
<1>3. ASSUME NEW m, NEW n, Numeral(m) = Numeral(n) PROVE m = n
  <2>1. <<m>> = <<n>> BY <1>3 DEF Numeral
  <2>. QED BY <2>1
<1>. QED BY <1>1, <1>2, <1>3

(* A suffix makes another slug, and never a number. *)
LEMMA Suffixes ==
  ASSUME NEW base \in Slugs
  PROVE  /\ \A n \in Nat \ {0} : Suffixed(base, n) \in Slugs
         /\ \A m, n \in Nat \ {0} : Suffixed(base, m) = Suffixed(base, n) => m = n
         /\ base # NoSlug => \A m \in Nat \ {0} : \A n : Suffixed(base, m) # Numeral(n)
<1> DEFINE S == Nat \ {0}
<1>0. /\ base = [word |-> base.word, tail |-> base.tail]
      /\ base.word \in Words /\ base.tail \in Seq(S)
  BY SlugIs
<1>1. ASSUME NEW n
      PROVE  Suffixed(base, n) = [word |-> base.word, tail |-> Append(base.tail, n)]
  <2>1. [base EXCEPT !.tail = Append(@, n)] = [word |-> base.word, tail |-> Append(base.tail, n)]
    <3>1. PICK w, t : base = [word |-> w, tail |-> t] BY <1>0
    <3>2. [base EXCEPT !.tail = Append(base.tail, n)] = [word |-> w, tail |-> Append(t, n)]
      BY <3>1
    <3>. QED BY <3>1, <3>2
  <2>. QED BY <2>1 DEF Suffixed
<1>2. ASSUME NEW w \in Words, NEW t \in Seq(S) PROVE [word |-> w, tail |-> t] \in Slugs
  BY SlugIs
<1> HIDE DEF S
<1>3. \A n \in S : Suffixed(base, n) \in Slugs
  <2>1. \A n \in S : Append(base.tail, n) \in Seq(S) BY <1>0, Tails
  <2>. QED BY <1>0, <1>1, <1>2, <2>1
<1>4. ASSUME NEW m \in S, NEW n \in S, Suffixed(base, m) = Suffixed(base, n)
      PROVE  m = n
  <2>1. Append(base.tail, m) = Append(base.tail, n) BY <1>1, <1>4
  <2>2. /\ Append(base.tail, m)[Len(base.tail) + 1] = m
        /\ Append(base.tail, n)[Len(base.tail) + 1] = n
    BY <1>0, Tails
  <2>. QED BY <2>1, <2>2
<1>5. ASSUME base # NoSlug, NEW m \in S, NEW n, Suffixed(base, m) = Numeral(n)
      PROVE  FALSE
  <2>1. base.word = "" /\ Append(base.tail, m) = <<n>> 
    <3>1. [word |-> base.word, tail |-> Append(base.tail, m)] = [word |-> "", tail |-> <<n>>]
      BY <1>1, <1>5 DEF Numeral
    <3>. QED BY <3>1
  <2>2. Len(base.tail) + 1 = 1
    <3>1. Len(<<n>>) = 1 OBVIOUS
    <3>2. Len(Append(base.tail, m)) = Len(base.tail) + 1 BY <1>0, Tails
    <3>. QED BY <2>1, <3>1, <3>2
  <2>3. base.tail = <<>>
    <3>1. Len(base.tail) \in Nat BY <1>0, <1>5, Tails
    <3>2. Len(base.tail) = 0 BY <2>2, <3>1
    <3>. QED BY <1>0, <1>5, <3>2, Tails
  <2>4. base = [word |-> "", tail |-> <<>>] BY <1>0, <2>1, <2>3
  <2>. QED BY <1>5, <2>4 DEF NoSlug
<1>. QED BY <1>3, <1>4, <1>5 DEF S

----------------------------------------------------------------------------
(* Whom the router opens *)

LEMMA NobodyIsNoId == Nobody \notin Ids
  BY DEF Nobody, Ids

LEMMA AnswererLive ==
  ASSUME NEW games, NEW past, NEW slug, NEW g \in Ids,
         games[g] # NoGame, games[g].slug = slug,
         \A h \in Ids : games[h] # NoGame /\ games[h].slug = slug => h = g
  PROVE  Answerer(games, past, slug) = g
<1>1. {h \in Ids : games[h] # NoGame /\ games[h].slug = slug} = {g} OBVIOUS
<1>. QED BY <1>1 DEF Answerer

LEMMA AnswererPast ==
  ASSUME NEW games, NEW past, NEW slug, NEW g \in Ids, slug \in past[g],
         \A h \in Ids : ~(games[h] # NoGame /\ games[h].slug = slug),
         \A h \in Ids : slug \in past[h] => h = g
  PROVE  Answerer(games, past, slug) = g
<1>1. {h \in Ids : games[h] # NoGame /\ games[h].slug = slug} = {} OBVIOUS
<1>2. {h \in Ids : slug \in past[h]} = {g} OBVIOUS
<1>. QED BY <1>1, <1>2 DEF Answerer

LEMMA AnswererId ==
  ASSUME NEW games, NEW past, NEW g \in Ids, games[g] # NoGame,
         \A h \in Ids : ~(games[h] # NoGame /\ games[h].slug = Numeral(g)),
         \A h \in Ids : Numeral(g) \notin past[h]
  PROVE  Answerer(games, past, Numeral(g)) = g
<1>1. {h \in Ids : games[h] # NoGame /\ games[h].slug = Numeral(g)} = {} OBVIOUS
<1>2. {h \in Ids : Numeral(g) \in past[h]} = {} OBVIOUS
<1>3. {h \in Ids : games[h] # NoGame /\ Spells(Numeral(g), h)} = {g}
  <2>1. \A h \in Ids : Spells(Numeral(g), h) => h = g BY Numerals
  <2>. QED BY <2>1, Numerals
<1>. QED BY <1>1, <1>2, <1>3 DEF Answerer

(* Answerer's choice among those who are live, retired, or there by id *)
Best(live, retired, byId) ==
  LET best == IF live # {} THEN live ELSE IF retired # {} THEN retired ELSE byId
  IN  IF best = {} THEN Nobody ELSE CHOOSE g \in best : TRUE

LEMMA AnswererIs ==
  ASSUME NEW games, NEW past, NEW slug
  PROVE  Answerer(games, past, slug) =
           Best({g \in Ids : games[g] # NoGame /\ games[g].slug = slug},
                {g \in Ids : slug \in past[g]},
                {g \in Ids : games[g] # NoGame /\ Spells(slug, g)})
  BY DEF Answerer, Best

LEMMA AnswererSame ==
  ASSUME NEW games, NEW past, NEW games2, NEW past2, NEW n \in Ids,
         \A h \in Ids : (games[h] # NoGame /\ games[h].slug = Numeral(n))
                          <=> (games2[h] # NoGame /\ games2[h].slug = Numeral(n)),
         \A h \in Ids : Numeral(n) \in past[h] <=> Numeral(n) \in past2[h],
         games[n] # NoGame <=> games2[n] # NoGame
  PROVE  Answerer(games, past, Numeral(n)) = Answerer(games2, past2, Numeral(n))
<1>1. {h \in Ids : games[h] # NoGame /\ games[h].slug = Numeral(n)}
        = {h \in Ids : games2[h] # NoGame /\ games2[h].slug = Numeral(n)}
  OBVIOUS
<1>2. {h \in Ids : Numeral(n) \in past[h]} = {h \in Ids : Numeral(n) \in past2[h]}
  OBVIOUS
<1>3. {h \in Ids : games[h] # NoGame /\ Spells(Numeral(n), h)}
        = {h \in Ids : games2[h] # NoGame /\ Spells(Numeral(n), h)}
  <2>1. \A h \in Ids : Spells(Numeral(n), h) => h = n BY Numerals
  <2>. QED BY <2>1
<1>. QED BY <1>1, <1>2, <1>3, AnswererIs, Zenon

LEMMA AnswererTyped ==
  ASSUME NEW games, NEW past, NEW slug
  PROVE  Answerer(games, past, slug) \in Ids \cup {Nobody}
<1> DEFINE live == {g \in Ids : games[g] # NoGame /\ games[g].slug = slug}
           retired == {g \in Ids : slug \in past[g]}
           byId == {g \in Ids : games[g] # NoGame /\ Spells(slug, g)}
           best == IF live # {} THEN live ELSE IF retired # {} THEN retired ELSE byId
<1>1. best \subseteq Ids OBVIOUS
<1>2. Answerer(games, past, slug) = IF best = {} THEN Nobody ELSE CHOOSE g \in best : TRUE
  BY DEF Answerer
<1> HIDE DEF best
<1>3. best # {} => (CHOOSE g \in best : TRUE) \in best OBVIOUS
<1>. QED BY <1>1, <1>2, <1>3

----------------------------------------------------------------------------
(* What a save chooses *)

LEMMA Least ==
  ASSUME NEW V, IsFiniteSet(V), NEW T \in SUBSET SUBSET V, T # {}
  PROVE  \E s \in T : \A u \in T : u \subseteq s => u = s
<1>1. FiniteSubsetsOf(V) = SUBSET V BY FS_FiniteSubsetsOfFinite
<1>2. IsWellFoundedOn(StrictSubsetOrdering(V), SUBSET V)
  BY <1>1, FS_StrictSubsetOrderingWellFounded
<1>3. PICK s \in T : \A u \in T : <<u, s>> \notin StrictSubsetOrdering(V)
  <2> HIDE DEF StrictSubsetOrdering
  <2>1. T \subseteq SUBSET V OBVIOUS
  <2>. QED BY <1>2, <2>1, WFMin, Zenon
<1>. QED BY <1>3 DEF StrictSubsetOrdering

(* There is a suffix nobody has, and it is a slug like any other. *)
LEMMA FirstFreeIs ==
  ASSUME NEW base \in Slugs, NEW taken, IsFiniteSet(taken)
  PROVE  \E n \in Nat \ {0} : /\ FirstFree(base, taken) = Suffixed(base, n)
                             /\ Suffixed(base, n) \notin taken
<1> DEFINE k == Cardinality(taken)
           V == 2..(k + 2)
           Free(n) == Suffixed(base, n) \notin taken
<1>1. k \in Nat BY FS_CardinalityType
<1>2. IsFiniteSet(V) /\ Cardinality(V) = k + 1 /\ V \subseteq Nat \ {0}
  <2>1. 2 \in Int /\ k + 2 \in Int BY <1>1
  <2>2. V \subseteq Nat \ {0} BY <1>1
  <2> HIDE DEF k
  <2>. QED BY <1>1, <2>1, <2>2, FS_Interval
<1>3. \E n \in V : Free(n)
  <2> SUFFICES ASSUME \A n \in V : Suffixed(base, n) \in taken PROVE FALSE
    OBVIOUS
  <2> DEFINE f == [n \in V |-> Suffixed(base, n)]
  <2>1. f \in [V -> taken] OBVIOUS
  <2>2. \A m, n \in V : f[m] = f[n] => m = n BY <1>2, Suffixes
  <2>3. Cardinality(taken) < Cardinality(V) BY <1>1, <1>2
  <2> HIDE DEF f, V
  <2>4. IsFiniteSet(V) BY <1>2
  <2>5. \E m, n \in V : m # n /\ f[m] = f[n]
    BY <2>1, <2>3, <2>4, FS_PigeonHole
  <2>. QED BY <2>2, <2>5
<1>4. \E n \in V : Free(n) /\ \A m \in 2..(n - 1) : ~Free(m)
  <2> DEFINE T == {2..n : n \in {m \in V : Free(m)}}
  <2>1. T # {} BY <1>3
  <2>2. T \in SUBSET SUBSET V BY <1>1
  <2>3. PICK u \in T : \A v \in T : v \subseteq u => v = u
    <3>1. IsFiniteSet(V) BY <1>2
    <3> HIDE DEF T, V
    <3>. QED BY <2>1, <2>2, <3>1, Least
  <2>4. PICK n \in V : Free(n) /\ u = 2..n OBVIOUS
  <2>5. ASSUME NEW m \in 2..(n - 1), Free(m) PROVE FALSE
    <3>1. m \in V /\ m \in Int /\ n \in Int BY <1>1, <1>2, <2>4, <2>5
    <3>2. 2..m \in T BY <2>5, <3>1
    <3>3. 2..m \subseteq u /\ n \in u /\ n \notin 2..m BY <2>4, <2>5, <3>1
    <3>. QED BY <2>3, <3>2, <3>3
  <2>. QED BY <2>4, <2>5
<1> DEFINE n == CHOOSE m \in V : Free(m) /\ \A i \in 2..(m - 1) : ~Free(i)
<1>5. n \in V /\ Free(n) BY <1>4
<1>6. FirstFree(base, taken) = Suffixed(base, n) BY DEF FirstFree
<1>. QED BY <1>2, <1>5, <1>6

----------------------------------------------------------------------------
(* The registry of numbers *)

LEMMA NoGameIsNoRow == NoGame \notin Rows
  BY AddressConstants DEF NoGame, NoTitle, Rows

LEMMA RegistryInit == Init => RegistryInv
<1> SUFFICES ASSUME Init PROVE RegistryInv
  OBVIOUS
<1>1. PICK c \in Catalogues :
        /\ game = c.game /\ history = c.history
        /\ address = Refreshed(Ids, c.game, c.history, [n \in Ids |-> Nobody])
        /\ save = [s \in Saves |-> Idle]
  BY DEF Init
<1>2. Keyed(c) BY CatalogueAssumption
<1>3. \A n \in Ids : address[n] = Answerer(game, history, Numeral(n))
  BY <1>1 DEF Refreshed
<1>4. address \in [Ids -> Ids \cup {Nobody}]
  BY <1>1, AnswererTyped DEF Refreshed
<1>5. Idle \in Requests
  <2>1. NoSlug \in Slugs
    <3>1. <<>> \in Seq(Nat \ {0}) OBVIOUS
    <3>. QED BY <3>1, AddressConstants, SlugIs DEF NoSlug
  <2>. QED BY <2>1 DEF Idle, Requests
<1>6. Typed BY <1>1, <1>2, <1>4, <1>5 DEF Typed, SaveTyped, Keyed, Rows, Idle
<1>7. LiveOnce
  <2> SUFFICES ASSUME NEW g \in Ids, NEW h \in Ids, Live(g), Live(h),
                      game[g].slug = game[h].slug, g # h
               PROVE  FALSE
    BY DEF LiveOnce
  <2>. QED BY <1>1, <1>2 DEF Keyed, Live
<1>8. PastOnce /\ PastOwned BY <1>1, <1>2 DEF Keyed, PastOnce, PastOwned, Live
<1>. QED BY <1>3, <1>6, <1>7, <1>8 DEF RegistryInv, Keys, RegistryMatchesRouter, Leads

(* An owner on record is a game that is there. *)
LEMMA OwnerLives ==
  ASSUME RegistryInv, NEW n \in Ids, address[n] # Nobody
  PROVE  address[n] \in Ids /\ Live(address[n])
<1> DEFINE live == {g \in Ids : game[g] # NoGame /\ game[g].slug = Numeral(n)}
           retired == {g \in Ids : Numeral(n) \in history[g]}
           byId == {g \in Ids : game[g] # NoGame /\ Spells(Numeral(n), g)}
<1>1. address[n] = Best(live, retired, byId)
  BY AnswererIs DEF RegistryInv, RegistryMatchesRouter, Leads
<1>2. \A g \in live \cup retired \cup byId : g \in Ids /\ Live(g)
  BY DEF RegistryInv, Keys, PastOwned, Live
<1> HIDE DEF live, retired, byId
<1>3. address[n] \in live \cup retired \cup byId BY <1>1 DEF Best
<1>. QED BY <1>2, <1>3

(* What a landing does to the game it lands on, and to the history. *)
LEMMA LandsOn ==
  ASSUME RegistryInv, NEW s \in Saves, NEW g \in Ids, Lands(s, g), save[s].title \in Titles
  PROVE  LET slug == save[s].slug IN
         /\ slug \in Slugs
         /\ game' \in [Ids -> Rows \cup {NoGame}] /\ game'[g] \in Rows /\ game'[g].slug = slug
         /\ \A h \in Ids : h # g => game'[h] = game[h]
         /\ game'[g] # NoGame
         /\ history' \in [Ids -> SUBSET Slugs] /\ \A h \in Ids : IsFiniteSet(history'[h])
         /\ \A h \in Ids \ {g} : history'[h] = history[h]
         /\ history'[g] \subseteq history[g] \cup {slug} /\ history[g] \subseteq history'[g]
         /\ slug \in history'[g] \/ \E h \in Ids : slug \in history[h]
         /\ \A h \in Ids : slug \in history[h] => history' = history
<1> DEFINE slug == save[s].slug
<1>0. slug \in Slugs BY DEF RegistryInv, Keys, Typed, SaveTyped, Requests
<1>1. game' = [game EXCEPT ![g] = [title |-> save[s].title, slug |-> slug]]
  BY DEF Lands
<1>2. history' = Recorded(g, slug) BY DEF Lands
<1> HIDE DEF slug
<1>4. /\ game' \in [Ids -> Rows \cup {NoGame}] /\ game'[g] \in Rows /\ game'[g].slug = slug
      /\ \A h \in Ids : h # g => game'[h] = game[h]
  <2>1. [title |-> save[s].title, slug |-> slug] \in Rows BY <1>0 DEF Rows
  <2>. QED BY <1>1, <2>1 DEF RegistryInv, Keys, Typed
<1>5. game'[g] # NoGame BY <1>4, NoGameIsNoRow
<1>6. /\ history' \in [Ids -> SUBSET Slugs] /\ \A h \in Ids : IsFiniteSet(history'[h])
      /\ \A h \in Ids \ {g} : history'[h] = history[h]
      /\ history'[g] \subseteq history[g] \cup {slug} /\ history[g] \subseteq history'[g]
      /\ slug \in history'[g] \/ \E h \in Ids : slug \in history[h]
      /\ \A h \in Ids : slug \in history[h] => history' = history
  <2>1. CASE HeldBy(slug) = {}
    <3>1. history' = [history EXCEPT ![g] = @ \cup {slug}] BY <1>2, <2>1 DEF Recorded
    <3>2. history \in [Ids -> SUBSET Slugs] /\ \A h \in Ids : IsFiniteSet(history[h])
      BY DEF RegistryInv, Keys, Typed
    <3>3. history'[g] = history[g] \cup {slug} /\ \A h \in Ids \ {g} : history'[h] = history[h]
      BY <3>1, <3>2
    <3>4. IsFiniteSet(history'[g]) BY <3>2, <3>3, FS_AddElement
    <3>5. history' \in [Ids -> SUBSET Slugs] BY <1>0, <3>1, <3>2
    <3>. QED BY <2>1, <3>2, <3>3, <3>4, <3>5 DEF HeldBy
  <2>2. CASE HeldBy(slug) # {}
    <3>1. history' = history BY <1>2, <2>2 DEF Recorded
    <3>. QED BY <2>2, <3>1 DEF HeldBy, RegistryInv, Keys, Typed
  <2>. QED BY <2>1, <2>2
<1>. QED BY <1>0, <1>4, <1>5, <1>6 DEF slug

(* A save lands: whom it lands on has its slug alone, and, when it is new, *)
(* a number nobody had.                                                    *)
LEMMA Landing ==
  ASSUME RegistryInv, NEW s \in Saves, NEW g \in Ids, Lands(s, g),
         save[s].title \in Titles,
         \A h \in Ids \ {g} : Live(h) => game[h].slug # save[s].slug,
         ~Live(g) => address[g] = Nobody
  PROVE  /\ game' \in [Ids -> Rows \cup {NoGame}]
         /\ history' \in [Ids -> SUBSET Slugs] /\ \A h \in Ids : IsFiniteSet(history'[h])
         /\ address' \in [Ids -> Ids \cup {Nobody}]
         /\ LiveOnce' /\ PastOnce' /\ PastOwned' /\ RegistryMatchesRouter'
<1> DEFINE slug == save[s].slug
           left == Spelt({game[g].slug} \ {slug})
           claimed == [n \in Ids |-> IF n \in Spelt({slug}) \cup (IF Live(g) THEN {} ELSE {g})
                                     THEN g ELSE address[n]]
<1>0. slug \in Slugs BY LandsOn
<1>3. address' = [n \in Ids |-> IF n \in left THEN Answerer(game', history', Numeral(n))
                               ELSE claimed[n]]
  BY DEF Lands, Refreshed
<1>4. /\ game' \in [Ids -> Rows \cup {NoGame}] /\ game'[g] \in Rows /\ game'[g].slug = slug
      /\ \A h \in Ids : h # g => game'[h] = game[h]
  BY LandsOn
<1>5. game'[g] # NoGame BY LandsOn
<1>6. /\ history' \in [Ids -> SUBSET Slugs] /\ \A h \in Ids : IsFiniteSet(history'[h])
      /\ \A h \in Ids \ {g} : history'[h] = history[h]
      /\ history'[g] \subseteq history[g] \cup {slug} /\ history[g] \subseteq history'[g]
      /\ \A h \in Ids : slug \in history[h] => history' = history
  BY LandsOn
<1> HIDE DEF slug
<1>7. LiveOnce'
  <2>1. \A h \in Ids \ {g} : Live(h) => game[h].slug # slug BY DEF slug
  <2>. QED BY <1>4, <2>1 DEF LiveOnce, Live, RegistryInv, Keys
<1>8. PastOnce'
  <2> SUFFICES ASSUME NEW h \in Ids, NEW i \in Ids, NEW x, x \in history'[h], x \in history'[i]
               PROVE  h = i
    BY DEF PastOnce
  <2>1. \A j, k \in Ids : x \in history[j] /\ x \in history[k] => j = k
    BY DEF RegistryInv, Keys, PastOnce
  <2>2. CASE \E j \in Ids : slug \in history[j] BY <1>6, <2>1, <2>2
  <2>3. CASE ~ \E j \in Ids : slug \in history[j] BY <1>6, <2>1, <2>3
  <2>. QED BY <2>2, <2>3
<1>9. PastOwned'
  <2> SUFFICES ASSUME NEW h \in Ids, game'[h] = NoGame PROVE history'[h] = {}
    BY DEF PastOwned, Live
  <2>. QED BY <1>4, <1>5, <1>6 DEF RegistryInv, Keys, PastOwned, Live
<1>10. ASSUME NEW n \in Ids PROVE address'[n] = Answerer(game', history', Numeral(n))
  <2>1. CASE n \in left BY <1>3, <2>1
  <2>2. CASE n \notin left /\ slug = Numeral(n)
    <3>1. n \in Spelt({slug}) BY <2>2, Numerals DEF Spelt
    <3>2. address'[n] = g BY <1>3, <2>2, <3>1
    <3>3. \A h \in Ids : game'[h] # NoGame /\ game'[h].slug = Numeral(n) => h = g
      BY <1>4, <1>7, <1>5, <2>2 DEF LiveOnce, Live
    <3>4. game'[g].slug = Numeral(n) BY <1>4, <2>2
    <3>5. {h \in Ids : game'[h] # NoGame /\ game'[h].slug = Numeral(n)} = {g}
      BY <1>5, <3>3, <3>4
    <3>6. Answerer(game', history', Numeral(n)) = g BY <3>5, AnswererIs DEF Best
    <3>. QED BY <3>2, <3>6
  <2>3. CASE n \notin left /\ slug # Numeral(n) /\ ~Live(g) /\ n = g
    <3>1. address'[n] = g BY <1>3, <2>3
    <3>2. address[g] = Nobody BY <2>3
    <3>3. /\ \A h \in Ids : ~(game[h] # NoGame /\ game[h].slug = Numeral(g))
          /\ \A h \in Ids : Numeral(g) \notin history[h]
      <4> DEFINE live == {h \in Ids : game[h] # NoGame /\ game[h].slug = Numeral(g)}
                 retired == {h \in Ids : Numeral(g) \in history[h]}
                 byId == {h \in Ids : game[h] # NoGame /\ Spells(Numeral(g), h)}
      <4>1. Nobody = Best(live, retired, byId)
        BY <3>2, AnswererIs DEF RegistryInv, RegistryMatchesRouter, Leads
      <4>2. live \subseteq Ids /\ retired \subseteq Ids OBVIOUS
      <4>3. live = {} /\ retired = {}
        <5> HIDE DEF live, retired, byId
        <5>. QED BY <4>1, <4>2, NobodyIsNoId DEF Best
      <4>. QED BY <4>3
    <3>4. \A h \in Ids : ~(game'[h] # NoGame /\ game'[h].slug = Numeral(g))
      BY <1>4, <2>3, <3>3
    <3>5. \A h \in Ids : Numeral(g) \notin history'[h] BY <1>6, <2>3, <3>3
    <3>. QED BY <1>5, <2>3, <3>1, <3>4, <3>5, AnswererId
  <2>4. CASE n \notin left /\ slug # Numeral(n) /\ (Live(g) \/ n # g)
    <3>1. n \notin Spelt({slug}) BY <1>0, <2>4, Numerals DEF Spelt
    <3>2. address'[n] = address[n] BY <1>3, <2>4, <3>1
    <3>3. ~(game[g] # NoGame /\ game[g].slug = Numeral(n))
      BY <2>4, Numerals DEF Spelt
    <3>4. \A h \in Ids : (game[h] # NoGame /\ game[h].slug = Numeral(n))
                          <=> (game'[h] # NoGame /\ game'[h].slug = Numeral(n))
      BY <1>4, <2>4, <3>3
    <3>5. \A h \in Ids : Numeral(n) \in history[h] <=> Numeral(n) \in history'[h]
      BY <1>6, <2>4
    <3>6. game[n] # NoGame <=> game'[n] # NoGame BY <1>4, <1>5, <2>4 DEF Live
    <3>7. Answerer(game, history, Numeral(n)) = Answerer(game', history', Numeral(n))
      BY <3>4, <3>5, <3>6, AnswererSame
    <3>. QED BY <3>2, <3>7 DEF RegistryInv, RegistryMatchesRouter, Leads
  <2>. QED BY <2>1, <2>2, <2>3, <2>4
<1>11. address' \in [Ids -> Ids \cup {Nobody}]
  <2>1. \A n \in Ids : address'[n] \in Ids \cup {Nobody} BY <1>10, AnswererTyped
  <2>. QED BY <1>3, <2>1
<1>12. RegistryMatchesRouter' BY <1>10 DEF RegistryMatchesRouter, Leads
<1>. QED BY <1>4, <1>6, <1>7, <1>8, <1>9, <1>11, <1>12

(* A game goes: whatever number it had is released. *)
LEMMA Deletion ==
  ASSUME RegistryInv, NEW g \in Ids, Delete(g)
  PROVE  RegistryInv'
<1> DEFINE freed == {n \in Ids : address[n] = g} \cup {g} \cup Spelt({game[g].slug} \cup history[g])
<1>1. /\ game' = [game EXCEPT ![g] = NoGame] /\ history' = [history EXCEPT ![g] = {}]
      /\ address' = [n \in Ids |-> IF n \in freed THEN Answerer(game', history', Numeral(n))
                                  ELSE address[n]]
      /\ save' = save
  BY DEF Delete, Refreshed
<1>2. /\ game \in [Ids -> Rows \cup {NoGame}] /\ history \in [Ids -> SUBSET Slugs]
      /\ \A h \in Ids : IsFiniteSet(history[h])
  BY DEF RegistryInv, Keys, Typed
<1>3. /\ game'[g] = NoGame /\ history'[g] = {}
      /\ \A h \in Ids \ {g} : game'[h] = game[h] /\ history'[h] = history[h]
  BY <1>1, <1>2
<1>4. ASSUME NEW n \in Ids PROVE address'[n] = Answerer(game', history', Numeral(n))
  <2>1. CASE n \in freed BY <1>1, <2>1
  <2>2. CASE n \notin freed
    <3>1. address'[n] = address[n] /\ n # g /\ n \notin Spelt({game[g].slug} \cup history[g])
      BY <1>1, <2>2
    <3>2. Numeral(n) \notin {game[g].slug} \cup history[g] BY <3>1, Numerals DEF Spelt
    <3> HIDE DEF freed
    <3>3. \A h \in Ids : (game[h] # NoGame /\ game[h].slug = Numeral(n))
                          <=> (game'[h] # NoGame /\ game'[h].slug = Numeral(n))
      BY <1>3, <3>2
    <3>4. \A h \in Ids : Numeral(n) \in history[h] <=> Numeral(n) \in history'[h]
      BY <1>3, <3>2
    <3>5. game[n] # NoGame <=> game'[n] # NoGame BY <1>3, <3>1
    <3>6. Answerer(game, history, Numeral(n)) = Answerer(game', history', Numeral(n))
      BY <3>3, <3>4, <3>5, AnswererSame
    <3>. QED BY <3>1, <3>6 DEF RegistryInv, RegistryMatchesRouter, Leads
  <2>. QED BY <2>1, <2>2
<1>5. address' \in [Ids -> Ids \cup {Nobody}]
  <2>1. \A n \in Ids : address'[n] \in Ids \cup {Nobody} BY <1>4, AnswererTyped
  <2>. QED BY <1>1, <2>1
<1>6. Typed'
  <2>1. game' \in [Ids -> Rows \cup {NoGame}] /\ history' \in [Ids -> SUBSET Slugs]
    BY <1>1, <1>2
  <2>2. \A h \in Ids : IsFiniteSet(history'[h]) BY <1>2, <1>3, FS_EmptySet
  <2>. QED BY <1>1, <1>5, <2>1, <2>2 DEF RegistryInv, Keys, Typed, SaveTyped
<1>7. LiveOnce' /\ PastOnce' /\ PastOwned'
  BY <1>3 DEF RegistryInv, Keys, LiveOnce, PastOnce, PastOwned, Live
<1>8. RegistryMatchesRouter' BY <1>4 DEF RegistryMatchesRouter, Leads
<1>. QED BY <1>6, <1>7, <1>8 DEF RegistryInv, Keys

Phases == {"idle", "current", "history", "ids", "write"}

(* A request moves on: only what the step names changes. *)
Moved(r, q, p) ==
  /\ q \in Requests /\ q.phase = p
  /\ q.id = r.id /\ q.title = r.title /\ q.over = r.over

Moving(r, p) == [r EXCEPT !.phase = p]
Choosing(r, p, x) == [r EXCEPT !.phase = p, !.slug = x]
Sparing(r, p, x, y) == [r EXCEPT !.phase = p, !.slug = x, !.spare = y]
Settling(r, owned, y) ==
  [r EXCEPT !.phase = "write", !.slug = IF owned THEN r.spare ELSE r.slug, !.spare = y]
Fresh(p, i, t, m) == [Idle EXCEPT !.phase = p, !.id = i, !.title = t, !.tries = m]

LEMMA Moves ==
  ASSUME NEW r \in Requests, NEW p \in Phases, NEW x \in Slugs, NEW y \in Slugs
  PROVE  /\ Moved(r, Moving(r, p), p)
         /\ Moved(r, Choosing(r, p, x), p) /\ Choosing(r, p, x).slug = x
         /\ Moved(r, Sparing(r, p, x, y), p)
         /\ Sparing(r, p, x, y).slug = x /\ Sparing(r, p, x, y).spare = y
         /\ \A owned \in BOOLEAN :
              /\ Moved(r, Settling(r, owned, y), "write")
              /\ Settling(r, owned, y).slug = IF owned THEN r.spare ELSE r.slug
<1>1. Moved(r, Moving(r, p), p) BY DEF Requests, Phases, Moved, Moving
<1>2. Moved(r, Choosing(r, p, x), p) /\ Choosing(r, p, x).slug = x
  BY DEF Requests, Phases, Moved, Choosing
<1>3. /\ Moved(r, Sparing(r, p, x, y), p)
      /\ Sparing(r, p, x, y).slug = x /\ Sparing(r, p, x, y).spare = y
  BY DEF Requests, Phases, Moved, Sparing
<1>4. ASSUME NEW owned \in BOOLEAN
      PROVE  /\ Moved(r, Settling(r, owned, y), "write")
             /\ Settling(r, owned, y).slug = IF owned THEN r.spare ELSE r.slug
  BY DEF Requests, Phases, Moved, Settling
<1>. QED BY <1>1, <1>2, <1>3, <1>4

LEMMA IdleIs == NoSlug \in Slugs /\ Idle \in Requests /\ Idle.phase = "idle"
<1>1. NoSlug \in Slugs
  <2>1. <<>> \in Seq(Nat \ {0}) OBVIOUS
  <2>. QED BY <2>1, AddressConstants, SlugIs DEF NoSlug
<1>. QED BY <1>1 DEF Idle, Requests

LEMMA StartsOver ==
  ASSUME NEW p \in {"current", "history"}, NEW i \in Ids \cup {Nobody}, NEW t \in Titles, NEW m \in Nat
  PROVE  LET q == Fresh(p, i, t, m) IN
         q \in Requests /\ q.phase = p /\ q.id = i /\ q.title = t
<1> DEFINE q == Fresh(p, i, t, m)
<1>1. q \in Requests BY IdleIs DEF Requests, Fresh
<1>2. q.phase = p /\ q.id = i /\ q.title = t BY DEF Idle, Fresh
<1>. QED BY <1>1, <1>2

(* What resolveSlug may answer with, and what it keeps in hand. *)
LEMMA Chosen ==
  ASSUME Typed, NEW s \in Saves, save[s].phase = "history"
  PROVE  LET base  == Base[save[s].title]
             spare == FirstFree(base, TakenFrom(save[s].id))
         IN  /\ base \in Slugs /\ spare \in Slugs
             /\ spare \notin TakenFrom(save[s].id)
             /\ \A n : spare # Numeral(n)
<1> DEFINE base == Base[save[s].title]
           taken == TakenFrom(save[s].id)
<1>1. base \in Slugs /\ base # NoSlug BY AddressConstants, BaseAssumption DEF Typed, SaveTyped
<1>2. IsFiniteSet(taken)
  <2> DEFINE D == {history[g] : g \in Ids \ {save[s].id}}
  <2>1. IsFiniteSet(Ids)
    <3>1. MaxId \in Nat BY AddressConstants
    <3>2. IsFiniteSet(1..MaxId) BY <3>1, FS_Interval
    <3>. QED BY <3>2 DEF Ids
  <2>2. IsFiniteSet(Ids \ {save[s].id}) BY <2>1, FS_RemoveElement
  <2>3. IsFiniteSet(D)
    <3> DEFINE O == Ids \ {save[s].id}
    <3> DEFINE f == [g \in O |-> history[g]]
    <3>1. f \in Surjection(O, D) BY DEF Surjection
    <3>. QED BY <2>2, <3>1, FS_Surjection
  <2>4. \A S \in D : IsFiniteSet(S) BY DEF Typed
  <2> HIDE DEF D
  <2>5. IsFiniteSet(UNION D) BY <2>3, <2>4, FS_UNION
  <2>. QED BY <2>5 DEF D, TakenFrom
<1> HIDE DEF base, taken
<1>3. PICK n \in Nat \ {0} : FirstFree(base, taken) = Suffixed(base, n) /\ Suffixed(base, n) \notin taken
  BY <1>1, <1>2, FirstFreeIs
<1>4. Suffixed(base, n) \in Slugs /\ \A m : Suffixed(base, n) # Numeral(m) BY <1>1, Suffixes
<1>. QED BY <1>1, <1>3, <1>4 DEF base, taken

(* Requests stay requests. *)
LEMMA Resolves ==
  ASSUME RegistryInv, NEW s \in Saves,
         \/ \E id \in Ids \cup {Nobody}, t \in Titles : Post(s, id, t)
         \/ ReadCurrent(s) \/ ReadHistory(s) \/ ReadIds(s)
         \/ UpdateNothing(s) \/ Collide(s) \/ NoIdLeft(s)
  PROVE  SaveTyped'
<1>0. SaveTyped BY DEF RegistryInv, Keys, Typed
<1>1. ASSUME NEW r \in Requests, save' = [save EXCEPT ![s] = r],
             r.phase # "idle" => r.title \in Titles,
             r.phase = "current" => r.id \in Ids
      PROVE  SaveTyped'
  BY <1>0, <1>1 DEF SaveTyped
<1>2. ASSUME save' = [save EXCEPT ![s] = Idle] PROVE SaveTyped'
  BY <1>1, <1>2, IdleIs
<1>3. ASSUME NEW p \in {"current", "history"}, NEW i \in Ids \cup {Nobody}, NEW t \in Titles, NEW m \in Nat,
             save' = [save EXCEPT ![s] = Fresh(p, i, t, m)],
             p = "current" => i \in Ids
      PROVE  SaveTyped'
  <2> DEFINE r == Fresh(p, i, t, m)
  <2>1. r \in Requests /\ r.title = t /\ r.phase = p /\ r.id = i BY StartsOver
  <2>2. save' = [save EXCEPT ![s] = r] BY <1>3
  <2> HIDE DEF r
  <2>. QED BY <1>1, <1>3, <2>1, <2>2
<1>4. ASSUME NEW r, save' = [save EXCEPT ![s] = r], r \in Requests, r.phase \in {"history", "ids", "write"},
             r.title = save[s].title, save[s].phase # "idle"
      PROVE  SaveTyped'
  BY <1>0, <1>1, <1>4 DEF SaveTyped
<1>5. ASSUME NEW id \in Ids \cup {Nobody}, NEW t \in Titles, Post(s, id, t) PROVE SaveTyped'
  <2>1. PICK p \in {"current", "history"} :
          /\ save' = [save EXCEPT ![s] = Fresh(p, id, t, 1)]
          /\ p = "current" => id \in Ids
    BY <1>5 DEF Post, Fresh
  <2>. QED BY <1>3, <2>1
<1>6. CASE ReadCurrent(s)
  <2> DEFINE x == game[save[s].id].slug
  <2>1. save[s] \in Requests /\ save[s].id \in Ids /\ save[s].phase = "current"
    BY <1>0, <1>6 DEF SaveTyped, ReadCurrent
  <2>2. CASE Keeps(game[save[s].id], save[s].title)
    <3> DEFINE r == Choosing(save[s], "write", x)
    <3>1. save' = [save EXCEPT ![s] = r] BY <1>6, <2>2 DEF ReadCurrent, Choosing, Moving
    <3>2. x \in Slugs BY <2>1, <2>2 DEF Keeps, RegistryInv, Keys, Typed, Rows
    <3>3. Moved(save[s], r, "write") BY <2>1, <3>2, Moves DEF Phases
    <3> HIDE DEF r
    <3>. QED BY <1>4, <2>1, <3>1, <3>3 DEF Moved
  <2>3. CASE ~Keeps(game[save[s].id], save[s].title)
    <3> DEFINE r == Moving(save[s], "history")
    <3>1. save' = [save EXCEPT ![s] = r] BY <1>6, <2>3 DEF ReadCurrent, Choosing, Moving
    <3>2. Moved(save[s], r, "history") BY <2>1, IdleIs, Moves DEF Phases
    <3> HIDE DEF r
    <3>. QED BY <1>4, <2>1, <3>1, <3>2 DEF Moved
  <2>. QED BY <2>2, <2>3
<1>7. CASE ReadHistory(s)
  <2> DEFINE base == Base[save[s].title]
             spare == FirstFree(base, TakenFrom(save[s].id))
             r1 == Sparing(save[s], "ids", base, spare)
             r2 == Choosing(save[s], "write", base)
             r3 == Choosing(save[s], "write", spare)
  <2>1. save[s] \in Requests /\ save[s].phase = "history"
    BY <1>0, <1>7 DEF SaveTyped, ReadHistory
  <2>2. base \in Slugs /\ spare \in Slugs BY <2>1, Chosen DEF RegistryInv, Keys
  <2>3. Moved(save[s], r1, "ids") /\ Moved(save[s], r2, "write") /\ Moved(save[s], r3, "write")
    <3> HIDE DEF base, spare
    <3>1. Moved(save[s], r1, "ids") BY <2>1, <2>2, Moves DEF Phases
    <3>2. Moved(save[s], r2, "write") /\ Moved(save[s], r3, "write")
      BY <2>1, <2>2, Moves DEF Phases
    <3>. QED BY <3>1, <3>2
  <2>4. PICK r \in {r1, r2, r3} : save' = [save EXCEPT ![s] = r]
    BY <1>7 DEF ReadHistory, Sparing, Choosing
  <2> HIDE DEF r1, r2, r3
  <2>. QED BY <1>4, <2>1, <2>3, <2>4 DEF Moved
<1>8. CASE ReadIds(s)
  <2> DEFINE owned == \E n \in Ids \ {save[s].id} : Live(n) /\ Spells(save[s].slug, n)
             r == Settling(save[s], owned, NoSlug)
  <2>1. save[s] \in Requests /\ save[s].phase = "ids"
    BY <1>0, <1>8 DEF SaveTyped, ReadIds
  <2>2. save' = [save EXCEPT ![s] = r] BY <1>8 DEF ReadIds, Settling
  <2>3. owned \in BOOLEAN OBVIOUS
  <2> HIDE DEF owned
  <2>4. Moved(save[s], r, "write") BY <2>1, <2>3, IdleIs, Moves DEF Phases
  <2> HIDE DEF r
  <2>. QED BY <1>4, <2>1, <2>2, <2>4 DEF Moved
<1>9. CASE UpdateNothing(s) \/ NoIdLeft(s)
  BY <1>2, <1>9 DEF UpdateNothing, NoIdLeft
<1>10. CASE Collide(s)
  <2>1. CASE save[s].tries >= Attempts BY <1>2, <1>10, <2>1 DEF Collide
  <2>2. CASE ~(save[s].tries >= Attempts)
    <3> DEFINE p == IF save[s].id = Nobody THEN "history" ELSE "current"
               m == save[s].tries + 1
    <3>1. save' = [save EXCEPT ![s] = Fresh(p, save[s].id, save[s].title, m)]
      BY <1>10, <2>2 DEF Collide, Fresh
    <3>2. /\ save[s].id \in Ids \cup {Nobody} /\ save[s].title \in Titles /\ m \in Nat
          /\ p \in {"current", "history"} /\ (p = "current" => save[s].id \in Ids)
      BY <1>0, <1>10 DEF SaveTyped, Requests, Collide
    <3> HIDE DEF p, m
    <3>. QED BY <1>3, <3>1, <3>2
  <2>. QED BY <2>1, <2>2
<1>. QED BY <1>5, <1>6, <1>7, <1>8, <1>9, <1>10

Overtaken(r) == [r EXCEPT !.over = @ + 1]

LEMMA OvertakenIs ==
  ASSUME NEW r \in Requests
  PROVE  LET q == Overtaken(r) IN
         /\ q \in Requests /\ q.over = r.over + 1
         /\ q.phase = r.phase /\ q.id = r.id /\ q.title = r.title
         /\ q.slug = r.slug /\ q.spare = r.spare
<1> DEFINE q == Overtaken(r)
<1>1. q \in Requests BY DEF Requests, Overtaken
<1>2. q.over = r.over + 1 BY DEF Requests, Overtaken
<1>3. q.phase = r.phase /\ q.id = r.id /\ q.title = r.title
  BY DEF Requests, Overtaken
<1>4. q.slug = r.slug /\ q.spare = r.spare
  BY DEF Requests, Overtaken
<1>. QED BY <1>1, <1>2, <1>3, <1>4

LEMMA LandsAmong ==
  ASSUME SaveTyped, NEW s \in Saves, NEW g, Lands(s, g)
  PROVE  /\ SaveTyped' /\ save'[s] = Idle
         /\ \A t \in Saves \ {s} :
              save'[t] = IF Open(t) THEN Overtaken(save[t]) ELSE save[t]
<1>1. save' = [t \in Saves |-> IF t = s THEN Idle
                               ELSE IF Open(t) THEN Overtaken(save[t]) ELSE save[t]]
  BY DEF Lands, Overtaking, Overtaken
<1>2. \A t \in Saves : Overtaken(save[t]) \in Requests BY OvertakenIs DEF SaveTyped
<1>3. save' \in [Saves -> Requests] BY <1>1, <1>2, IdleIs DEF SaveTyped
<1>4. ASSUME NEW t \in Saves
      PROVE  /\ save'[t].phase # "idle" => save'[t].title \in Titles
             /\ save'[t].phase = "current" => save'[t].id \in Ids
  <2>1. /\ Overtaken(save[t]).phase = save[t].phase
        /\ Overtaken(save[t]).title = save[t].title
        /\ Overtaken(save[t]).id = save[t].id
    BY OvertakenIs DEF SaveTyped
  <2>2. save'[t] \in {Idle, save[t], Overtaken(save[t])} BY <1>1
  <2>. QED BY <2>1, <2>2, IdleIs DEF SaveTyped
<1>. QED BY <1>1, <1>3, <1>4 DEF SaveTyped

(* The id the sequence gives is nobody's, and nobody answers at it. *)
LEMMA NewIdIs ==
  ASSUME Available # {}
  PROVE  NewId \in Ids /\ ~Live(NewId) /\ address[NewId] = Nobody
<1> DEFINE T == {n..MaxId : n \in Available}
<1>1. \A n \in Available : n \in Ids /\ n \in Nat /\ n <= MaxId
  <2>1. MaxId \in Nat BY AddressConstants
  <2>. QED BY <2>1 DEF Available, Ids
<1>2. \E n \in Available : \A m \in Available : n <= m
  <2> DEFINE V == 1..MaxId
             W == {{m \in V : m <= n} : n \in Available}
  <2>1. MaxId \in Nat BY AddressConstants
  <2>2. IsFiniteSet(V) BY <2>1, FS_Interval
  <2>3. W \in SUBSET SUBSET V /\ W # {} OBVIOUS
  <2>4. PICK u \in W : \A v \in W : v \subseteq u => v = u
    <3> HIDE DEF V, W
    <3>. QED BY <2>2, <2>3, Least
  <2>5. PICK n \in Available : u = {m \in V : m <= n} OBVIOUS
  <2>6. ASSUME NEW m \in Available, ~(n <= m) PROVE FALSE
    <3>1. m \in Nat /\ n \in Nat /\ m < n /\ n \in V BY <1>1, <2>6 DEF Ids
    <3>2. {i \in V : i <= m} \in W OBVIOUS
    <3>3. \A i \in V : i <= m => i <= n BY <2>1, <3>1
    <3>4. n \in u /\ n \notin {i \in V : i <= m} BY <2>5, <3>1
    <3>. QED BY <2>4, <2>5, <3>2, <3>3, <3>4
  <2>. QED BY <2>5, <2>6
<1>3. NewId \in Available BY <1>2 DEF NewId
<1>. QED BY <1>3 DEF Available

LEMMA RegistryStep == RegistryInv /\ [Next]_vars => RegistryInv'
<1> SUFFICES ASSUME RegistryInv, [Next]_vars PROVE RegistryInv'
  OBVIOUS
<1>0. SaveTyped /\ Typed BY DEF RegistryInv, Keys, Typed
<1>1. ASSUME UNCHANGED <<game, history, address>>, SaveTyped' PROVE RegistryInv'
  BY <1>1 DEF RegistryInv, Keys, Typed, LiveOnce, PastOnce, PastOwned, Live,
              RegistryMatchesRouter, Leads
<1>2. ASSUME NEW s \in Saves, NEW g \in Ids, Lands(s, g), save[s].phase = "write",
             \A h \in Ids \ {g} : Live(h) => game[h].slug # save[s].slug,
             ~Live(g) => address[g] = Nobody
      PROVE  RegistryInv'
  <2>1. save[s].title \in Titles BY <1>0, <1>2 DEF SaveTyped
  <2>2. SaveTyped' BY <1>0, <1>2, LandsAmong
  <2>. QED BY <1>2, <2>1, <2>2, Landing DEF RegistryInv, Keys, Typed
<1>3. ASSUME NEW s \in Saves, Create(s) PROVE RegistryInv'
  <2>1. NewId \in Ids /\ ~Live(NewId) /\ address[NewId] = Nobody
    BY <1>0, <1>3, NewIdIs DEF Create
  <2>2. \A h \in Ids \ {NewId} : Live(h) => game[h].slug # save[s].slug
    BY <1>3 DEF Create, Collides
  <2>. QED BY <1>2, <1>3, <2>1, <2>2 DEF Create
<1>4. ASSUME NEW s \in Saves, Update(s) PROVE RegistryInv'
  <2>1. save[s].id \in Ids BY <1>0, <1>4 DEF SaveTyped, Requests, Update
  <2>2. \A h \in Ids \ {save[s].id} : Live(h) => game[h].slug # save[s].slug
    BY <1>4, <2>1 DEF Update, Collides, RegistryInv, Keys, LiveOnce
  <2>. QED BY <1>2, <1>4, <2>1, <2>2 DEF Update
<1>5. ASSUME NEW s \in Saves,
             \/ \E id \in Ids \cup {Nobody}, t \in Titles : Post(s, id, t)
             \/ ReadCurrent(s) \/ ReadHistory(s) \/ ReadIds(s)
             \/ UpdateNothing(s) \/ Collide(s) \/ NoIdLeft(s)
      PROVE  RegistryInv'
  <2>1. SaveTyped' BY <1>5, Resolves
  <2>2. UNCHANGED <<game, history, address>>
    BY <1>5 DEF Post, ReadCurrent, ReadHistory, ReadIds, UpdateNothing, Collide, NoIdLeft
  <2>. QED BY <1>1, <2>1, <2>2
<1>6. CASE UNCHANGED vars
  <2>1. SaveTyped' BY <1>0, <1>6 DEF SaveTyped, vars
  <2>. QED BY <1>1, <1>6, <2>1 DEF vars
<1>. QED BY <1>3, <1>4, <1>5, <1>6, Deletion DEF Next

(***************************************************************************)
(* The registry of numeric addresses names whom GET /:id opens there, for  *)
(* every number and however many saves overtake each other: the claims and *)
(* the releases of migrations 0060 to 0065 lose and invent nobody.         *)
(***************************************************************************)
THEOREM RegistryMatchesRouterCorrect == Spec => []RegistryMatchesRouter
<1>1. RegistryInv => RegistryMatchesRouter BY DEF RegistryInv
<1>. QED BY RegistryInit, RegistryStep, <1>1, PTL DEF Spec

----------------------------------------------------------------------------
(* Addresses, with at most one save landing in another's window *)

OnRecord == \A g \in Ids : Live(g) => game[g].slug \in history[g]

(* The slugs a request may still write. *)
Intends(r) ==
  IF r.phase = "write" THEN {r.slug}
  ELSE IF r.phase = "ids" THEN {r.slug, r.spare} ELSE {}

(* Another game has had such a slug only if it took it within the window,  *)
(* and then it is still there.                                             *)
Safe(r) ==
  \A x \in Intends(r), k \in Ids \ {r.id} :
    x \in history[k] => r.over # 0 /\ Live(k) /\ game[k].slug = x

(* Nobody landed in the window: then the slug is the game's own, or it     *)
(* spells nobody else's id.                                                *)
Sure(r) ==
  /\ r.phase = "ids" => \A n : r.spare # Numeral(n)
  /\ r.phase = "write" /\ r.over = 0 =>
       \/ r.id \in Ids /\ (Live(r.id) => game[r.id].slug = r.slug)
       \/ \A n \in Ids \ {r.id} : r.slug = Numeral(n) => ~Live(n)

AddressInv ==
  /\ RegistryInv /\ OnRecord
  /\ \A s \in Saves : Safe(save[s]) /\ Sure(save[s])

LEMMA AddressInit == Init => AddressInv
<1> SUFFICES ASSUME Init PROVE AddressInv
  OBVIOUS
<1>1. RegistryInv BY RegistryInit
<1>2. PICK c \in Catalogues : /\ game = c.game /\ history = c.history
                              /\ save = [s \in Saves |-> Idle]
  BY DEF Init
<1>3. Keyed(c) BY CatalogueAssumption
<1>4. OnRecord BY <1>2, <1>3 DEF OnRecord, Keyed, Live
<1>5. \A s \in Saves : save[s].phase = "idle" BY <1>2, IdleIs
<1>. QED BY <1>1, <1>4, <1>5 DEF AddressInv, Safe, Sure, Intends

(* What a request that reads, or starts over, goes on to. *)
LEMMA GoesOn ==
  ASSUME AddressInv, NEW s \in Saves,
         \/ \E id \in Ids \cup {Nobody}, t \in Titles : Post(s, id, t)
         \/ ReadCurrent(s) \/ ReadHistory(s) \/ ReadIds(s)
         \/ UpdateNothing(s) \/ Collide(s) \/ NoIdLeft(s)
  PROVE  \E r : save' = [save EXCEPT ![s] = r] /\ Safe(r) /\ Sure(r)
<1>0. SaveTyped /\ Typed /\ save[s] \in Requests
  BY DEF AddressInv, RegistryInv, Keys, Typed, SaveTyped
<1>1. ASSUME NEW r, r.phase \notin {"ids", "write"} PROVE Safe(r) /\ Sure(r)
  BY <1>1 DEF Safe, Sure, Intends
<1>2. ASSUME save' = [save EXCEPT ![s] = Idle]
      PROVE  \E r : save' = [save EXCEPT ![s] = r] /\ Safe(r) /\ Sure(r)
  BY <1>1, <1>2, IdleIs
<1>3. ASSUME NEW p \in {"current", "history"}, NEW i \in Ids \cup {Nobody}, NEW t \in Titles, NEW m \in Nat,
             save' = [save EXCEPT ![s] = Fresh(p, i, t, m)]
      PROVE  \E r : save' = [save EXCEPT ![s] = r] /\ Safe(r) /\ Sure(r)
  <2>1. Fresh(p, i, t, m).phase = p BY StartsOver
  <2>. QED BY <1>1, <1>3, <2>1
<1>4. ASSUME NEW id \in Ids \cup {Nobody}, NEW t \in Titles, Post(s, id, t)
      PROVE  \E r : save' = [save EXCEPT ![s] = r] /\ Safe(r) /\ Sure(r)
  <2>1. PICK p \in {"current", "history"} : save' = [save EXCEPT ![s] = Fresh(p, id, t, 1)]
    BY <1>4 DEF Post, Fresh
  <2>. QED BY <1>3, <2>1
<1>5. CASE ReadCurrent(s)
  <2> DEFINE x == game[save[s].id].slug
  <2>1. save[s].id \in Ids /\ save[s].phase = "current"
    BY <1>0, <1>5 DEF SaveTyped, ReadCurrent
  <2>2. CASE Keeps(game[save[s].id], save[s].title)
    <3> DEFINE r == Choosing(save[s], "write", x)
    <3>1. save' = [save EXCEPT ![s] = r] BY <1>5, <2>2 DEF ReadCurrent, Choosing
    <3>2. Live(save[s].id) BY <2>2 DEF Keeps, Live
    <3>3. x \in history[save[s].id] /\ x \in Slugs
      BY <2>1, <3>2 DEF AddressInv, OnRecord, RegistryInv, Keys, Typed
    <3>4. r.phase = "write" /\ r.slug = x /\ r.id = save[s].id
      <4>1. Moved(save[s], r, "write") /\ r.slug = x BY <1>0, <3>3, Moves DEF Phases
      <4>. QED BY <4>1 DEF Moved
    <3> HIDE DEF r
    <3>5. Safe(r)
      BY <2>1, <3>3, <3>4 DEF Safe, Intends, AddressInv, RegistryInv, Keys, PastOnce
    <3>6. Sure(r) BY <2>1, <3>4 DEF Sure
    <3>. QED BY <3>1, <3>5, <3>6
  <2>3. CASE ~Keeps(game[save[s].id], save[s].title)
    <3> DEFINE r == Moving(save[s], "history")
    <3>1. save' = [save EXCEPT ![s] = r] BY <1>5, <2>3 DEF ReadCurrent, Moving
    <3>2. r.phase = "history"
      <4>1. Moved(save[s], r, "history") BY <1>0, IdleIs, Moves DEF Phases
      <4>. QED BY <4>1 DEF Moved
    <3> HIDE DEF r
    <3>. QED BY <1>1, <3>1, <3>2
  <2>. QED BY <2>2, <2>3
<1>6. CASE ReadHistory(s)
  <2> DEFINE base == Base[save[s].title]
             taken == TakenFrom(save[s].id)
             spare == FirstFree(base, taken)
             free == base \notin taken \cup Reserved
             number == base.word = "" /\ Len(base.tail) = 1
             r1 == Sparing(save[s], "ids", base, spare)
             r2 == Choosing(save[s], "write", base)
             r3 == Choosing(save[s], "write", spare)
  <2>1. save[s].phase = "history" BY <1>6 DEF ReadHistory
  <2>2. /\ base \in Slugs /\ spare \in Slugs /\ spare \notin taken
        /\ \A n : spare # Numeral(n)
    BY <1>0, <2>1, Chosen
  <2>3. \A x, k : k \in Ids \ {save[s].id} /\ x \in history[k] => x \in taken
    BY DEF TakenFrom
  <2>4. \/ free /\ number /\ save' = [save EXCEPT ![s] = r1]
        \/ free /\ ~number /\ save' = [save EXCEPT ![s] = r2]
        \/ save' = [save EXCEPT ![s] = r3]
    BY <1>6 DEF ReadHistory, Sparing, Choosing
  <2>5. ~number => \A n : base # Numeral(n)
    <3>1. \A n : Numeral(n).word = "" /\ Len(Numeral(n).tail) = 1 BY DEF Numeral
    <3>. QED BY <3>1
  <2>6. free => base \notin taken OBVIOUS
  <2>7. /\ r1.phase = "ids" /\ r1.slug = base /\ r1.spare = spare /\ r1.id = save[s].id
        /\ r2.phase = "write" /\ r2.slug = base /\ r2.id = save[s].id
        /\ r3.phase = "write" /\ r3.slug = spare /\ r3.id = save[s].id
    <3> HIDE DEF base, spare
    <3>1. Moved(save[s], r1, "ids") /\ r1.slug = base /\ r1.spare = spare
      BY <1>0, <2>2, Moves DEF Phases
    <3>2. Moved(save[s], r2, "write") /\ r2.slug = base BY <1>0, <2>2, Moves DEF Phases
    <3>3. Moved(save[s], r3, "write") /\ r3.slug = spare BY <1>0, <2>2, Moves DEF Phases
    <3> HIDE DEF r1, r2, r3
    <3>. QED BY <3>1, <3>2, <3>3 DEF Moved
  <2> HIDE DEF base, taken, spare, number, r1, r2, r3
  <2>8. free => Safe(r1) /\ Safe(r2) BY <2>2, <2>3, <2>6, <2>7 DEF Safe, Intends
  <2>9. Safe(r3) BY <2>2, <2>3, <2>7 DEF Safe, Intends
  <2>10. Sure(r1) /\ (~number => Sure(r2)) /\ Sure(r3) BY <2>2, <2>5, <2>7 DEF Sure
  <2>. QED BY <2>4, <2>8, <2>9, <2>10
<1>7. CASE ReadIds(s)
  <2> DEFINE owned == \E n \in Ids \ {save[s].id} : Live(n) /\ Spells(save[s].slug, n)
             r == Settling(save[s], owned, NoSlug)
  <2>1. save[s].phase = "ids" BY <1>7 DEF ReadIds
  <2>2. save' = [save EXCEPT ![s] = r] BY <1>7 DEF ReadIds, Settling
  <2>3. ~owned => \A n \in Ids \ {save[s].id} : save[s].slug = Numeral(n) => ~Live(n)
    BY Numerals
  <2>4. owned \in BOOLEAN OBVIOUS
  <2> HIDE DEF owned
  <2>5. Moved(save[s], r, "write") /\ r.slug = IF owned THEN save[s].spare ELSE save[s].slug
    BY <1>0, <2>4, IdleIs, Moves DEF Phases
  <2> HIDE DEF r
  <2>6. r.phase = "write" /\ r.id = save[s].id /\ r.over = save[s].over BY <2>5 DEF Moved
  <2>7. Safe(save[s]) /\ Sure(save[s]) BY DEF AddressInv
  <2>8. Safe(r) BY <2>1, <2>5, <2>6, <2>7 DEF Safe, Intends
  <2>9. Sure(r) BY <2>1, <2>3, <2>5, <2>6, <2>7 DEF Sure
  <2>. QED BY <2>2, <2>8, <2>9
<1>8. CASE UpdateNothing(s) \/ NoIdLeft(s)
  BY <1>2, <1>8 DEF UpdateNothing, NoIdLeft
<1>9. CASE Collide(s)
  <2>1. CASE save[s].tries >= Attempts BY <1>2, <1>9, <2>1 DEF Collide
  <2>2. CASE ~(save[s].tries >= Attempts)
    <3> DEFINE p == IF save[s].id = Nobody THEN "history" ELSE "current"
               m == save[s].tries + 1
    <3>1. save' = [save EXCEPT ![s] = Fresh(p, save[s].id, save[s].title, m)]
      BY <1>9, <2>2 DEF Collide, Fresh
    <3>2. /\ save[s].id \in Ids \cup {Nobody} /\ save[s].title \in Titles /\ m \in Nat
          /\ p \in {"current", "history"}
      BY <1>0, <1>9 DEF SaveTyped, Requests, Collide
    <3> HIDE DEF p, m
    <3>. QED BY <1>3, <3>1, <3>2
  <2>. QED BY <2>1, <2>2
<1>. QED BY <1>4, <1>5, <1>6, <1>7, <1>8, <1>9

(* A save that lands takes no slug from another game's history, and leaves *)
(* the others aware of it.                                                 *)
LEMMA LandsFree ==
  ASSUME AddressInv, NEW s \in Saves, NEW g \in Ids, Lands(s, g), save[s].phase = "write",
         save[s].id \in {g, Nobody},
         \A h \in Ids \ {g} : Live(h) => game[h].slug # save[s].slug
  PROVE  \A h \in Ids \ {g} : save[s].slug \notin history[h]
<1> SUFFICES ASSUME NEW h \in Ids \ {g}, save[s].slug \in history[h] PROVE FALSE
  OBVIOUS
<1>1. h # save[s].id BY NobodyIsNoId
<1>2. Live(h) /\ game[h].slug = save[s].slug BY <1>1 DEF AddressInv, Safe, Intends
<1>. QED BY <1>2

LEMMA LandsSafe ==
  ASSUME MaxOvertakes <= 1, AddressInv, NEW s \in Saves, NEW g \in Ids, Lands(s, g),
         save[s].phase = "write", save[s].id \in {g, Nobody},
         \A h \in Ids \ {g} : Live(h) => game[h].slug # save[s].slug
  PROVE  OnRecord' /\ \A t \in Saves : Safe(save[t])' /\ Sure(save[t])'
<1> DEFINE slug == save[s].slug
<1>0. SaveTyped /\ save[s].title \in Titles /\ RegistryInv
  BY DEF AddressInv, RegistryInv, Keys, Typed, SaveTyped
<1>1. /\ game'[g] # NoGame /\ game'[g].slug = slug
      /\ \A h \in Ids \ {g} : game'[h] = game[h] /\ history'[h] = history[h]
      /\ history'[g] \subseteq history[g] \cup {slug} /\ history[g] \subseteq history'[g]
      /\ slug \in history'[g] \/ \E h \in Ids : slug \in history[h]
  BY <1>0, LandsOn
<1>2. \A h \in Ids \ {g} : slug \notin history[h] BY LandsFree
<1>3. OnRecord' BY <1>1, <1>2 DEF OnRecord, Live, AddressInv
<1>4. /\ save'[s] = Idle
      /\ \A t \in Saves \ {s} : save'[t] = IF Open(t) THEN Overtaken(save[t]) ELSE save[t]
  BY <1>0, LandsAmong
<1>5. ASSUME NEW t \in Saves PROVE Safe(save[t])' /\ Sure(save[t])'
  <2>1. CASE t = s BY <1>4, <2>1, IdleIs DEF Safe, Sure, Intends
  <2>2. CASE t # s /\ ~Open(t)
    <3>1. save'[t] = save[t] /\ save[t].phase \notin {"ids", "write"} BY <1>4, <2>2 DEF Open
    <3>. QED BY <3>1 DEF Safe, Sure, Intends
  <2>3. CASE t # s /\ Open(t)
    <3>1. save[t] \in Requests /\ save[t].over \in Nat BY <1>0 DEF SaveTyped, Requests
    <3>2. save[t].over < MaxOvertakes BY <2>3 DEF Lands, MayOvertake
    <3>3. save[t].over = 0
      <4>1. MaxOvertakes \in Nat BY AddressConstants
      <4>. QED BY <3>1, <3>2, <4>1
    <3>4. save'[t] = Overtaken(save[t]) BY <1>4, <2>3
    <3>5. /\ save'[t].over = 1 /\ save'[t].phase = save[t].phase /\ save'[t].id = save[t].id
          /\ save'[t].slug = save[t].slug /\ save'[t].spare = save[t].spare
      BY <3>1, <3>3, <3>4, OvertakenIs
    <3>6. \A x \in Intends(save[t]), k \in Ids \ {save[t].id} : x \notin history[k]
      BY <3>3 DEF AddressInv, Safe
    <3>7. Intends(save'[t]) = Intends(save[t]) BY <3>5 DEF Intends
    <3>8. ASSUME NEW x \in Intends(save[t]), NEW k \in Ids \ {save[t].id}, x \in history'[k]
          PROVE  k = g /\ x = slug
      BY <1>1, <3>6, <3>8
    <3>9. Safe(save[t])' BY <1>1, <3>5, <3>7, <3>8 DEF Safe, Live
    <3>10. Sure(save[t])
      BY DEF AddressInv
    <3>11. Sure(save[t])' BY <3>5, <3>10 DEF Sure
    <3>. QED BY <3>9, <3>11
  <2>. QED BY <2>1, <2>2, <2>3
<1>. QED BY <1>3, <1>5

LEMMA DeletionSafe ==
  ASSUME AddressInv, NEW g \in Ids, Delete(g)
  PROVE  OnRecord' /\ \A t \in Saves : Safe(save[t])' /\ Sure(save[t])'
<1>1. /\ game' = [game EXCEPT ![g] = NoGame] /\ history' = [history EXCEPT ![g] = {}]
      /\ save' = save
  BY DEF Delete
<1>2. game \in [Ids -> Rows \cup {NoGame}] /\ history \in [Ids -> SUBSET Slugs]
  BY DEF AddressInv, RegistryInv, Keys, Typed
<1>3. /\ game'[g] = NoGame /\ history'[g] = {}
      /\ \A h \in Ids \ {g} : game'[h] = game[h] /\ history'[h] = history[h]
  BY <1>1, <1>2
<1>4. OnRecord' BY <1>3 DEF OnRecord, Live, AddressInv
<1>5. ASSUME NEW t \in Saves PROVE Safe(save[t])' /\ Sure(save[t])'
  <2>1. Safe(save[t]) /\ Sure(save[t]) BY DEF AddressInv
  <2>2. Safe(save[t])' BY <1>1, <1>3, <2>1 DEF Safe, Live, Intends
  <2>3. Sure(save[t])' BY <1>1, <1>3, <2>1 DEF Sure, Live
  <2>. QED BY <2>2, <2>3
<1>. QED BY <1>4, <1>5

(* Who is in the way of a landing *)
LEMMA CreateLands ==
  ASSUME RegistryInv, NEW s \in Saves, Create(s)
  PROVE  /\ NewId \in Ids /\ ~Live(NewId) /\ Lands(s, NewId)
         /\ save[s].phase = "write" /\ save[s].id = Nobody
         /\ \A h \in Ids \ {NewId} : Live(h) => game[h].slug # save[s].slug
         /\ ~Collides(NewId, save[s].slug)
<1>1. NewId \in Ids /\ ~Live(NewId) BY NewIdIs DEF Create
<1>. QED BY <1>1 DEF Create, Collides

LEMMA UpdateLands ==
  ASSUME RegistryInv, NEW s \in Saves, Update(s)
  PROVE  /\ save[s].id \in Ids /\ Live(save[s].id) /\ Lands(s, save[s].id)
         /\ save[s].phase = "write"
         /\ \A h \in Ids \ {save[s].id} : Live(h) => game[h].slug # save[s].slug
         /\ save[s].slug = game[save[s].id].slug \/ ~Collides(save[s].id, save[s].slug)
<1>1. save[s].id \in Ids BY DEF RegistryInv, Keys, Typed, SaveTyped, Requests, Update
<1>2. \A h \in Ids \ {save[s].id} : Live(h) => game[h].slug # save[s].slug
  BY <1>1 DEF Update, Collides, RegistryInv, Keys, LiveOnce
<1>. QED BY <1>1, <1>2 DEF Update

LEMMA AddressStep == MaxOvertakes <= 1 /\ AddressInv /\ [Next]_vars => AddressInv'
<1> SUFFICES ASSUME MaxOvertakes <= 1, AddressInv, [Next]_vars PROVE AddressInv'
  OBVIOUS
<1>0. RegistryInv BY DEF AddressInv
<1>1. RegistryInv' BY <1>0, RegistryStep
<1> DEFINE Kept == OnRecord' /\ \A t \in Saves : Safe(save[t])' /\ Sure(save[t])'
<1>2. ASSUME NEW s \in Saves, Create(s) PROVE Kept
  BY <1>0, <1>2, CreateLands, LandsSafe
<1>3. ASSUME NEW s \in Saves, Update(s) PROVE Kept
  BY <1>0, <1>3, UpdateLands, LandsSafe
<1>4. ASSUME NEW s \in Saves,
             \/ \E id \in Ids \cup {Nobody}, t \in Titles : Post(s, id, t)
             \/ ReadCurrent(s) \/ ReadHistory(s) \/ ReadIds(s)
             \/ UpdateNothing(s) \/ Collide(s) \/ NoIdLeft(s)
      PROVE  Kept
  <2>1. PICK r : save' = [save EXCEPT ![s] = r] /\ Safe(r) /\ Sure(r) BY <1>4, GoesOn
  <2>2. game' = game /\ history' = history
    BY <1>4 DEF Post, ReadCurrent, ReadHistory, ReadIds, UpdateNothing, Collide, NoIdLeft
  <2>3. save'[s] = r /\ \A t \in Saves : t # s => save'[t] = save[t]
    BY <1>0, <2>1 DEF RegistryInv, Keys, Typed, SaveTyped
  <2>4. \A t \in Saves : Safe(save'[t]) /\ Sure(save'[t]) BY <2>1, <2>3 DEF AddressInv
  <2>5. \A t \in Saves : Safe(save[t])' /\ Sure(save[t])'
    BY <2>2, <2>4 DEF Safe, Sure, Live, Intends
  <2>6. OnRecord' BY <2>2 DEF OnRecord, Live, AddressInv
  <2>. QED BY <2>5, <2>6
<1>5. ASSUME UNCHANGED vars PROVE Kept
  BY <1>5 DEF vars, AddressInv, OnRecord, Live, Safe, Sure, Intends
<1>6. Kept BY <1>2, <1>3, <1>4, <1>5, DeletionSafe DEF Next
<1>. QED BY <1>1, <1>6 DEF AddressInv

(* How an address leads to a game. *)
LEMMA LeadsBy ==
  ASSUME NEW a, Leads(a) # Nobody
  PROVE  LET g == Leads(a) IN
         /\ g \in Ids
         /\ \/ game[g] # NoGame /\ game[g].slug = a
            \/ /\ \A h \in Ids : ~(game[h] # NoGame /\ game[h].slug = a)
               /\ \/ a \in history[g]
                  \/ /\ \A h \in Ids : a \notin history[h]
                     /\ game[g] # NoGame /\ Spells(a, g)
<1> DEFINE live == {g \in Ids : game[g] # NoGame /\ game[g].slug = a}
           retired == {g \in Ids : a \in history[g]}
           byId == {g \in Ids : game[g] # NoGame /\ Spells(a, g)}
<1>1. Leads(a) = Best(live, retired, byId) BY AnswererIs DEF Leads
<1>2. \/ live # {} /\ Leads(a) \in live
      \/ live = {} /\ retired # {} /\ Leads(a) \in retired
      \/ live = {} /\ retired = {} /\ Leads(a) \in byId
  <2> HIDE DEF live, retired, byId
  <2>. QED BY <1>1 DEF Best
<1>. QED BY <1>2

LEMMA KeptByLanding ==
  ASSUME AddressInv, AddressInv', NEW s \in Saves, NEW g \in Ids, Lands(s, g),
         save[s].phase = "write", save[s].id \in {g, Nobody},
         \A h \in Ids \ {g} : Live(h) => game[h].slug # save[s].slug,
         (Live(g) /\ game[g].slug = save[s].slug) \/ ~Collides(g, save[s].slug),
         NEW a \in Known, Leads(a) # Nobody, game'[Leads(a)] # NoGame
  PROVE  Leads(a)' = Leads(a)
<1> DEFINE slug == save[s].slug
<1>0. PICK k : k = Leads(a) OBVIOUS
<1> SUFFICES Answerer(game', history', a) = k BY <1>0 DEF Leads
<1>1. save[s].title \in Titles /\ RegistryInv
  BY DEF AddressInv, RegistryInv, Keys, Typed, SaveTyped
<1>2. /\ game'[g] # NoGame /\ game'[g].slug = slug
      /\ \A h \in Ids \ {g} : game'[h] = game[h] /\ history'[h] = history[h]
      /\ history'[g] \subseteq history[g] \cup {slug} /\ history[g] \subseteq history'[g]
  BY <1>1, LandsOn
<1>3. \A h \in Ids \ {g} : slug \notin history[h] BY LandsFree
<1>4. k \in Ids /\ game'[k] # NoGame BY <1>0, LeadsBy
<1>5. LiveOnce' /\ PastOnce' BY DEF AddressInv, RegistryInv, Keys
<1>6. ASSUME game'[k].slug = a PROVE Answerer(game', history', a) = k
  <2>1. {h \in Ids : game'[h] # NoGame /\ game'[h].slug = a} = {k}
    BY <1>4, <1>5, <1>6 DEF LiveOnce, Live
  <2>. QED BY <2>1, AnswererIs DEF Best
<1>7. ASSUME \A h \in Ids : ~(game'[h] # NoGame /\ game'[h].slug = a), a \in history'[k]
      PROVE  Answerer(game', history', a) = k
  <2>1. {h \in Ids : game'[h] # NoGame /\ game'[h].slug = a} = {} BY <1>7
  <2>2. {h \in Ids : a \in history'[h]} = {k} BY <1>4, <1>5, <1>7 DEF PastOnce
  <2>. QED BY <2>1, <2>2, AnswererIs DEF Best
<1>8. CASE game[k] # NoGame /\ game[k].slug = a
  <2>1. CASE k # g BY <1>2, <1>4, <1>6, <1>8, <2>1
  <2>2. CASE k = g /\ slug = a BY <1>2, <1>6, <2>2
  <2>3. CASE k = g /\ slug # a
    <3>1. \A h \in Ids : ~(game'[h] # NoGame /\ game'[h].slug = a)
      BY <1>1, <1>2, <1>4, <1>8, <2>3 DEF RegistryInv, Keys, LiveOnce, Live
    <3>2. a \in history'[k] BY <1>2, <1>8, <2>3 DEF AddressInv, OnRecord, Live
    <3>. QED BY <1>7, <3>1, <3>2
  <2>. QED BY <2>1, <2>2, <2>3
<1>9. CASE \A h \in Ids : ~(game[h] # NoGame /\ game[h].slug = a)
  <2>1. CASE slug = a /\ k = g BY <1>2, <1>6, <2>1
  <2>2. CASE slug # a
    <3>1. \A h \in Ids : ~(game'[h] # NoGame /\ game'[h].slug = a) BY <1>2, <1>9, <2>2
    <3>2. CASE a \in history[k] 
      <4>1. a \in history'[k] BY <1>2, <1>4, <3>2
      <4>. QED BY <1>7, <3>1, <4>1
    <3>3. CASE a \notin history[k]
      <4>1. /\ \A h \in Ids : a \notin history[h]
            /\ Spells(a, k)
        BY <1>0, <1>9, <3>3, LeadsBy
      <4>2. \A h \in Ids : a \notin history'[h] BY <1>2, <2>2, <4>1
      <4>3. {h \in Ids : game'[h] # NoGame /\ game'[h].slug = a} = {} BY <3>1
      <4>4. {h \in Ids : a \in history'[h]} = {} BY <4>2
      <4>5. {h \in Ids : game'[h] # NoGame /\ Spells(a, h)} = {k}
        <5>1. ASSUME NEW h, Spells(a, h) PROVE h = k
          <6>1. <<h>> = <<k>> BY <4>1, <5>1 DEF Spells
          <6>. QED BY <6>1
        <5>. QED BY <1>4, <4>1, <5>1
      <4>. QED BY <4>3, <4>4, <4>5, AnswererIs DEF Best
    <3>. QED BY <3>2, <3>3
  <2>3. CASE slug = a /\ k # g
    <3>1. a \notin history[k] BY <1>3, <1>4, <2>3
    <3>2. Spells(a, k) /\ game[k] # NoGame BY <1>0, <1>9, <3>1, LeadsBy
    <3>3. a \in Slugs BY <1>1, <2>3 DEF RegistryInv, Keys, Typed, SaveTyped, Requests
    <3>4. a = Numeral(k) BY <1>4, <3>2, <3>3, Numerals
    <3>5. address[k] = k BY <1>0, <1>1, <1>4, <3>4 DEF RegistryInv, RegistryMatchesRouter
    <3>6. k \in Spelt({slug}) BY <1>4, <2>3, <3>2 DEF Spelt
    <3>7. ~MayClaim(g, k) BY <1>4, <2>3, <3>5, NobodyIsNoId DEF MayClaim
    <3>8. Collides(g, slug) BY <3>6, <3>7 DEF Collides
    <3>9. ~(Live(g) /\ game[g].slug = slug) BY <1>9, <2>3 DEF Live
    <3>. QED BY <3>8, <3>9
  <2>. QED BY <2>1, <2>2, <2>3
<1>. QED BY <1>0, <1>8, <1>9, LeadsBy

LEMMA KeptByDeletion ==
  ASSUME AddressInv, AddressInv', NEW g \in Ids, Delete(g),
         NEW a, Leads(a) # Nobody, game'[Leads(a)] # NoGame
  PROVE  Leads(a)' = Leads(a)
<1>0. PICK k : k = Leads(a) OBVIOUS
<1> SUFFICES Answerer(game', history', a) = k BY <1>0 DEF Leads
<1>1. /\ game' = [game EXCEPT ![g] = NoGame] /\ history' = [history EXCEPT ![g] = {}]
      /\ game \in [Ids -> Rows \cup {NoGame}] /\ history \in [Ids -> SUBSET Slugs]
  BY DEF Delete, AddressInv, RegistryInv, Keys, Typed
<1>2. /\ game'[g] = NoGame /\ history'[g] = {}
      /\ \A h \in Ids \ {g} : game'[h] = game[h] /\ history'[h] = history[h]
  BY <1>1
<1>3. k \in Ids /\ k # g /\ game'[k] = game[k] /\ history'[k] = history[k] BY <1>0, <1>2, LeadsBy
<1>4. LiveOnce' /\ PastOnce' BY DEF AddressInv, RegistryInv, Keys
<1>5. CASE game[k] # NoGame /\ game[k].slug = a
  <2>1. {h \in Ids : game'[h] # NoGame /\ game'[h].slug = a} = {k}
    BY <1>3, <1>4, <1>5 DEF LiveOnce, Live
  <2>. QED BY <2>1, AnswererIs DEF Best
<1>6. CASE \A h \in Ids : ~(game[h] # NoGame /\ game[h].slug = a)
  <2>1. {h \in Ids : game'[h] # NoGame /\ game'[h].slug = a} = {} BY <1>2, <1>6
  <2>2. CASE a \in history[k]
    <3>1. {h \in Ids : a \in history'[h]} = {k} BY <1>3, <1>4, <2>2 DEF PastOnce
    <3>. QED BY <2>1, <3>1, AnswererIs DEF Best
  <2>3. CASE a \notin history[k]
    <3>1. (\A h \in Ids : a \notin history[h]) /\ Spells(a, k) BY <1>0, <1>6, <2>3, LeadsBy
    <3>2. {h \in Ids : a \in history'[h]} = {} BY <1>2, <3>1
    <3>3. {h \in Ids : game'[h] # NoGame /\ Spells(a, h)} = {k}
      <4>1. ASSUME NEW h, Spells(a, h) PROVE h = k
        <5>1. <<h>> = <<k>> BY <3>1, <4>1 DEF Spells
        <5>. QED BY <5>1
      <4>2. game'[k] # NoGame BY <1>0
      <4>. QED BY <1>3, <3>1, <4>1, <4>2
    <3>. QED BY <2>1, <3>2, <3>3, AnswererIs DEF Best
  <2>. QED BY <2>2, <2>3
<1>. QED BY <1>0, <1>5, <1>6, LeadsBy

LEMMA StepKeeps ==
  ASSUME AddressInv, AddressInv', Next, NEW a \in Known, Leads(a) # Nobody,
         game'[Leads(a)] # NoGame
  PROVE  Leads(a)' = Leads(a)
<1>0. RegistryInv BY DEF AddressInv
<1>1. ASSUME NEW s \in Saves, Create(s) PROVE Leads(a)' = Leads(a)
  BY <1>0, <1>1, CreateLands, KeptByLanding
<1>2. ASSUME NEW s \in Saves, Update(s) PROVE Leads(a)' = Leads(a)
  BY <1>0, <1>2, UpdateLands, KeptByLanding
<1>3. ASSUME game' = game, history' = history PROVE Leads(a)' = Leads(a)
  <2>1. Answerer(game', history', a) = Answerer(game, history, a) BY <1>3
  <2>. QED BY <2>1 DEF Leads
<1>4. ASSUME NEW s \in Saves,
             \/ \E id \in Ids \cup {Nobody}, t \in Titles : Post(s, id, t)
             \/ ReadCurrent(s) \/ ReadHistory(s) \/ ReadIds(s)
             \/ UpdateNothing(s) \/ Collide(s) \/ NoIdLeft(s)
      PROVE  Leads(a)' = Leads(a)
  <2>1. game' = game /\ history' = history
    BY <1>4 DEF Post, ReadCurrent, ReadHistory, ReadIds, UpdateNothing, Collide, NoIdLeft
  <2>. QED BY <1>3, <2>1
<1>. QED BY <1>1, <1>2, <1>4, KeptByDeletion DEF Next

(***************************************************************************)
(* An address that opens a game goes on opening it while the game exists,  *)
(* as long as at most one other save lands between a save's reads and its  *)
(* write: resolveSlug hands out nobody's past address (utils/slug.ts), and *)
(* the registry refuses a number that is taken.                            *)
(***************************************************************************)
THEOREM AddressKeptCorrect == MaxOvertakes <= 1 => (Spec => AddressKept)
<1> SUFFICES ASSUME MaxOvertakes <= 1 PROVE Spec => AddressKept
  OBVIOUS
<1>1. AddressInv /\ [Next]_vars => AddressInv' BY AddressStep
<1>2. AddressInv /\ AddressInv' /\ [Next]_vars =>
        [\A a \in Known : LET g == Leads(a) IN
           g # Nobody /\ game'[g] # NoGame => Leads(a)' = g]_<<game, history>>
  <2> SUFFICES ASSUME AddressInv, AddressInv', [Next]_vars, ~UNCHANGED <<game, history>>,
                      NEW a \in Known, Leads(a) # Nobody, game'[Leads(a)] # NoGame
               PROVE  Leads(a)' = Leads(a)
    OBVIOUS
  <2>1. Next BY DEF vars
  <2>. QED BY <2>1, StepKeeps
<1>. QED BY AddressInit, <1>1, <1>2, PTL DEF Spec, AddressKept

(* A collision has a cause: an insert chose its slug free of every game,    *)
(* and an update is refused only what another game has taken since.        *)
LEMMA NoLoneCollision ==
  ASSUME AddressInv, NEW s \in Saves, Collide(s)
  PROVE  save[s].over > 0
<1> DEFINE slug == save[s].slug
           id == save[s].id
           g == IF id = Nobody THEN NewId ELSE id
<1>0. SaveTyped /\ RegistryInv /\ save[s] \in Requests
  BY DEF AddressInv, RegistryInv, Keys, Typed, SaveTyped
<1>1. /\ save[s].phase = "write" /\ Collides(g, slug)
      /\ id \in Ids => Live(id) /\ slug # game[id].slug
      /\ id = Nobody => Available # {}
  BY NobodyIsNoId DEF Collide
<1>2. id \in Ids \cup {Nobody} /\ save[s].over \in Nat /\ slug \in Slugs BY <1>0 DEF Requests
<1>3. SUFFICES ASSUME save[s].over = 0 PROVE FALSE BY <1>2
<1>4. g \in Ids /\ (id = Nobody => ~Live(g)) BY <1>1, <1>2, NewIdIs, NobodyIsNoId
<1>5. \A k \in Ids \ {id} : slug \notin history[k] BY <1>1, <1>3 DEF AddressInv, Safe, Intends
<1>6. \A n \in Ids \ {id} : slug = Numeral(n) => ~Live(n)
  BY <1>1, <1>3 DEF AddressInv, Sure
<1>7. ASSUME NEW h \in Ids, Live(h), game[h].slug = slug PROVE FALSE
  <2>1. slug \in history[h] BY <1>7 DEF AddressInv, OnRecord
  <2>2. h = id BY <1>5, <2>1
  <2>. QED BY <1>1, <1>7, <2>2
<1>8. ASSUME NEW n \in Spelt({slug}), ~MayClaim(g, n) PROVE FALSE
  <2>1. n \in Ids /\ slug = Numeral(n) /\ Spells(slug, n) BY <1>2, Numerals DEF Spelt
  <2>2. address[n] = Leads(slug) BY <1>0, <2>1 DEF RegistryInv, RegistryMatchesRouter
  <2>3. CASE address[n] = Nobody
    <3>1. Live(n) /\ n # g BY <1>8, <2>3 DEF MayClaim
    <3>2. n = id BY <1>6, <2>1, <3>1
    <3>. QED BY <3>1, <3>2, NobodyIsNoId, <2>1
  <2>4. CASE address[n] # Nobody
    <3>1. PICK k : k = Leads(slug) OBVIOUS
    <3>2. k \in Ids /\ (slug \in history[k] \/ (game[k] # NoGame /\ Spells(slug, k)))
      <4>1. Leads(slug) # Nobody BY <2>2, <2>4
      <4>2. /\ k \in Ids
            /\ \/ game[k] # NoGame /\ game[k].slug = slug
               \/ slug \in history[k]
               \/ game[k] # NoGame /\ Spells(slug, k)
        BY <3>1, <4>1, LeadsBy
      <4>3. ~(game[k] # NoGame /\ game[k].slug = slug)
        BY <1>7, <4>2 DEF Live
      <4>. QED BY <4>2, <4>3
    <3>3. k # g BY <1>8, <2>2, <3>1 DEF MayClaim
    <3>4. k # id
      BY <1>2, <3>2, <3>3, NobodyIsNoId
    <3>5. slug = Numeral(k) /\ Live(k) BY <1>2, <1>5, <3>2, <3>4, Numerals DEF Live
    <3>. QED BY <1>6, <3>2, <3>4, <3>5
  <2>. QED BY <2>3, <2>4
<1>. QED BY <1>1, <1>7, <1>8 DEF Collides

(***************************************************************************)
(* A save's write collides only when another save landed in its window, so *)
(* a retry (withResolvedSlug, utils/slug.ts) finds another answer.         *)
(***************************************************************************)
THEOREM RetryHasAnAnswerCorrect == MaxOvertakes <= 1 => (Spec => RetryHasAnAnswer)
<1> SUFFICES ASSUME MaxOvertakes <= 1 PROVE Spec => RetryHasAnAnswer
  OBVIOUS
<1>1. AddressInv /\ [Next]_vars => AddressInv' BY AddressStep
<1>2. AddressInv /\ [Next]_vars => [\A s \in Saves : Collide(s) => save[s].over > 0]_vars
  BY NoLoneCollision
<1>. QED BY AddressInit, <1>1, <1>2, PTL DEF Spec, RetryHasAnAnswer
=============================================================================
