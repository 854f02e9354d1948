--------------------------- MODULE GameOfTheWeek ---------------------------
(***************************************************************************)
(* The game of the week, chosen by whichever request first finds the week  *)
(* over, on the games and totals of Votes.  Two dates of one row overlap   *)
(* in their ends: BETWEEN includes both.                                   *)
(***************************************************************************)
EXTENDS Votes

CONSTANTS
  Week,     \* how many ticks a pick lasts
  Patience, \* how many ticks a transaction may last
  Recent,   \* for how many ticks a game that was picked stays out
  Horizon   \* bound: the last tick

ASSUME WeekAssumption ==
  /\ Week \in Nat /\ Patience \in Nat /\ Recent \in Nat /\ Horizon \in Nat
  /\ 2 * Patience <= Week

VARIABLES
  clock,
  playable, \* the games that have a stream
  picks,    \* the table game_of_the_week; rows that agree in all are one
  lapsed    \* history: the picks whose game was ever without a stream

weekVars == <<clock, playable, picks, lapsed>>
vars == <<votesVars, weekVars>>

At(t) == {p \in picks : p.start <= t /\ t <= p.end /\ p.game \in playable}
Selection == <<"selection">> \* the advisory lock

Choosing(c) == Is(c, "look") \/ Is(c, "pick")

(* getCurrent found nothing: a client is asked of the pool ...             *)
LookUp(c) ==
  /\ At(clock) = {}
  /\ Begin(c, [kind |-> "look", held |-> {}, plan |-> <<>>, since |-> clock])
  /\ UNCHANGED <<present, rating, addressed, sum, count, weekVars>>

(* ... and BEGINs when it comes.                                           *)
BeginPick(c) ==
  /\ Is(c, "look")
  /\ Becomes(c, [kind |-> "pick", held |-> {}, plan |-> <<Selection>>,
                 since |-> conn[c].since, now |-> clock])
  /\ UNCHANGED <<present, rating, addressed, sum, count, started, weekVars>>

(* NOW(): when the transaction began. *)
CheckedAt_Begin(c) == conn[c].now
(* What the check under the lock reads: the wall clock. *)
CheckedAt(c) == clock

(* Not picked lately, playable, and unrated or rated four and above; or    *)
(* else any playable game.                                                 *)
Rested(now) == {g \in Games : ~\E p \in picks : p.game = g /\ p.start > now - Recent}
Liked == {g \in Games : count[g] = 0 \/ sum[g] >= 4 * count[g]}
Candidates(now) ==
  LET good == playable \cap Rested(now) \cap Liked
  IN IF good # {} THEN good ELSE playable

(* The lock is granted, and the week is looked up once more. *)
PickLocks(c) ==
  /\ Is(c, "pick") /\ Free(c) /\ Wants(c) = Selection
  /\ IF At(CheckedAt(c)) # {} THEN Becomes(c, Idle)
     ELSE Becomes(c, Takes(c))
  /\ UNCHANGED <<present, rating, addressed, sum, count, started, weekVars>>

(* A game is chosen; its row is what the insert's foreign key needs. *)
PickSelects(c) ==
  /\ Is(c, "pick") /\ ~Waits(c)
  /\ IF playable = {} THEN Becomes(c, Idle)
     ELSE \E g \in Candidates(conn[c].now) :
            Becomes(c, [conn[c] EXCEPT !.plan = <<GameRow(g)>>])
  /\ UNCHANGED <<present, rating, addressed, sum, count, started, weekVars>>

(* A pick whose game has no stream has lapsed, and stays so.               *)
Lapses == lapsed' = {p \in picks' : p \in lapsed \/ p.game \notin playable'}

(* The insert and the commit; a game deleted meanwhile fails the foreign   *)
(* key, and the transaction is rolled back.  Both dates are NOW()'s, which *)
(* is when the transaction began.                                          *)
PickInserts(c) ==
  /\ Is(c, "pick") /\ Free(c) /\ Wants(c) # Selection
  /\ LET g == Wants(c)[1] IN
     picks' = IF g \notin present THEN picks
              ELSE picks \cup {[game |-> g, start |-> conn[c].now,
                                end |-> conn[c].now + Week]}
  /\ Becomes(c, Idle)
  /\ UNCHANGED <<present, rating, addressed, sum, count, started, clock, playable>>
  /\ Lapses

(* No client comes, or a query fails: ROLLBACK, and if that fails too the  *)
(* client is destroyed.  Either way the locks are gone.                    *)
PickFails(c) ==
  /\ Choosing(c)
  /\ Becomes(c, Idle)
  /\ UNCHANGED <<present, rating, addressed, sum, count, started, weekVars>>

(* An admin empties a game's stream, or fills it in again. *)
StreamChanges(g) ==
  /\ \A c \in Conns : GameRow(g) \notin conn[c].held
  /\ UNCHANGED <<votesVars, clock, picks>>
  /\ Lapses
Unhosted(g) == g \in playable /\ playable' = playable \ {g} /\ StreamChanges(g)
Hosted(g) == g \in present \ playable /\ playable' = playable \cup {g} /\ StreamChanges(g)

(* The pool gives a client or fails, and a statement ends or is cancelled, *)
(* within seconds: a choice is over long before half a week has passed.    *)
Tick ==
  /\ clock < Horizon
  /\ \A c \in Conns : Choosing(c) => clock < conn[c].since + Patience
  /\ clock' = clock + 1
  /\ UNCHANGED <<votesVars, playable, picks, lapsed>>

(* The cascade takes a deleted game's picks along. *)
Deletes(c) ==
  /\ DeleteCommits(c)
  /\ playable' = playable \ {conn[c].game}
  /\ picks' = {p \in picks : p.game # conn[c].game}
  /\ Lapses
  /\ UNCHANGED clock

PickStep(c) ==
  LookUp(c) \/ BeginPick(c) \/ PickLocks(c) \/ PickSelects(c) \/ PickInserts(c) \/ PickFails(c)

TableStep(c) ==
  \/ VoteStep(c) \/ PruneStep(c) \/ Cancelled(c)
  \/ (\E g \in present : BeginDelete(c, g)) \/ DeleteLocks(c)

Init ==
  VotesInit /\ clock = 0 /\ playable \in SUBSET Games /\ picks = {} /\ lapsed = {}

Next ==
  \/ \E c \in Conns : PickStep(c) \/ Deletes(c) \/ (TableStep(c) /\ UNCHANGED weekVars)
  \/ \E g \in Games : Unhosted(g) \/ Hosted(g)
  \/ Tick

Spec == Init /\ [][Next]_vars

TypeOK ==
  /\ present \subseteq Games /\ playable \subseteq present
  /\ Rows \subseteq present \X Voters /\ \A r \in Rows : rating[r] \in Stars
  /\ addressed \subseteq Rows
  /\ \A g \in Games : sum[g] \in Nat /\ count[g] \in Nat
  /\ picks \subseteq [game : present, start : 0..Horizon, end : 0..(Horizon + Week)]
  /\ lapsed \subseteq picks

(***************************************************************************)
(* One game a week: two picks whose dates overlap only when one of their   *)
(* games has been without a stream since it was picked.  However many      *)
(* requests find the week over at once, one of them chooses, and the       *)
(* others find it done (game-of-the-week.ts:174-215).                      *)
(***************************************************************************)
OneGameAWeek ==
  \A p, q \in picks : p # q /\ p.start <= q.start /\ q.start <= p.end =>
                        p \in lapsed \/ q \in lapsed
=============================================================================
