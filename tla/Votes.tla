------------------------------- MODULE Votes -------------------------------
(***************************************************************************)
(* Votes on games as transactions over the tables "games" and "ratings":   *)
(* casting and changing a vote, deleting a game, and the daily sweep that  *)
(* clears old addresses off votes.  Each statement takes row locks one     *)
(* after another and keeps them until it commits; what it writes is seen   *)
(* by others then.  The totals on a game's row are kept by a trigger.      *)
(***************************************************************************)
EXTENDS Integers, Sequences, SequencesExt

CONSTANTS
  Games, Voters,
  Stars,     \* the ratings that are told apart, among 1..5
  Conns,     \* database connections; each runs one statement at a time
  Batch,     \* PRUNE_BATCH_SIZE
  MaxStarts  \* bound: how many statements are begun

ASSUME VotesAssumption ==
  /\ Stars \subseteq 1..5 /\ Stars # {}
  /\ Batch \in Nat \ {0} /\ MaxStarts \in Nat

VARIABLES
  present,   \* the games that exist
  rating,    \* the votes: <<game, voter>> -> stars, on the rows there are
  addressed, \* the votes that still carry an "ipAddress"
  sum, count, \* "ratingSum" and "ratingCount" of each game
  conn,      \* what each connection is doing
  started    \* how many statements have begun

votesVars == <<present, rating, addressed, sum, count, conn, started>>

Rows == DOMAIN rating
RowsOf(g) == {r \in Rows : r[1] = g}
GameRow(g) == <<g>>   \* the resource a lock on the game's row is

(* A connection has the locks it holds and those it still has to take, in  *)
(* the order it takes them.                                                *)
Idle == [kind |-> "idle", held |-> {}, plan |-> <<>>]
IsIdle(c) == conn[c] = Idle
Is(c, kind) == conn[c].kind = kind
Waits(c) == conn[c].plan # <<>>
Wants(c) == Head(conn[c].plan)

(* A foreign-key check shares the game's row with a vote, not with a       *)
(* delete; every other pair excludes.                                      *)
Excludes(d, c) == Is(c, "pick") => ~Is(d, "vote")
Blockers(c) == {d \in Conns \ {c} : /\ Waits(c) /\ Wants(c) \in conn[d].held
                                    /\ Excludes(d, c)}
Free(c) == Waits(c) /\ Blockers(c) = {}

Becomes(c, s) == conn' = [conn EXCEPT ![c] = s]
Takes(c) == [conn[c] EXCEPT !.held = @ \cup {Wants(c)}, !.plan = Tail(@)]

Begin(c, s) ==
  /\ IsIdle(c) /\ started < MaxStarts
  /\ started' = started + 1
  /\ Becomes(c, s)

(***************************************************************************)
(* Game.rate: the game's row first, then the vote's.                       *)
(***************************************************************************)
(* The upsert locks the vote, and the trigger then needs the game. *)
LockOrder_VoteFirst(g, v) ==
  IF <<g, v>> \in Rows THEN <<<<g, v>>, GameRow(g)>> ELSE <<GameRow(g), <<g, v>>>>
LockOrder(g, v) == <<GameRow(g), <<g, v>>>>

BeginVote(c, g, v, s) ==
  /\ Begin(c, [kind |-> "vote", held |-> {}, plan |-> LockOrder(g, v),
               game |-> g, voter |-> v, stars |-> s])
  /\ UNCHANGED <<present, rating, addressed, sum, count>>

(* The first lock is granted; no game, no vote: the answer is false. *)
VoteLocks(c) ==
  /\ Is(c, "vote") /\ Free(c) /\ Len(conn[c].plan) = 2
  /\ Becomes(c, IF conn[c].game \in present THEN Takes(c) ELSE Idle)
  /\ UNCHANGED <<present, rating, addressed, sum, count, started>>

(* Every upsert is taken for a new vote. *)
Synced_AlwaysNew(r, s) == [sum |-> sum[r[1]] + s, count |-> count[r[1]] + 1]
(* sync_games_rating_totals, as the upsert fires it. *)
Synced(r, s) ==
  IF r \in Rows THEN [sum |-> sum[r[1]] + s - rating[r], count |-> count[r[1]]]
  ELSE [sum |-> sum[r[1]] + s, count |-> count[r[1]] + 1]

(* The last lock, the upsert, its trigger and the commit. *)
VoteCommits(c) ==
  /\ Is(c, "vote") /\ Free(c) /\ Len(conn[c].plan) = 1
  /\ LET g == conn[c].game
         r == <<g, conn[c].voter>>
         s == conn[c].stars
     IN IF g \notin present THEN UNCHANGED <<rating, addressed, sum, count>>
        ELSE /\ rating' = [q \in Rows \cup {r} |-> IF q = r THEN s ELSE rating[q]]
             /\ addressed' = addressed \cup {r}
             /\ sum' = [sum EXCEPT ![g] = Synced(r, s).sum]
             /\ count' = [count EXCEPT ![g] = Synced(r, s).count]
  /\ Becomes(c, Idle)
  /\ UNCHANGED <<present, started>>

(***************************************************************************)
(* Game.delete: the game's row, then each of its votes by the cascade, in  *)
(* whatever order the scan meets them.                                     *)
(***************************************************************************)
BeginDelete(c, g) ==
  /\ Begin(c, [kind |-> "delete", held |-> {}, plan |-> <<GameRow(g)>>, game |-> g])
  /\ UNCHANGED <<present, rating, addressed, sum, count>>

DeleteLocks(c) ==
  /\ Is(c, "delete") /\ Free(c)
  /\ LET g == conn[c].game IN
     IF g \notin present THEN Becomes(c, Idle)
     ELSE IF conn[c].held # {} THEN Becomes(c, Takes(c))
     ELSE \E order \in SetToSeqs(RowsOf(g)) :
            Becomes(c, [Takes(c) EXCEPT !.plan = order])
  /\ UNCHANGED <<present, rating, addressed, sum, count, started>>

DeleteCommits(c) ==
  /\ Is(c, "delete") /\ ~Waits(c)
  /\ LET g == conn[c].game IN
     /\ present' = present \ {g}
     /\ rating' = [r \in Rows \ RowsOf(g) |-> rating[r]]
     /\ addressed' = addressed \ RowsOf(g)
     /\ sum' = [sum EXCEPT ![g] = 0] /\ count' = [count EXCEPT ![g] = 0]
  /\ Becomes(c, Idle)
  /\ UNCHANGED started

(***************************************************************************)
(* Game.pruneRatingIps: one batch after another until one comes up short.  *)
(* The rows of a batch, of those old enough, are chosen first and locked   *)
(* one by one.                                                             *)
(***************************************************************************)
Sweep(order) == [kind |-> "prune", held |-> {}, plan |-> order, rows |-> ToSet(order)]
Batches(old) == UNION {SetToSeqs(S) : S \in {T \in SUBSET old : Cardinality(T) <= Batch}}

BeginPrune(c) ==
  /\ \E order \in Batches(addressed) : order # <<>> /\ Begin(c, Sweep(order))
  /\ UNCHANGED <<present, rating, addressed, sum, count>>

PruneLocks(c) ==
  /\ Is(c, "prune") /\ Free(c)
  /\ Becomes(c, Takes(c))
  /\ UNCHANGED <<present, rating, addressed, sum, count, started>>

(* The trigger sees neither stars nor game change and returns early. *)
PruneCommits(c) ==
  /\ Is(c, "prune") /\ ~Waits(c)
  /\ addressed' = addressed \ conn[c].rows
  /\ LET touched == Cardinality(conn[c].rows \cap Rows) IN
     \E order \in Batches(addressed') :
       Becomes(c, IF touched < Batch \/ order = <<>> THEN Idle ELSE Sweep(order))
  /\ UNCHANGED <<present, rating, sum, count, started>>

(* A wait ends with the statement's timeout, or with Postgres breaking a   *)
(* deadlock: everything the statement did is undone.                       *)
Cancelled(c) ==
  /\ Blockers(c) # {}
  /\ Becomes(c, Idle)
  /\ UNCHANGED <<present, rating, addressed, sum, count, started>>

VoteStep(c) ==
  \/ \E g \in Games, v \in Voters, s \in Stars : BeginVote(c, g, v, s)
  \/ VoteLocks(c) \/ VoteCommits(c)
PruneStep(c) == BeginPrune(c) \/ PruneLocks(c) \/ PruneCommits(c)

VotesInit ==
  /\ present = Games
  /\ rating = [r \in {} |-> 0] /\ addressed = {}
  /\ sum = [g \in Games |-> 0] /\ count = [g \in Games |-> 0]
  /\ conn = [c \in Conns |-> Idle] /\ started = 0

Total(S, w) == FoldSet(LAMBDA r, n : n + w[r], 0, S)

(***************************************************************************)
(* The totals on a game's row are the sum and the number of its votes,     *)
(* whatever votes, changes of votes, deletions and sweeps ran in whatever  *)
(* order: every ranking reads them instead of the votes.                   *)
(***************************************************************************)
TotalsExact ==
  \A g \in present :
    /\ count[g] = Cardinality(RowsOf(g))
    /\ sum[g] = Total(RowsOf(g), rating)

(***************************************************************************)
(* A vote is never part of a deadlock: nobody it waits for waits, however  *)
(* indirectly, for it.                                                     *)
(***************************************************************************)
Behind(c) ==
  {d \in Conns : \A R \in SUBSET Conns :
     /\ Blockers(c) \subseteq R
     /\ \A e \in R : Blockers(e) \subseteq R
     => d \in R}
VotesNeverDeadlock == \A c \in Conns : Is(c, "vote") => c \notin Behind(c)
=============================================================================
