----------------------------- MODULE CacheEpoch -----------------------------
(***************************************************************************)
(* Cross-machine cache invalidation, utils/cache-epoch.ts, together with   *)
(* what the models do around it (clear the local caches after a write has  *)
(* committed, then "void bumpCacheEpoch(scope)") and the per-process       *)
(* caches of utils/cache.ts, seen here one cell per key.                   *)
(*                                                                         *)
(* A query is two or three steps: it is sent, the database runs it, the    *)
(* answer (or an error, whether or not it ran) arrives.  Everything        *)
(* between two awaits of one process is one action.  The number 0 stands   *)
(* for "no number": a scope this process never read, an answer not there.  *)
(***************************************************************************)
EXTENDS Naturals

CONSTANTS
  Machines,    (* processes serving the site                               *)
  Writes,      (* identities of writes; bounds how many may commit         *)
  KindOf,      (* KindOf[w], OwnerOf[w]: what write w is, which process    *)
  OwnerOf,     (* handles it                                               *)
  Keys,        (* cache keys                                               *)
  LocalDrop,   (* LocalDrop[kind]: keys the writing process drops itself   *)
  Mortal,      (* processes that may drain, die and be replaced            *)
  MaxRetries   (* BUMP_RETRY_DELAYS_MS.length                              *)

Kinds  == {"game", "news", "comment"}
Scopes == {"all", "comments"}

ASSUME WritesAssumption == /\ KindOf \in [Writes -> Kinds]
                           /\ OwnerOf \in [Writes -> Machines]
ASSUME LocalDropAssumption == LocalDrop \in [Kinds -> SUBSET Keys]
ASSUME MortalAssumption == Mortal \subseteq Machines
ASSUME MaxRetriesAssumption == MaxRetries \in Nat \ {0}

VARIABLES
  stage,     (* how far write w has come, see Stages                       *)
  reply,     (* reply[w]: the epoch w's first bump got from the database   *)
  epoch,     (* the rows of the table cache_epochs                         *)
  bumpedAt,  (* history: first epoch its own machine produced after w      *)
  gaveUp,    (* history: writes whose bump will never be tried again       *)
  lastSeen,  (* lastSeen[m][s]                                             *)
  check,     (* check[m]: the read of syncCacheEpoch in flight             *)
  pending,   (* pending[m][s]: the one PendingBump of a scope              *)
  cache,     (* cache[m][k]: the entries of the TtlCaches                  *)
  ending     (* ending[m]: pool.end() has been called                      *)

writeVars   == <<stage, reply>>
machineVars == <<lastSeen, check, pending, cache, ending>>
vars == <<writeVars, epoch, bumpedAt, gaveUp, machineVars>>

(* idle; committed, answer on its way; local caches dropped and first bump  *)
(* in flight; that bump failed and a retry has to deliver it; over.         *)
Stages == {"idle", "committed", "bumping", "failed", "done"}

Empty     == [st |-> "absent", data |-> {}]
NoCheck   == [phase |-> "none", rows |-> [s \in Scopes |-> 0]]
NoPending == [phase |-> "none", attempt |-> 0, again |-> FALSE, reply |-> 0]
Retry(n)  == [phase |-> "waiting", attempt |-> n, again |-> FALSE, reply |-> 0]

CellType    == [st : {"absent", "held"}, data : SUBSET Writes]
CheckType   == [phase : {"none", "read"}, rows : [Scopes -> Nat]]
PendingType == [phase : {"none", "waiting", "flying"}, attempt : Nat,
                again : BOOLEAN, reply : Nat]

Scope(w)  == IF KindOf[w] = "comment" THEN "comments" ELSE "all"
Touched(w) == LocalDrop[KindOf[w]]
Committed == {w \in Writes : stage[w] # "idle"}

(* SCOPE_EFFECTS: what a machine that hears of a scope drops.              *)
Effect_AllOnly(s) == IF s = "all" THEN Keys ELSE {}
Effect(s) == IF s = "all" THEN Keys ELSE LocalDrop["comment"]

Without(cells, K) == [k \in Keys |-> IF k \in K THEN Empty ELSE cells[k]]

(* The writes of a machine and scope that only a retry can still announce. *)
Unannounced(m, s) ==
  {w \in Writes : /\ OwnerOf[w] = m /\ Scope(w) = s
                  /\ stage[w] = "failed" /\ bumpedAt[w] = 0}

Init ==
  /\ stage = [w \in Writes |-> "idle"]
  /\ reply = [w \in Writes |-> 0]
  /\ epoch = [s \in Scopes |-> 1]
  /\ bumpedAt = [w \in Writes |-> 0]
  /\ gaveUp = {}
  /\ lastSeen = [m \in Machines |-> [s \in Scopes |-> 0]]
  /\ check = [m \in Machines |-> NoCheck]
  /\ pending = [m \in Machines |-> [s \in Scopes |-> NoPending]]
  /\ cache = [m \in Machines |-> [k \in Keys |-> Empty]]
  /\ ending = [m \in Machines |-> FALSE]

-----------------------------------------------------------------------------
(* The caches: TtlCache.get, its load and its expiry (utils/cache.ts).     *)

(* A load's query runs and sees every write committed by now.  From here on *)
(* the key holds the entry: its promise, settled or about to be.            *)
Load(m, k) ==
  /\ cache[m][k].st = "absent" /\ ~ending[m]
  /\ cache' = [cache EXCEPT ![m][k] = [st |-> "held", data |-> Committed]]
  /\ UNCHANGED <<writeVars, epoch, bumpedAt, gaveUp, lastSeen, check, pending, ending>>

(* The load fails, or the entry's time to live runs out.                   *)
Evict(m, k) ==
  /\ cache[m][k].st = "held"
  /\ cache' = [cache EXCEPT ![m][k] = Empty]
  /\ UNCHANGED <<writeVars, epoch, bumpedAt, gaveUp, lastSeen, check, pending, ending>>

-----------------------------------------------------------------------------
(* A write and its first bump: clearGameCaches and its siblings, tryBump,  *)
(* bumpCacheEpoch.                                                         *)

Commit(w) ==
  /\ stage[w] = "idle" /\ ~ending[OwnerOf[w]]
  /\ stage' = [stage EXCEPT ![w] = "committed"]
  /\ UNCHANGED <<reply, epoch, bumpedAt, gaveUp, machineVars>>

(* The pool runs a bump: the upsert of tryBump on a seeded row.            *)
RunUpsert(m, s) ==
  /\ epoch' = [epoch EXCEPT ![s] = @ + 1]
  /\ bumpedAt' = [w \in Writes |->
                    IF /\ w \in Committed /\ bumpedAt[w] = 0
                       /\ OwnerOf[w] = m /\ Scope(w) = s
                    THEN epoch[s] + 1 ELSE bumpedAt[w]]

Adopt(seen, e) == IF e > seen THEN e ELSE seen

(* Another machine bumped in between, or this process never read the row.  *)
GapDrops_NoGap(seen, e) == seen = 0
GapDrops(seen, e) == seen = 0 \/ e > seen + 1

(* The answer e of a bump arrives: drop if there was a gap, then adopt.    *)
Landed(m, s, e) ==
  /\ cache' = IF GapDrops(lastSeen[m][s], e)
              THEN [cache EXCEPT ![m] = Without(@, Effect(s))] ELSE cache
  /\ lastSeen' = [lastSeen EXCEPT ![m][s] = Adopt(@, e)]

(* A failed first bump: a retry in flight cannot cover it, one that waits  *)
(* does, and without one a retry is scheduled.                             *)
AfterFailure_InFlightCovers(p) ==
  IF p.phase = "none" THEN Retry(0) ELSE p
AfterFailure(p) ==
  CASE p.phase = "none"    -> Retry(0)
    [] p.phase = "flying"  -> [p EXCEPT !.again = TRUE]
    [] p.phase = "waiting" -> p

FailFirst(w) ==
  /\ stage' = [stage EXCEPT ![w] = "failed"]
  /\ pending' = [pending EXCEPT ![OwnerOf[w]][Scope(w)] = AfterFailure(@)]

(* The write's answer arrives: drop the local caches and send the bump,    *)
(* which the pool refuses at once when it has been told to end.            *)
ClearAndBump(w) ==
  /\ stage[w] = "committed"
  /\ cache' = [cache EXCEPT ![OwnerOf[w]] = Without(@, Touched(w))]
  /\ IF ending[OwnerOf[w]]
     THEN FailFirst(w)
     ELSE stage' = [stage EXCEPT ![w] = "bumping"] /\ UNCHANGED pending
  /\ UNCHANGED <<reply, epoch, bumpedAt, gaveUp, lastSeen, check, ending>>

RunBump(w) ==
  /\ stage[w] = "bumping" /\ reply[w] = 0
  /\ RunUpsert(OwnerOf[w], Scope(w))
  /\ reply' = [reply EXCEPT ![w] = epoch[Scope(w)] + 1]
  /\ UNCHANGED <<stage, gaveUp, machineVars>>

BumpLands(w) ==
  /\ stage[w] = "bumping" /\ reply[w] # 0
  /\ Landed(OwnerOf[w], Scope(w), reply[w])
  /\ stage' = [stage EXCEPT ![w] = "done"]
  /\ reply' = [reply EXCEPT ![w] = 0]
  /\ UNCHANGED <<epoch, bumpedAt, gaveUp, check, pending, ending>>

(* An error arrives; the bump may have run nevertheless.                   *)
BumpFails(w) ==
  /\ stage[w] = "bumping"
  /\ FailFirst(w)
  /\ reply' = [reply EXCEPT ![w] = 0]
  /\ UNCHANGED <<epoch, bumpedAt, gaveUp, lastSeen, check, cache, ending>>

(* A programming error, which no retry would mend.                         *)
BumpBreaks(w) ==
  /\ stage[w] = "bumping" /\ reply[w] = 0
  /\ stage' = [stage EXCEPT ![w] = "done"]
  /\ gaveUp' = IF bumpedAt[w] = 0 THEN gaveUp \cup {w} ELSE gaveUp
  /\ UNCHANGED <<reply, epoch, bumpedAt, machineVars>>

-----------------------------------------------------------------------------
(* The retries: scheduleRetry and runRetry.                                *)

(* The timer fires; a pool told to end makes the retry give its bump up.   *)
RetryFires(m, s) ==
  /\ pending[m][s].phase = "waiting"
  /\ IF ending[m]
     THEN /\ pending' = [pending EXCEPT ![m][s] = NoPending]
          /\ gaveUp' = gaveUp \cup Unannounced(m, s)
     ELSE /\ pending' = [pending EXCEPT ![m][s].phase = "flying"]
          /\ UNCHANGED gaveUp
  /\ UNCHANGED <<writeVars, epoch, bumpedAt, lastSeen, check, cache, ending>>

RunRetry(m, s) ==
  /\ pending[m][s].phase = "flying" /\ pending[m][s].reply = 0
  /\ RunUpsert(m, s)
  /\ pending' = [pending EXCEPT ![m][s].reply = epoch[s] + 1]
  /\ UNCHANGED <<writeVars, gaveUp, lastSeen, check, cache, ending>>

RetryLands(m, s) ==
  /\ pending[m][s].phase = "flying" /\ pending[m][s].reply # 0
  /\ Landed(m, s, pending[m][s].reply)
  /\ pending' = [pending EXCEPT ![m][s] =
                   IF @.again THEN Retry(0) ELSE NoPending]
  /\ UNCHANGED <<writeVars, epoch, bumpedAt, gaveUp, check, ending>>

RetryFails_Forgets(m, s) ==
  /\ pending[m][s].phase = "flying"
  /\ pending' = [pending EXCEPT ![m][s] = NoPending]
  /\ UNCHANGED <<writeVars, epoch, bumpedAt, gaveUp, lastSeen, check, cache, ending>>
RetryFails(m, s) ==
  LET p == pending[m][s] IN
  /\ p.phase = "flying"
  /\ IF p.attempt + 1 >= MaxRetries
     THEN /\ pending' = [pending EXCEPT ![m][s] = NoPending]
          /\ gaveUp' = gaveUp \cup Unannounced(m, s)
     ELSE /\ pending' = [pending EXCEPT ![m][s] = Retry(p.attempt + 1)]
          /\ UNCHANGED gaveUp
  /\ UNCHANGED <<writeVars, epoch, bumpedAt, lastSeen, check, cache, ending>>

RetryBreaks(m, s) ==
  /\ pending[m][s].phase = "flying" /\ pending[m][s].reply = 0
  /\ pending' = [pending EXCEPT ![m][s] = NoPending]
  /\ gaveUp' = gaveUp \cup Unannounced(m, s)
  /\ UNCHANGED <<writeVars, epoch, bumpedAt, lastSeen, check, cache, ending>>

-----------------------------------------------------------------------------
(* syncCacheEpoch: one read in flight per process.  When a check may start *)
(* (interval, backoff) is EpochCheck.tla's; here it may start any time, and *)
(* what it has not read yet changes nothing, so sending and running it are *)
(* one step.                                                               *)

RunCheck(m) ==
  /\ check[m].phase = "none" /\ ~ending[m]
  /\ check' = [check EXCEPT ![m] = [phase |-> "read", rows |-> epoch]]
  /\ UNCHANGED <<writeVars, epoch, bumpedAt, gaveUp, lastSeen, pending, cache, ending>>

Moved(m, s) == lastSeen[m][s] # 0 /\ check[m].rows[s] > lastSeen[m][s]
FirstSeen_Adopted(m, s) == FALSE
FirstSeen(m, s) == lastSeen[m][s] = 0

(* "all" subsumes the narrower scope, in each of the two lists.            *)
EffectOfAll(S) == IF "all" \in S THEN Keys ELSE UNION {Effect(s) : s \in S}

CheckLands(m) ==
  /\ check[m].phase = "read"
  /\ cache' = [cache EXCEPT ![m] =
                 Without(@, EffectOfAll({s \in Scopes : Moved(m, s)})
                              \cup EffectOfAll({s \in Scopes : FirstSeen(m, s)}))]
  /\ lastSeen' = [lastSeen EXCEPT ![m] =
                    [s \in Scopes |-> Adopt(@[s], check[m].rows[s])]]
  /\ check' = [check EXCEPT ![m] = NoCheck]
  /\ UNCHANGED <<writeVars, epoch, bumpedAt, gaveUp, pending, ending>>

CheckFails(m) ==
  /\ check[m].phase = "read"
  /\ check' = [check EXCEPT ![m] = NoCheck]
  /\ UNCHANGED <<writeVars, epoch, bumpedAt, gaveUp, lastSeen, pending, cache, ending>>

-----------------------------------------------------------------------------
(* The process.                                                            *)

Drain(m) ==
  /\ m \in Mortal /\ ~ending[m]
  /\ ending' = [ending EXCEPT ![m] = TRUE]
  /\ UNCHANGED <<writeVars, epoch, bumpedAt, gaveUp, lastSeen, check, pending, cache>>

(* The process dies, drained or not, and a new one takes its place: every  *)
(* cache, counter, timer and query in flight is gone.                      *)
Restart(m) ==
  LET cut == {w \in Writes : OwnerOf[w] = m /\ stage[w] \in {"committed", "bumping", "failed"}}
  IN
  /\ m \in Mortal
  /\ stage' = [w \in Writes |-> IF w \in cut THEN "done" ELSE stage[w]]
  /\ reply' = [w \in Writes |-> IF w \in cut THEN 0 ELSE reply[w]]
  /\ gaveUp' = gaveUp \cup {w \in cut : bumpedAt[w] = 0}
  /\ lastSeen' = [lastSeen EXCEPT ![m] = [s \in Scopes |-> 0]]
  /\ check' = [check EXCEPT ![m] = NoCheck]
  /\ pending' = [pending EXCEPT ![m] = [s \in Scopes |-> NoPending]]
  /\ cache' = [cache EXCEPT ![m] = [k \in Keys |-> Empty]]
  /\ ending' = [ending EXCEPT ![m] = FALSE]
  /\ UNCHANGED <<epoch, bumpedAt>>

CacheStep(m, k) == Load(m, k) \/ Evict(m, k)
BumpSettles(w)  == BumpLands(w) \/ BumpFails(w) \/ BumpBreaks(w)
WriteStep(w)    == Commit(w) \/ ClearAndBump(w) \/ RunBump(w) \/ BumpSettles(w)
RetrySettles(m, s) == RetryLands(m, s) \/ RetryFails(m, s) \/ RetryBreaks(m, s)
RetryStep(m, s) == RetryFires(m, s) \/ RunRetry(m, s) \/ RetrySettles(m, s)
CheckStep(m)    == RunCheck(m) \/ CheckLands(m) \/ CheckFails(m)

Next ==
  \/ \E m \in Machines, k \in Keys : CacheStep(m, k)
  \/ \E w \in Writes : WriteStep(w)
  \/ \E m \in Machines, s \in Scopes : RetryStep(m, s)
  \/ \E m \in Machines : CheckStep(m) \/ Drain(m) \/ Restart(m)

Spec == Init /\ [][Next]_vars

(* A process acts on every answer; every query is answered or fails within *)
(* the pool's timeouts; timers fire; requests keep arriving, so checks keep *)
(* starting, and the database does not fail every one of them for ever; a   *)
(* process that drains is gone in the end (Leaves of Shutdown.tla).         *)
(* Nothing is assumed of a bump but that it settles, and nothing at all of  *)
(* the expiry of cache entries.                                             *)
Fairness ==
  /\ \A w \in Writes : WF_vars(ClearAndBump(w)) /\ WF_vars(BumpSettles(w))
  /\ \A m \in Machines, s \in Scopes :
       WF_vars(RetryFires(m, s)) /\ WF_vars(RetrySettles(m, s))
  /\ \A m \in Machines : /\ WF_vars(RunCheck(m)) /\ SF_vars(CheckLands(m))
                         /\ WF_vars(ending[m] /\ Restart(m))

FairSpec == Spec /\ Fairness

-----------------------------------------------------------------------------
(* Properties.                                                             *)

(* The variables keep their types; the numbers stay numbers (Math.max of an *)
(* absent one would be NaN).                                                *)
TypeOK ==
  /\ stage \in [Writes -> Stages] /\ reply \in [Writes -> Nat]
  /\ epoch \in [Scopes -> Nat] /\ bumpedAt \in [Writes -> Nat]
  /\ gaveUp \subseteq Writes
  /\ lastSeen \in [Machines -> [Scopes -> Nat]]
  /\ check \in [Machines -> CheckType]
  /\ pending \in [Machines -> [Scopes -> PendingType]]
  /\ cache \in [Machines -> [Keys -> CellType]]
  /\ ending \in [Machines -> BOOLEAN]

(* The writes machine m must not be behind: its own once it has handled     *)
(* the write's answer, another machine's once it has adopted an epoch at    *)
(* or past the first one that machine produced after the write.             *)
Told(m) ==
  {w \in Writes :
     IF OwnerOf[w] = m THEN stage[w] \notin {"idle", "committed"}
     ELSE bumpedAt[w] # 0 /\ bumpedAt[w] <= lastSeen[m][Scope(w)]}

Stale(m, k, w) ==
  /\ cache[m][k].st = "held" /\ w \in Committed
  /\ k \in Touched(w) /\ w \notin cache[m][k].data

(* No machine holds an answer that a write it has been told of made stale:  *)
(* whatever the order in which bumps, syncs, loads and clears interleave,   *)
(* adopting a number never skips the drop that number stands for (the gap   *)
(* rule of tryBump, the first-read rule of both).                           *)
Coherence == \A m \in Machines, k \in Keys : \A w \in Told(m) : ~Stale(m, k, w)

(* A write whose first bump failed, and which no bump of its machine has    *)
(* followed since, always has a retry ahead of it whose UPDATE is still to  *)
(* run, unless the module has said that it gave the bump up: coalescing     *)
(* retries to one per scope loses no write (PendingBump).                   *)
NoWriteForgotten ==
  \A w \in Writes :
    stage[w] = "failed" /\ bumpedAt[w] = 0 /\ w \notin gaveUp =>
      LET p == pending[OwnerOf[w]][Scope(w)] IN
      p.phase # "none" /\ (p.phase = "flying" /\ p.reply # 0 => p.again)

(* The numbers a process has seen never go backwards while it lives, even   *)
(* when the answer to an older query arrives after the answer to a newer    *)
(* one (adopt).                                                             *)
SeenNeverBackwards ==
  [][\A m \in Machines, s \in Scopes : 
       lastSeen'[m][s] >= lastSeen[m][s] \/ Restart(m)]_vars

(* Every committed write is in the end reflected by everything every        *)
(* machine holds, unless its bump was given up: no expiry is needed for it. *)
Converges ==
  \A w \in Writes :
    stage[w] = "committed" ~>
      w \in gaveUp \/ \A m \in Machines, k \in Keys : ~Stale(m, k, w)

(* What Coherence rests on.  No number a process holds or is about to get   *)
(* is ahead of the table; and the numbers a process's own bump brings back  *)
(* are its own, so adopting one without a gap skips no other machine's.     *)
EpochsBounded ==
  /\ \A m \in Machines, s \in Scopes :
       /\ lastSeen[m][s] <= epoch[s] /\ check[m].rows[s] <= epoch[s]
       /\ pending[m][s].reply <= epoch[s]
       /\ pending[m][s].phase # "flying" => pending[m][s].reply = 0
  /\ \A w \in Writes :
       /\ reply[w] <= epoch[Scope(w)] /\ bumpedAt[w] <= epoch[Scope(w)]
       /\ stage[w] = "idle" => bumpedAt[w] = 0

OneBumper ==
  \A w \in Writes : bumpedAt[w] # 0 =>
    /\ \A v \in Writes : Scope(v) = Scope(w) /\ reply[v] = bumpedAt[w]
                           => OwnerOf[v] = OwnerOf[w]
    /\ \A m \in Machines : pending[m][Scope(w)].reply = bumpedAt[w]
                             => m = OwnerOf[w]

(* The mechanism implements the promise of Invalidation.tla.                *)
Promise == INSTANCE Invalidation WITH
  written <- Committed,
  told    <- [m \in Machines |-> Told(m)],
  cell    <- cache
ImplementsPromise == Promise!Spec

=============================================================================
