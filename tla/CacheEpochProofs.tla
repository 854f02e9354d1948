-------------------------- MODULE CacheEpochProofs --------------------------
(***************************************************************************)
(* Proofs about CacheEpoch.tla, for any machines, writes, keys and number  *)
(* of retries.                                                             *)
(*                                                                         *)
(* Coherence is the hard one.  It rests on two things that no single       *)
(* handler shows: no number is ahead of the table (EpochsBounded), and the *)
(* number a process's own bump brings back was produced by nobody else     *)
(* (OneBumper), so that adopting it without a gap skips no other write.    *)
(* The retries and the refinement follow from the same invariants.         *)
(***************************************************************************)
EXTENDS CacheEpoch, TLAPS

(* Every key a write makes stale is one its scope drops everywhere.        *)
LEMMA EffectCovers ==
  ASSUME NEW w \in Writes, NEW k \in Touched(w)
  PROVE  k \in Keys /\ k \in Effect(Scope(w))
BY WritesAssumption, LocalDropAssumption DEF Touched, Effect, Scope, Kinds

LEMMA WriteTypes ==
  ASSUME NEW w \in Writes
  PROVE  OwnerOf[w] \in Machines /\ Scope(w) \in Scopes
BY WritesAssumption DEF Scope, Scopes

LEMMA WithoutType ==
  ASSUME NEW c \in [Keys -> CellType], NEW K
  PROVE  Without(c, K) \in [Keys -> CellType]
BY DEF Without, CellType, Empty

LEMMA AdoptType ==
  ASSUME NEW a \in Nat, NEW b \in Nat
  PROVE  Adopt(a, b) \in Nat
BY DEF Adopt

LEMMA AfterFailureType ==
  ASSUME NEW p \in PendingType
  PROVE  AfterFailure(p) \in PendingType
BY DEF AfterFailure, PendingType, Retry

LEMMA RecordTypes ==
  /\ Empty \in CellType
  /\ [st |-> "held", data |-> Committed] \in CellType
  /\ NoCheck \in CheckType
  /\ NoPending \in PendingType
  /\ \A n \in Nat : Retry(n) \in PendingType
<1>1. Empty \in CellType /\ [st |-> "held", data |-> Committed] \in CellType
  BY DEF Empty, CellType, Committed
<1>2. NoCheck \in CheckType
  BY DEF NoCheck, CheckType
<1>3. NoPending \in PendingType /\ \A n \in Nat : Retry(n) \in PendingType
  BY DEF NoPending, PendingType, Retry
<1>4. QED
  BY <1>1, <1>2, <1>3

LEMMA FieldTypes ==
  /\ \A p \in PendingType : p.attempt \in Nat /\ p.reply \in Nat /\ p.again \in BOOLEAN
  /\ \A c \in CheckType : c.rows \in [Scopes -> Nat]
BY DEF CheckType, PendingType

LEMMA PendingUpdates ==
  ASSUME NEW p \in PendingType
  PROVE  /\ [p EXCEPT !.phase = "flying"] \in PendingType
         /\ \A e \in Nat : [p EXCEPT !.reply = e] \in PendingType
BY DEF PendingType

(* The three updates that several actions share.                           *)
LEMMA LandedType ==
  ASSUME TypeOK, NEW m \in Machines, NEW s \in Scopes, NEW e \in Nat, Landed(m, s, e)
  PROVE  /\ lastSeen' \in [Machines -> [Scopes -> Nat]]
         /\ cache' \in [Machines -> [Keys -> CellType]]
<1>1. Adopt(lastSeen[m][s], e) \in Nat
  BY AdoptType DEF TypeOK
<1>2. Without(cache[m], Effect(s)) \in [Keys -> CellType]
  BY WithoutType DEF TypeOK
<1>3. QED
  BY <1>1, <1>2 DEF TypeOK, Landed

LEMMA UpsertType ==
  ASSUME TypeOK, NEW m \in Machines, NEW s \in Scopes, RunUpsert(m, s)
  PROVE  epoch' \in [Scopes -> Nat] /\ bumpedAt' \in [Writes -> Nat]
BY DEF TypeOK, RunUpsert

LEMMA FailFirstType ==
  ASSUME TypeOK, NEW w \in Writes, FailFirst(w)
  PROVE  /\ stage' \in [Writes -> Stages]
         /\ pending' \in [Machines -> [Scopes -> PendingType]]
<1>1. pending[OwnerOf[w]][Scope(w)] \in PendingType
  BY WriteTypes DEF TypeOK
<1>2. AfterFailure(pending[OwnerOf[w]][Scope(w)]) \in PendingType
  BY <1>1, AfterFailureType
<1>3. QED
  BY <1>2, WriteTypes DEF TypeOK, FailFirst, Stages

(* The variables keep their types in every behaviour.                     *)
THEOREM TypeCorrect == Spec => []TypeOK
<1>1. Init => TypeOK
  BY RecordTypes DEF Init, TypeOK, Stages
<1>2. TypeOK /\ [Next]_vars => TypeOK'
  <2> SUFFICES ASSUME TypeOK, [Next]_vars PROVE TypeOK'
    OBVIOUS
  <2>1. ASSUME NEW m \in Machines, NEW k \in Keys, CacheStep(m, k) PROVE TypeOK'
    <3>1. CASE Load(m, k)
      <4>1. cache' \in [Machines -> [Keys -> CellType]]
        BY <3>1, RecordTypes DEF TypeOK, Load
      <4>2. QED
        BY <3>1, <4>1 DEF TypeOK, Load, writeVars
    <3>2. CASE Evict(m, k)
      <4>1. cache' \in [Machines -> [Keys -> CellType]]
        BY <3>2, RecordTypes DEF TypeOK, Evict
      <4>2. QED
        BY <3>2, <4>1 DEF TypeOK, Evict, writeVars
    <3>3. QED
      BY <2>1, <3>1, <3>2 DEF CacheStep
  <2>2. ASSUME NEW w \in Writes, WriteStep(w) PROVE TypeOK'
    <3>0. OwnerOf[w] \in Machines /\ Scope(w) \in Scopes
      BY WriteTypes
    <3>1. CASE Commit(w)
      BY <3>1 DEF TypeOK, Commit, Stages, machineVars
    <3>2. CASE ClearAndBump(w)
      <4>1. Without(cache[OwnerOf[w]], Touched(w)) \in [Keys -> CellType]
        BY <3>0, WithoutType DEF TypeOK
      <4>2. cache' \in [Machines -> [Keys -> CellType]]
        BY <3>0, <3>2, <4>1 DEF TypeOK, ClearAndBump
      <4>3. CASE ending[OwnerOf[w]]
        BY <3>2, <4>2, <4>3, FailFirstType DEF TypeOK, ClearAndBump
      <4>4. CASE ~ending[OwnerOf[w]]
        BY <3>2, <4>2, <4>4 DEF TypeOK, ClearAndBump, Stages
      <4>5. QED
        BY <4>3, <4>4
    <3>3. CASE RunBump(w)
      <4>1. epoch' \in [Scopes -> Nat] /\ bumpedAt' \in [Writes -> Nat]
        BY <3>0, <3>3, UpsertType DEF RunBump
      <4>2. epoch[Scope(w)] + 1 \in Nat
        BY <3>0 DEF TypeOK
      <4>3. QED
        BY <3>3, <4>1, <4>2 DEF TypeOK, RunBump, machineVars
    <3>4. CASE BumpLands(w)
      <4>1. reply[w] \in Nat
        BY DEF TypeOK
      <4>2. /\ lastSeen' \in [Machines -> [Scopes -> Nat]]
            /\ cache' \in [Machines -> [Keys -> CellType]]
        BY <3>0, <3>4, <4>1, LandedType DEF BumpLands
      <4>3. QED
        BY <3>4, <4>2 DEF TypeOK, BumpLands, Stages
    <3>5. CASE BumpFails(w)
      <4>1. /\ stage' \in [Writes -> Stages]
            /\ pending' \in [Machines -> [Scopes -> PendingType]]
        BY <3>5, FailFirstType DEF BumpFails
      <4>2. QED
        BY <3>5, <4>1 DEF TypeOK, BumpFails
    <3>6. CASE BumpBreaks(w)
      BY <3>6 DEF TypeOK, BumpBreaks, Stages, machineVars
    <3>7. QED
      BY <2>2, <3>1, <3>2, <3>3, <3>4, <3>5, <3>6 DEF WriteStep, BumpSettles
  <2>3. ASSUME NEW m \in Machines, NEW s \in Scopes, RetryStep(m, s) PROVE TypeOK'
    <3>0. pending[m][s] \in PendingType /\ epoch[s] + 1 \in Nat
      BY DEF TypeOK
    <3>1. CASE RetryFires(m, s)
      <4>1. [pending[m][s] EXCEPT !.phase = "flying"] \in PendingType
        BY <3>0, PendingUpdates
      <4>2. pending' \in [Machines -> [Scopes -> PendingType]]
        <5>1. CASE ending[m]
          <6>1. pending' = [pending EXCEPT ![m][s] = NoPending]
            BY <3>1, <5>1 DEF RetryFires
          <6>2. QED
            BY <6>1, RecordTypes DEF TypeOK
        <5>2. CASE ~ending[m]
          <6>1. pending' = [pending EXCEPT ![m][s] = [@ EXCEPT !.phase = "flying"]]
            BY <3>1, <5>2 DEF RetryFires
          <6>2. QED
            BY <4>1, <6>1 DEF TypeOK
        <5>3. QED
          BY <5>1, <5>2
      <4>3. QED
        BY <3>1, <4>2 DEF TypeOK, RetryFires, Unannounced, writeVars
    <3>2. CASE RunRetry(m, s)
      <4>1. [pending[m][s] EXCEPT !.reply = epoch[s] + 1] \in PendingType
        BY <3>0, PendingUpdates
      <4>2. pending' \in [Machines -> [Scopes -> PendingType]]
        BY <3>2, <4>1 DEF TypeOK, RunRetry
      <4>3. QED
        BY <3>2, <4>2, UpsertType DEF TypeOK, RunRetry, writeVars
    <3>3. CASE RetryLands(m, s)
      <4>1. pending[m][s].reply \in Nat
        BY <3>0, FieldTypes
      <4>2. /\ lastSeen' \in [Machines -> [Scopes -> Nat]]
            /\ cache' \in [Machines -> [Keys -> CellType]]
        BY <3>3, <4>1, LandedType DEF RetryLands
      <4>3. pending' \in [Machines -> [Scopes -> PendingType]]
        BY <3>3, RecordTypes DEF TypeOK, RetryLands
      <4>4. QED
        BY <3>3, <4>2, <4>3 DEF TypeOK, RetryLands, writeVars
    <3>4. CASE RetryFails(m, s)
      <4>1. Retry(pending[m][s].attempt + 1) \in PendingType
        <5>1. pending[m][s].attempt + 1 \in Nat
          BY <3>0, FieldTypes
        <5>2. QED
          BY <5>1, RecordTypes
      <4>2. pending' \in [Machines -> [Scopes -> PendingType]]
        <5>1. NoPending \in PendingType
          BY RecordTypes
        <5>2. PICK p \in PendingType : pending' = [pending EXCEPT ![m][s] = p]
          BY <3>4, <4>1, <5>1 DEF RetryFails
        <5>3. QED
          BY <5>2 DEF TypeOK
      <4>3. QED
        BY <3>4, <4>2 DEF TypeOK, RetryFails, Unannounced, writeVars
    <3>5. CASE RetryBreaks(m, s)
      BY <3>5, RecordTypes DEF TypeOK, RetryBreaks, Unannounced, writeVars
    <3>6. QED
      BY <2>3, <3>1, <3>2, <3>3, <3>4, <3>5 DEF RetryStep, RetrySettles
  <2>4. ASSUME NEW m \in Machines, CheckStep(m) PROVE TypeOK'
    <3>1. CASE RunCheck(m)
      <4>1. [phase |-> "read", rows |-> epoch] \in CheckType
        BY DEF TypeOK, CheckType
      <4>2. QED
        BY <3>1, <4>1 DEF TypeOK, RunCheck, writeVars
    <3>2. CASE CheckLands(m)
      <4>1. \A K : Without(cache[m], K) \in [Keys -> CellType]
        BY WithoutType DEF TypeOK
      <4>2. cache' \in [Machines -> [Keys -> CellType]]
        BY <3>2, <4>1 DEF TypeOK, CheckLands
      <4>3. check[m].rows \in [Scopes -> Nat]
        BY FieldTypes DEF TypeOK
      <4>4. [s \in Scopes |-> Adopt(lastSeen[m][s], check[m].rows[s])] \in [Scopes -> Nat]
        <5>1. ASSUME NEW s \in Scopes
              PROVE  Adopt(lastSeen[m][s], check[m].rows[s]) \in Nat
          <6>1. lastSeen[m][s] \in Nat /\ check[m].rows[s] \in Nat
            BY <4>3 DEF TypeOK
          <6>2. QED
            BY <6>1, AdoptType
        <5>2. QED
          BY <5>1
      <4>5. lastSeen' \in [Machines -> [Scopes -> Nat]]
        BY <3>2, <4>4 DEF TypeOK, CheckLands
      <4>6. QED
        BY <3>2, <4>2, <4>5, RecordTypes DEF TypeOK, CheckLands, writeVars
    <3>3. CASE CheckFails(m)
      BY <3>3, RecordTypes DEF TypeOK, CheckFails, writeVars
    <3>4. QED
      BY <2>4, <3>1, <3>2, <3>3 DEF CheckStep
  <2>5. ASSUME NEW m \in Machines, Drain(m) PROVE TypeOK'
    BY <2>5 DEF TypeOK, Drain, writeVars
  <2>6. ASSUME NEW m \in Machines, Restart(m) PROVE TypeOK'
    BY <2>6, RecordTypes DEF TypeOK, Restart, Stages
  <2>7. CASE UNCHANGED vars
    BY <2>7 DEF TypeOK, vars, writeVars, machineVars
  <2>8. QED
    BY <2>1, <2>2, <2>3, <2>4, <2>5, <2>6, <2>7 DEF Next
<1>3. QED
  BY <1>1, <1>2, PTL DEF Spec

-----------------------------------------------------------------------------
(* No number is ahead of the table.                                        *)

LEMMA UpsertEpoch ==
  ASSUME TypeOK, NEW m \in Machines, NEW s \in Scopes, RunUpsert(m, s)
  PROVE  /\ \A t \in Scopes : epoch[t] \in Nat /\ epoch'[t] \in Nat /\ epoch[t] <= epoch'[t]
         /\ epoch'[s] = epoch[s] + 1
BY DEF TypeOK, RunUpsert

LEMMA UpsertWrite ==
  ASSUME TypeOK, EpochsBounded, NEW m \in Machines, NEW s \in Scopes, RunUpsert(m, s),
         NEW w \in Writes
  PROVE  /\ bumpedAt'[w] <= epoch'[Scope(w)]
         /\ stage[w] = "idle" => bumpedAt'[w] = 0
         /\ reply[w] <= epoch'[Scope(w)]
<1>1. bumpedAt'[w] = IF /\ w \in Committed /\ bumpedAt[w] = 0
                        /\ OwnerOf[w] = m /\ Scope(w) = s
                     THEN epoch[s] + 1 ELSE bumpedAt[w]
  BY DEF RunUpsert
<1>2. /\ bumpedAt[w] \in Nat /\ bumpedAt[w] <= epoch[Scope(w)]
      /\ reply[w] \in Nat /\ reply[w] <= epoch[Scope(w)]
      /\ stage[w] = "idle" => bumpedAt[w] = 0
  BY DEF TypeOK, EpochsBounded
<1>3. /\ epoch[Scope(w)] \in Nat /\ epoch'[Scope(w)] \in Nat
      /\ epoch[Scope(w)] <= epoch'[Scope(w)] /\ epoch'[s] = epoch[s] + 1
  BY UpsertEpoch, WriteTypes
<1>4. QED
  BY <1>1, <1>2, <1>3 DEF Committed

LEMMA LandedBounds ==
  ASSUME TypeOK, EpochsBounded, NEW m \in Machines, NEW s \in Scopes, NEW e \in Nat,
         e <= epoch[s], Landed(m, s, e)
  PROVE  \A n \in Machines, t \in Scopes : lastSeen'[n][t] <= epoch[t]
BY DEF TypeOK, EpochsBounded, Landed, Adopt

LEMMA AfterFailureReply ==
  ASSUME NEW p \in PendingType, p.phase # "flying" => p.reply = 0
  PROVE  /\ AfterFailure(p).reply = p.reply
         /\ AfterFailure(p).phase # "flying" => AfterFailure(p).reply = 0
BY DEF AfterFailure, PendingType, Retry

LEMMA FailFirstBounds ==
  ASSUME TypeOK, EpochsBounded, NEW w \in Writes, FailFirst(w)
  PROVE  \A n \in Machines, t \in Scopes :
           /\ pending'[n][t].reply = pending[n][t].reply
           /\ pending'[n][t].phase # "flying" => pending'[n][t].reply = 0
<1> SUFFICES ASSUME NEW n \in Machines, NEW t \in Scopes
    PROVE  /\ pending'[n][t].reply = pending[n][t].reply
           /\ pending'[n][t].phase # "flying" => pending'[n][t].reply = 0
  OBVIOUS
<1>1. /\ pending[n][t] \in PendingType
      /\ pending[n][t].phase # "flying" => pending[n][t].reply = 0
  BY DEF TypeOK, EpochsBounded
<1>2. pending'[n][t] = pending[n][t] \/ pending'[n][t] = AfterFailure(pending[n][t])
  BY WriteTypes DEF TypeOK, FailFirst
<1>3. QED
  BY <1>1, <1>2, AfterFailureReply

LEMMA EmptyReplies ==
  /\ NoPending.reply = 0 /\ NoPending.phase = "none"
  /\ \A n : Retry(n).reply = 0 /\ Retry(n).phase = "waiting"
  /\ \A s \in Scopes : NoCheck.rows[s] = 0
BY DEF NoPending, Retry, NoCheck

LEMMA BoundedInit == Init => EpochsBounded
<1> SUFFICES ASSUME Init PROVE EpochsBounded
  OBVIOUS
<1>1. \A m \in Machines, s \in Scopes :
        /\ lastSeen[m][s] <= epoch[s] /\ check[m].rows[s] <= epoch[s]
        /\ pending[m][s].reply <= epoch[s]
        /\ pending[m][s].phase # "flying" => pending[m][s].reply = 0
  BY EmptyReplies DEF Init
<1>2. \A w \in Writes :
        /\ reply[w] <= epoch[Scope(w)] /\ bumpedAt[w] <= epoch[Scope(w)]
        /\ stage[w] = "idle" => bumpedAt[w] = 0
  BY WriteTypes DEF Init
<1>3. QED
  BY <1>1, <1>2 DEF EpochsBounded

LEMMA BoundedStep == TypeOK /\ EpochsBounded /\ [Next]_vars => EpochsBounded'
<1> SUFFICES ASSUME TypeOK, EpochsBounded, [Next]_vars PROVE EpochsBounded'
  OBVIOUS
<1> DEFINE Numbers ==
  \A m \in Machines, s \in Scopes :
       /\ lastSeen[m][s] <= epoch[s] /\ check[m].rows[s] <= epoch[s]
       /\ pending[m][s].reply <= epoch[s]
       /\ pending[m][s].phase # "flying" => pending[m][s].reply = 0
<1> DEFINE Bumps ==
  \A w \in Writes :
       /\ reply[w] <= epoch[Scope(w)] /\ bumpedAt[w] <= epoch[Scope(w)]
       /\ stage[w] = "idle" => bumpedAt[w] = 0
<1>0. Numbers /\ Bumps
  BY DEF EpochsBounded
<1>t. /\ \A s \in Scopes : epoch[s] \in Nat
      /\ \A w \in Writes : reply[w] \in Nat /\ bumpedAt[w] \in Nat /\ Scope(w) \in Scopes
      /\ \A m \in Machines, s \in Scopes : /\ lastSeen[m][s] \in Nat
                                           /\ check[m].rows[s] \in Nat
                                           /\ pending[m][s].reply \in Nat
  BY WriteTypes, FieldTypes DEF TypeOK
<1>1. ASSUME NEW m \in Machines, NEW k \in Keys, CacheStep(m, k) PROVE EpochsBounded'
  BY <1>1 DEF EpochsBounded, CacheStep, Load, Evict, writeVars, Scope
<1>2. ASSUME NEW w \in Writes, WriteStep(w) PROVE EpochsBounded'
  <2>1. CASE Commit(w)
    BY <2>1 DEF TypeOK, EpochsBounded, Commit, machineVars, Scope
  <2>2. CASE ClearAndBump(w)
    <3>1. Numbers'
      <4>1. CASE ending[OwnerOf[w]]
        BY <1>0, <2>2, <4>1, FailFirstBounds DEF ClearAndBump
      <4>2. CASE ~ending[OwnerOf[w]]
        BY <1>0, <2>2, <4>2 DEF ClearAndBump
      <4>3. QED
        BY <4>1, <4>2
    <3>2. Bumps'
      BY <1>0, <2>2 DEF TypeOK, ClearAndBump, FailFirst, Scope
    <3>3. QED
      BY <3>1, <3>2 DEF EpochsBounded
  <2>3. CASE RunBump(w)
    <3>0. OwnerOf[w] \in Machines /\ Scope(w) \in Scopes /\ RunUpsert(OwnerOf[w], Scope(w))
      BY <2>3, WriteTypes DEF RunBump
    <3>1. Numbers'
      BY <1>0, <1>t, <2>3, <3>0, UpsertEpoch DEF RunBump, machineVars
    <3>2. ASSUME NEW v \in Writes
          PROVE  /\ reply'[v] <= epoch'[Scope(v)] /\ bumpedAt'[v] <= epoch'[Scope(v)]
                 /\ stage'[v] = "idle" => bumpedAt'[v] = 0
      <4>1. reply'[v] = IF v = w THEN epoch[Scope(w)] + 1 ELSE reply[v]
        BY <2>3 DEF RunBump, TypeOK
      <4>2. reply[v] <= epoch[Scope(v)] /\ reply[v] \in Nat /\ Scope(v) \in Scopes
        BY <1>0, <1>t
      <4>3. /\ bumpedAt'[v] <= epoch'[Scope(v)]
            /\ stage[v] = "idle" => bumpedAt'[v] = 0
            /\ epoch[Scope(v)] \in Nat /\ epoch'[Scope(v)] \in Nat
            /\ epoch[Scope(v)] <= epoch'[Scope(v)]
            /\ epoch'[Scope(w)] = epoch[Scope(w)] + 1
        BY <3>0, <4>2, UpsertEpoch, UpsertWrite
      <4>4. stage' = stage
        BY <2>3 DEF RunBump
      <4>5. QED
        BY <4>1, <4>2, <4>3, <4>4
    <3>3. Bumps'
      BY <3>2 DEF Scope
    <3>4. QED
      BY <3>1, <3>3 DEF EpochsBounded
  <2>4. CASE BumpLands(w)
    <3>1. Numbers'
      <4>1. \A n \in Machines, t \in Scopes : lastSeen'[n][t] <= epoch[t]
        BY <1>0, <1>t, <2>4, LandedBounds, WriteTypes DEF BumpLands
      <4>2. QED
        BY <1>0, <2>4, <4>1 DEF BumpLands
    <3>2. Bumps'
      BY <1>0, <1>t, <2>4 DEF TypeOK, BumpLands, Scope
    <3>3. QED
      BY <3>1, <3>2 DEF EpochsBounded
  <2>5. CASE BumpFails(w)
    <3>1. Numbers'
      BY <1>0, <2>5, FailFirstBounds DEF BumpFails
    <3>2. Bumps'
      BY <1>0, <1>t, <2>5 DEF TypeOK, BumpFails, FailFirst, Scope
    <3>3. QED
      BY <3>1, <3>2 DEF EpochsBounded
  <2>6. CASE BumpBreaks(w)
    BY <2>6 DEF TypeOK, EpochsBounded, BumpBreaks, machineVars, Scope
  <2>7. QED
    BY <1>2, <2>1, <2>2, <2>3, <2>4, <2>5, <2>6 DEF WriteStep, BumpSettles
<1>3. ASSUME NEW m \in Machines, NEW s \in Scopes, RetryStep(m, s) PROVE EpochsBounded'
  <2>0. ASSUME NEW p \in PendingType, pending' = [pending EXCEPT ![m][s] = p],
               p.reply = 0, UNCHANGED <<epoch, check>>,
               \A n \in Machines, t \in Scopes : lastSeen'[n][t] <= epoch[t]
        PROVE  Numbers'
    BY <1>0, <1>t, <2>0 DEF TypeOK
  <2>1. CASE RetryFires(m, s)
    <3>1. \A n \in Machines, t \in Scopes :
             /\ pending'[n][t].reply = pending[n][t].reply \/ pending'[n][t].reply = 0
             /\ pending'[n][t].phase # "flying" => pending'[n][t].reply = 0
      <4>1. CASE ending[m]
        <5>1. pending' = [pending EXCEPT ![m][s] = NoPending]
          BY <2>1, <4>1 DEF RetryFires
        <5>2. QED
          BY <1>0, <5>1, EmptyReplies DEF TypeOK
      <4>2. CASE ~ending[m]
        <5>1. pending' = [pending EXCEPT ![m][s].phase = "flying"]
          BY <2>1, <4>2 DEF RetryFires
        <5>2. \A n \in Machines, t \in Scopes : pending[n][t] \in PendingType
          BY DEF TypeOK
        <5>3. \A n \in Machines, t \in Scopes :
                 IF n = m /\ t = s
                 THEN /\ pending'[n][t].reply = pending[n][t].reply
                      /\ pending'[n][t].phase = "flying"
                 ELSE pending'[n][t] = pending[n][t]
          BY <5>1, <5>2 DEF TypeOK, PendingType
        <5>4. QED
          BY <1>0, <5>3
      <4>3. QED
        BY <4>1, <4>2
    <3>2. Numbers'
      BY <1>0, <1>t, <2>1, <3>1 DEF RetryFires
    <3>3. Bumps'
      BY <1>0, <2>1 DEF RetryFires, writeVars, Scope
    <3>4. QED
      BY <3>2, <3>3 DEF EpochsBounded
  <2>2. CASE RunRetry(m, s)
    <3>0. RunUpsert(m, s)
      BY <2>2 DEF RunRetry
    <3>1. \A n \in Machines, t \in Scopes :
             \/ pending'[n][t] = pending[n][t]
             \/ /\ n = m /\ t = s
                /\ pending'[n][t].phase = "flying" /\ pending'[n][t].reply = epoch[s] + 1
      BY <2>2 DEF TypeOK, RunRetry, PendingType
    <3>2. Numbers'
      BY <1>0, <1>t, <2>2, <3>0, <3>1, UpsertEpoch DEF RunRetry
    <3>3. Bumps'
      <4>1. ASSUME NEW w \in Writes
            PROVE  /\ reply[w] <= epoch'[Scope(w)] /\ bumpedAt'[w] <= epoch'[Scope(w)]
                   /\ stage[w] = "idle" => bumpedAt'[w] = 0
        BY <3>0, UpsertWrite
      <4>2. stage' = stage /\ reply' = reply
        BY <2>2 DEF RunRetry, writeVars
      <4>3. QED
        BY <4>1, <4>2 DEF Scope
    <3>4. QED
      BY <3>2, <3>3 DEF EpochsBounded
  <2>3. CASE RetryLands(m, s)
    <3>1. \A n \in Machines, t \in Scopes : lastSeen'[n][t] <= epoch[t]
      BY <1>0, <1>t, <2>3, LandedBounds DEF RetryLands
    <3>2. Numbers'
      <4>1. PICK p \in {NoPending, Retry(0)} : pending' = [pending EXCEPT ![m][s] = p]
        <5>1. CASE pending[m][s].again
          BY <2>3, <5>1 DEF RetryLands
        <5>2. CASE ~pending[m][s].again
          BY <2>3, <5>2 DEF RetryLands
        <5>3. QED
          BY <5>1, <5>2
      <4>2. p \in PendingType /\ p.reply = 0
        BY <4>1, RecordTypes, EmptyReplies
      <4>3. UNCHANGED <<epoch, check>>
        BY <2>3 DEF RetryLands
      <4>4. QED
        BY <2>0, <3>1, <4>1, <4>2, <4>3
    <3>3. Bumps'
      BY <1>0, <2>3 DEF RetryLands, writeVars, Scope
    <3>4. QED
      BY <3>2, <3>3 DEF EpochsBounded
  <2>4. CASE RetryFails(m, s)
    <3>1. Numbers'
      <4>1. PICK p \in {NoPending, Retry(pending[m][s].attempt + 1)} :
                 pending' = [pending EXCEPT ![m][s] = p]
        BY <2>4 DEF RetryFails
      <4>2. pending[m][s].attempt + 1 \in Nat
        BY FieldTypes DEF TypeOK
      <4>3. p \in PendingType /\ p.reply = 0
        BY <4>1, <4>2, RecordTypes, EmptyReplies
      <4>4. UNCHANGED <<epoch, check, lastSeen>>
        BY <2>4 DEF RetryFails
      <4>5. QED
        BY <1>0, <2>0, <4>1, <4>3, <4>4
    <3>2. Bumps'
      BY <1>0, <2>4 DEF RetryFails, writeVars, Scope
    <3>3. QED
      BY <3>1, <3>2 DEF EpochsBounded
  <2>5. CASE RetryBreaks(m, s)
    <3>1. Numbers'
      BY <1>0, <2>0, <2>5, RecordTypes, EmptyReplies DEF RetryBreaks
    <3>2. Bumps'
      BY <1>0, <2>5 DEF RetryBreaks, writeVars, Scope
    <3>3. QED
      BY <3>1, <3>2 DEF EpochsBounded
  <2>6. QED
    BY <1>3, <2>1, <2>2, <2>3, <2>4, <2>5 DEF RetryStep, RetrySettles
<1>4. ASSUME NEW m \in Machines, CheckStep(m) PROVE EpochsBounded'
  <2>1. CASE RunCheck(m)
    <3>1. \A n \in Machines, t \in Scopes :
            check'[n].rows[t] = check[n].rows[t] \/ check'[n].rows[t] = epoch[t]
      <4>1. check' = [check EXCEPT ![m] = [phase |-> "read", rows |-> epoch]]
        BY <2>1 DEF RunCheck
      <4>2. QED
        BY <4>1 DEF TypeOK
    <3>2. QED
      BY <1>0, <1>t, <2>1, <3>1 DEF EpochsBounded, RunCheck, writeVars, Scope
  <2>2. CASE CheckLands(m)
    <3>1. \A n \in Machines, t \in Scopes : lastSeen'[n][t] <= epoch[t]
      BY <1>0, <1>t, <2>2 DEF TypeOK, CheckLands, Adopt
    <3>2. \A n \in Machines, t \in Scopes :
            check'[n].rows[t] = check[n].rows[t] \/ check'[n].rows[t] = 0
      BY <2>2, EmptyReplies DEF TypeOK, CheckLands
    <3>3. QED
      BY <1>0, <1>t, <2>2, <3>1, <3>2 DEF EpochsBounded, CheckLands, writeVars, Scope
  <2>3. CASE CheckFails(m)
    <3>1. \A n \in Machines, t \in Scopes :
            check'[n].rows[t] = check[n].rows[t] \/ check'[n].rows[t] = 0
      BY <2>3, EmptyReplies DEF TypeOK, CheckFails
    <3>2. QED
      BY <1>0, <1>t, <2>3, <3>1 DEF EpochsBounded, CheckFails, writeVars, Scope
  <2>4. QED
    BY <1>4, <2>1, <2>2, <2>3 DEF CheckStep
<1>5. ASSUME NEW m \in Machines, Drain(m) PROVE EpochsBounded'
  BY <1>5 DEF EpochsBounded, Drain, writeVars, Scope
<1>6. ASSUME NEW m \in Machines, Restart(m) PROVE EpochsBounded'
  <2>1. Numbers'
    BY <1>0, <1>t, <1>6, EmptyReplies DEF TypeOK, Restart
  <2>2. Bumps'
    BY <1>0, <1>t, <1>6 DEF TypeOK, Restart, Scope
  <2>3. QED
    BY <2>1, <2>2 DEF EpochsBounded
<1>7. CASE UNCHANGED vars
  BY <1>7 DEF EpochsBounded, vars, writeVars, machineVars, Scope
<1>8. QED
  BY <1>1, <1>2, <1>3, <1>4, <1>5, <1>6, <1>7 DEF Next

-----------------------------------------------------------------------------
(* The numbers a machine's own bumps bring back are its own.               *)

LEMMA OneBumperKept ==
  ASSUME OneBumper, bumpedAt' = bumpedAt,
         \A v \in Writes : reply'[v] = reply[v] \/ reply'[v] = 0,
         \A m \in Machines, s \in Scopes :
           pending'[m][s].reply = pending[m][s].reply \/ pending'[m][s].reply = 0
  PROVE  OneBumper'
BY WriteTypes DEF OneBumper, Scope

(* Outside the two steps in which the database runs a bump.                *)
LEMMA QuietStep ==
  ASSUME TypeOK, EpochsBounded, [Next]_vars,
         \A w \in Writes : ~RunBump(w),
         \A m \in Machines, s \in Scopes : ~RunRetry(m, s)
  PROVE  /\ epoch' = epoch /\ bumpedAt' = bumpedAt
         /\ \A v \in Writes : reply'[v] = reply[v] \/ reply'[v] = 0
         /\ \A m \in Machines, s \in Scopes :
              pending'[m][s].reply = pending[m][s].reply \/ pending'[m][s].reply = 0
<1> DEFINE Quiet ==
  /\ epoch' = epoch /\ bumpedAt' = bumpedAt
  /\ \A v \in Writes : reply'[v] = reply[v] \/ reply'[v] = 0
  /\ \A m \in Machines, s \in Scopes :
       pending'[m][s].reply = pending[m][s].reply \/ pending'[m][s].reply = 0
<1> SUFFICES Quiet
  OBVIOUS
<1>1. ASSUME NEW m \in Machines, NEW k \in Keys, CacheStep(m, k) PROVE Quiet
  BY <1>1 DEF CacheStep, Load, Evict, writeVars
<1>2. ASSUME NEW w \in Writes, WriteStep(w) PROVE Quiet
  <2>1. CASE Commit(w)
    BY <2>1 DEF Commit, machineVars
  <2>2. CASE ClearAndBump(w)
    <3>1. CASE ending[OwnerOf[w]]
      BY <2>2, <3>1, FailFirstBounds DEF ClearAndBump
    <3>2. CASE ~ending[OwnerOf[w]]
      BY <2>2, <3>2 DEF ClearAndBump
    <3>3. QED
      BY <3>1, <3>2
  <2>3. CASE BumpLands(w)
    BY <2>3 DEF TypeOK, BumpLands
  <2>4. CASE BumpFails(w)
    BY <2>4, FailFirstBounds DEF TypeOK, BumpFails
  <2>5. CASE BumpBreaks(w)
    BY <2>5 DEF BumpBreaks, machineVars
  <2>6. QED
    BY <1>2, <2>1, <2>2, <2>3, <2>4, <2>5 DEF WriteStep, BumpSettles
<1>3. ASSUME NEW m \in Machines, NEW s \in Scopes, RetryStep(m, s) PROVE Quiet
  <2>1. CASE RetryFires(m, s)
    <3>1. CASE ending[m]
      <4>1. pending' = [pending EXCEPT ![m][s] = NoPending]
        BY <2>1, <3>1 DEF RetryFires
      <4>2. QED
        BY <2>1, <4>1, EmptyReplies DEF TypeOK, RetryFires, writeVars
    <3>2. CASE ~ending[m]
      <4>1. pending' = [pending EXCEPT ![m][s].phase = "flying"]
        BY <2>1, <3>2 DEF RetryFires
      <4>2. \A n \in Machines, t \in Scopes : pending[n][t] \in PendingType
        BY DEF TypeOK
      <4>3. \A n \in Machines, t \in Scopes : pending'[n][t].reply = pending[n][t].reply
        BY <4>1, <4>2 DEF TypeOK, PendingType
      <4>4. QED
        BY <2>1, <4>3 DEF RetryFires, writeVars
    <3>3. QED
      BY <3>1, <3>2
  <2>2. ASSUME NEW p, pending' = [pending EXCEPT ![m][s] = p], p.reply = 0,
               UNCHANGED <<writeVars, epoch, bumpedAt>>
        PROVE  Quiet
    BY <2>2 DEF TypeOK, writeVars
  <2>3. CASE RetryLands(m, s)
    <3>1. CASE pending[m][s].again
      BY <2>2, <2>3, <3>1, EmptyReplies DEF RetryLands
    <3>2. CASE ~pending[m][s].again
      BY <2>2, <2>3, <3>2, EmptyReplies DEF RetryLands
    <3>3. QED
      BY <3>1, <3>2
  <2>4. CASE RetryFails(m, s)
    <3>1. PICK p \in {NoPending, Retry(pending[m][s].attempt + 1)} :
               pending' = [pending EXCEPT ![m][s] = p]
      BY <2>4 DEF RetryFails
    <3>2. p.reply = 0
      BY <3>1, EmptyReplies
    <3>3. UNCHANGED <<writeVars, epoch, bumpedAt>>
      BY <2>4 DEF RetryFails
    <3>4. QED
      BY <2>2, <3>1, <3>2, <3>3
  <2>5. CASE RetryBreaks(m, s)
    BY <2>2, <2>5, EmptyReplies DEF RetryBreaks
  <2>6. QED
    BY <1>3, <2>1, <2>3, <2>4, <2>5 DEF RetryStep, RetrySettles
<1>4. ASSUME NEW m \in Machines, CheckStep(m) PROVE Quiet
  BY <1>4 DEF CheckStep, RunCheck, CheckLands, CheckFails, writeVars
<1>5. ASSUME NEW m \in Machines, Drain(m) PROVE Quiet
  BY <1>5 DEF Drain, writeVars
<1>6. ASSUME NEW m \in Machines, Restart(m) PROVE Quiet
  BY <1>6, EmptyReplies DEF TypeOK, Restart
<1>7. CASE UNCHANGED vars
  BY <1>7 DEF vars, writeVars, machineVars
<1>8. QED
  BY <1>1, <1>2, <1>3, <1>4, <1>5, <1>6, <1>7 DEF Next

LEMMA OneBumperInit == Init => OneBumper
BY DEF Init, OneBumper

LEMMA OneBumperStep == TypeOK /\ EpochsBounded /\ OneBumper /\ [Next]_vars => OneBumper'
<1> SUFFICES ASSUME TypeOK, EpochsBounded, OneBumper, [Next]_vars PROVE OneBumper'
  OBVIOUS
<1>t. \A w \in Writes : /\ reply[w] \in Nat /\ bumpedAt[w] \in Nat /\ epoch[Scope(w)] \in Nat
                        /\ reply[w] <= epoch[Scope(w)] /\ bumpedAt[w] <= epoch[Scope(w)]
                       /\ OwnerOf[w] \in Machines /\ Scope(w) \in Scopes
  BY WriteTypes DEF TypeOK, EpochsBounded
<1>p. \A m \in Machines, s \in Scopes : /\ pending[m][s].reply \in Nat /\ epoch[s] \in Nat
                                        /\ pending[m][s].reply <= epoch[s]
  BY FieldTypes DEF TypeOK, EpochsBounded
(* A number that did not exist before is met only where it was made.       *)
<1>1. ASSUME NEW m \in Machines, NEW s \in Scopes, RunUpsert(m, s), NEW w \in Writes
      PROVE  \/ bumpedAt'[w] = bumpedAt[w]
             \/ bumpedAt'[w] = epoch[s] + 1 /\ OwnerOf[w] = m /\ Scope(w) = s
  BY <1>1 DEF RunUpsert
<1>2. ASSUME NEW u \in Writes, RunBump(u) PROVE OneBumper'
  <2> DEFINE m == OwnerOf[u]
             s == Scope(u)
  <2>1. m \in Machines /\ s \in Scopes /\ RunUpsert(m, s) /\ pending' = pending
    BY <1>2, WriteTypes DEF RunBump, machineVars
  <2>2. \A v \in Writes : reply'[v] = IF v = u THEN epoch[s] + 1 ELSE reply[v]
    BY <1>2 DEF RunBump, TypeOK
  <2>3. ASSUME NEW w \in Writes, bumpedAt'[w] # 0, NEW v \in Writes, Scope(v) = Scope(w),
               reply'[v] = bumpedAt'[w]
        PROVE  OwnerOf[v] = OwnerOf[w]
    <3>1. \/ bumpedAt'[w] = bumpedAt[w]
          \/ bumpedAt'[w] = epoch[s] + 1 /\ OwnerOf[w] = m /\ Scope(w) = s
      BY <1>1, <2>1
    <3>2. CASE v = u
      BY <1>t, <2>2, <2>3, <3>1, <3>2
    <3>3. CASE v # u
      BY <1>t, <2>2, <2>3, <3>1, <3>3 DEF OneBumper
    <3>4. QED
      BY <3>2, <3>3
  <2>4. ASSUME NEW w \in Writes, bumpedAt'[w] # 0, NEW n \in Machines,
               pending[n][Scope(w)].reply = bumpedAt'[w]
        PROVE  n = OwnerOf[w]
    <3>1. \/ bumpedAt'[w] = bumpedAt[w]
          \/ bumpedAt'[w] = epoch[s] + 1 /\ OwnerOf[w] = m /\ Scope(w) = s
      BY <1>1, <2>1
    <3>2. QED
      BY <1>t, <1>p, <2>4, <3>1 DEF OneBumper
  <2>5. QED
    BY <2>1, <2>3, <2>4 DEF OneBumper, Scope
<1>3. ASSUME NEW m \in Machines, NEW s \in Scopes, RunRetry(m, s) PROVE OneBumper'
  <2>1. RunUpsert(m, s) /\ reply' = reply
    BY <1>3 DEF RunRetry, writeVars
  <2>2. \A n \in Machines, t \in Scopes :
          pending'[n][t].reply = IF n = m /\ t = s THEN epoch[s] + 1 ELSE pending[n][t].reply
    <3>1. \A n \in Machines, t \in Scopes : pending[n][t] \in PendingType
      BY DEF TypeOK
    <3>2. QED
      BY <1>3, <3>1 DEF RunRetry, TypeOK, PendingType
  <2>3. ASSUME NEW w \in Writes, bumpedAt'[w] # 0, NEW v \in Writes, Scope(v) = Scope(w),
               reply[v] = bumpedAt'[w]
        PROVE  OwnerOf[v] = OwnerOf[w]
    <3>1. \/ bumpedAt'[w] = bumpedAt[w]
          \/ bumpedAt'[w] = epoch[s] + 1 /\ OwnerOf[w] = m /\ Scope(w) = s
      BY <1>1, <2>1
    <3>2. QED
      BY <1>t, <2>3, <3>1 DEF OneBumper
  <2>4. ASSUME NEW w \in Writes, bumpedAt'[w] # 0, NEW n \in Machines,
               pending'[n][Scope(w)].reply = bumpedAt'[w]
        PROVE  n = OwnerOf[w]
    <3>1. \/ bumpedAt'[w] = bumpedAt[w]
          \/ bumpedAt'[w] = epoch[s] + 1 /\ OwnerOf[w] = m /\ Scope(w) = s
      BY <1>1, <2>1
    <3>2. CASE n = m /\ Scope(w) = s
      BY <1>t, <2>2, <2>4, <3>1, <3>2
    <3>3. CASE ~(n = m /\ Scope(w) = s)
      BY <1>t, <1>p, <2>2, <2>4, <3>1, <3>3 DEF OneBumper
    <3>4. QED
      BY <3>2, <3>3
  <2>5. QED
    BY <2>1, <2>3, <2>4 DEF OneBumper, Scope
<1>4. CASE /\ \A w \in Writes : ~RunBump(w)
           /\ \A m \in Machines, s \in Scopes : ~RunRetry(m, s)
  BY <1>4, QuietStep, OneBumperKept
<1>5. QED
  BY <1>2, <1>3, <1>4

-----------------------------------------------------------------------------
(* Coherence.                                                              *)

LEMMA ToldCommitted ==
  ASSUME TypeOK, EpochsBounded, NEW m \in Machines
  PROVE  Told(m) \subseteq Committed
BY DEF TypeOK, EpochsBounded, Told, Committed, Stages

LEMMA WithoutCell ==
  ASSUME NEW c, NEW K, NEW k \in Keys
  PROVE  /\ k \in K => Without(c, K)[k].st # "held"
         /\ k \notin K => Without(c, K)[k] = c[k]
BY DEF Without, Empty

(* Steps in which the machines are told of nothing new.                    *)
LEMMA NothingNew ==
  ASSUME TypeOK, EpochsBounded, Coherence, Committed' = Committed,
         \A m \in Machines : Told(m)' \subseteq Told(m),
         \A m \in Machines, k \in Keys :
           cache'[m][k] = cache[m][k] \/ cache'[m][k].st # "held"
  PROVE  Coherence'
BY DEF Coherence, Stale, Touched

(* A machine adopts the number e of scope s, of a bump of its own.         *)
LEMMA LandedCoherence ==
  ASSUME TypeOK, EpochsBounded, Coherence,
         NEW m \in Machines, NEW s \in Scopes, NEW e \in Nat \ {0},
         \A w \in Writes : Scope(w) = s /\ bumpedAt[w] = e => OwnerOf[w] = m,
         Landed(m, s, e), bumpedAt' = bumpedAt,
         \A w \in Writes : stage'[w] \in {"idle", "committed"}
                            => stage'[w] = stage[w],
         \A w \in Writes : stage[w] \in {"idle", "committed"}
                            => stage'[w] = stage[w]
  PROVE  Coherence'
<1> SUFFICES ASSUME NEW n \in Machines, NEW k \in Keys, NEW w \in Writes,
                    w \in Told(n)', Stale(n, k, w)'
             PROVE  FALSE
  BY DEF Coherence, Told
<1>0. /\ lastSeen[n] \in [Scopes -> Nat] /\ lastSeen[n][Scope(w)] \in Nat
      /\ bumpedAt[w] \in Nat /\ Scope(w) \in Scopes
  BY WriteTypes DEF TypeOK
<1>1. cache'[n][k].st = "held" /\ k \in Touched(w) /\ w \notin cache'[n][k].data
  BY DEF Stale, Touched
<1>2. w \in Committed
  BY DEF Stale, Committed
<1>3. CASE w \in Told(n)
  <2>1. ~Stale(n, k, w)
    BY <1>3 DEF Coherence
  <2>2. cache'[n][k] = cache[n][k]
    BY <1>1, WithoutCell DEF Landed, TypeOK
  <2>3. QED
    BY <1>1, <1>2, <2>1, <2>2 DEF Stale
<1>4. CASE w \notin Told(n)
  <2>1. OwnerOf[w] # n
    BY <1>4 DEF Told
  <2>2. /\ bumpedAt[w] # 0 /\ bumpedAt[w] <= lastSeen'[n][Scope(w)]
        /\ ~(bumpedAt[w] <= lastSeen[n][Scope(w)])
    BY <1>4, <2>1 DEF Told, Scope
  <2>3. n = m /\ Scope(w) = s /\ lastSeen'[n][Scope(w)] = Adopt(lastSeen[m][s], e)
    BY <2>2, <1>0 DEF Landed, TypeOK
  <2>4. bumpedAt[w] <= e /\ lastSeen[m][s] < bumpedAt[w]
    BY <1>0, <2>2, <2>3 DEF Adopt
  <2>5. bumpedAt[w] # e
    BY <2>1, <2>3
  <2>6. GapDrops(lastSeen[m][s], e)
    BY <1>0, <2>3, <2>4, <2>5 DEF GapDrops
  <2>7. cache'[m] = Without(cache[m], Effect(s))
    BY <2>6 DEF Landed, TypeOK
  <2>8. k \in Effect(s)
    BY <1>1, <2>3, EffectCovers
  <2>9. QED
    BY <1>1, <2>3, <2>7, <2>8, WithoutCell
<1>5. QED
  BY <1>3, <1>4

LEMMA CoherenceInit == Init => Coherence
BY DEF Init, Coherence, Told, Stale, Empty

(* A bump in the database tells nobody anything: its number is still ahead  *)
(* of every machine.                                                       *)
LEMMA UpsertCoherence ==
  ASSUME TypeOK, EpochsBounded, Coherence, NEW m \in Machines, NEW s \in Scopes,
         RunUpsert(m, s), UNCHANGED <<stage, lastSeen, cache>>
  PROVE  Coherence'
<1>1. ASSUME NEW n \in Machines, NEW w \in Told(n)' PROVE w \in Told(n)
  <2>1. /\ bumpedAt'[w] = bumpedAt[w] \/ (bumpedAt'[w] = epoch[Scope(w)] + 1)
        /\ w \in Writes
    BY <1>1 DEF RunUpsert, Told
  <2>2. /\ lastSeen[n][Scope(w)] <= epoch[Scope(w)] /\ lastSeen[n][Scope(w)] \in Nat
        /\ epoch[Scope(w)] \in Nat
    BY <2>1, WriteTypes DEF TypeOK, EpochsBounded
  <2>3. QED
    BY <1>1, <2>1, <2>2 DEF Told, Scope
<1>2. Committed' = Committed
  BY DEF Committed
<1>3. QED
  BY <1>1, <1>2, NothingNew

LEMMA CoherenceStep ==
  TypeOK /\ EpochsBounded /\ OneBumper /\ Coherence /\ [Next]_vars => Coherence'
<1> SUFFICES ASSUME TypeOK, EpochsBounded, OneBumper, Coherence, [Next]_vars
             PROVE  Coherence'
  OBVIOUS
<1>1. ASSUME NEW m \in Machines, NEW k \in Keys, CacheStep(m, k) PROVE Coherence'
  <2>0. UNCHANGED <<writeVars, bumpedAt, lastSeen>>
    BY <1>1 DEF CacheStep, Load, Evict
  <2>1. ASSUME NEW n \in Machines, NEW j \in Keys, NEW w \in Told(n)', Stale(n, j, w)'
        PROVE  FALSE
    <3>1. w \in Told(n) /\ w \in Committed
      BY <2>0, <2>1, ToldCommitted DEF Told, writeVars, Scope
    <3>2. cache'[n][j].st = "held" /\ j \in Touched(w) /\ w \notin cache'[n][j].data
      BY <2>1 DEF Stale, Touched
    <3>3. CASE Load(m, k)
      <4>1. cache'[n][j] = cache[n][j] \/ cache'[n][j].data = Committed
        BY <3>3, RecordTypes DEF TypeOK, Load, CellType
      <4>2. QED
        BY <3>1, <3>2, <4>1 DEF Coherence, Stale
    <3>4. CASE Evict(m, k)
      <4>1. cache'[n][j] = cache[n][j] \/ cache'[n][j].st = "absent"
        BY <3>4 DEF TypeOK, Evict, Empty
      <4>2. QED
        BY <3>1, <3>2, <4>1 DEF Coherence, Stale
    <3>5. QED
      BY <1>1, <3>3, <3>4 DEF CacheStep
  <2>2. QED
    BY <2>1 DEF Coherence
<1>2. ASSUME NEW u \in Writes, WriteStep(u) PROVE Coherence'
  <2>0. OwnerOf[u] \in Machines /\ Scope(u) \in Scopes
    BY WriteTypes
  <2>1. CASE Commit(u)
    <3>1. ASSUME NEW n \in Machines, NEW j \in Keys, NEW w \in Told(n)', Stale(n, j, w)'
          PROVE  FALSE
      <4>1. w # u /\ w \in Told(n)
        BY <2>1, <3>1 DEF TypeOK, EpochsBounded, Commit, machineVars, Told, Scope
      <4>2. Stale(n, j, w)
        BY <2>1, <3>1, <4>1, ToldCommitted DEF Commit, machineVars, Stale, Touched
      <4>3. QED
        BY <4>1, <4>2 DEF Coherence
    <3>2. QED
      BY <3>1 DEF Coherence
  <2>2. CASE ClearAndBump(u)
    <3>0. /\ stage' = [stage EXCEPT ![u] = "failed"] \/ stage' = [stage EXCEPT ![u] = "bumping"]
          /\ stage[u] = "committed" /\ UNCHANGED <<bumpedAt, lastSeen>>
          /\ cache' = [cache EXCEPT ![OwnerOf[u]] = Without(@, Touched(u))]
      BY <2>2 DEF ClearAndBump, FailFirst
    <3>1. ASSUME NEW n \in Machines, NEW j \in Keys, NEW w \in Told(n)', Stale(n, j, w)'
          PROVE  FALSE
      <4>1. /\ cache'[n][j].st = "held" /\ j \in Touched(w) /\ w \notin cache'[n][j].data
            /\ w \in Committed
        BY <3>0, <3>1 DEF TypeOK, Stale, Touched, Committed
      <4>2. cache'[n][j] = cache[n][j]
        BY <3>0, <4>1, WithoutCell DEF TypeOK
      <4>3. w \in Told(n) \/ (w = u /\ n = OwnerOf[u])
        BY <3>0, <3>1 DEF TypeOK, Told, Scope
      <4>4. CASE w = u /\ n = OwnerOf[u]
        <5>1. cache'[n] = Without(cache[n], Touched(u))
          BY <3>0, <4>4, <2>0 DEF TypeOK
        <5>2. QED
          BY <4>1, <4>4, <5>1, WithoutCell
      <4>5. CASE w \in Told(n)
        BY <4>1, <4>2, <4>5 DEF Coherence, Stale
      <4>6. QED
        BY <4>3, <4>4, <4>5
    <3>2. QED
      BY <3>1 DEF Coherence
  <2>3. CASE RunBump(u)
    <3>1. RunUpsert(OwnerOf[u], Scope(u)) /\ UNCHANGED <<stage, lastSeen, cache>>
      BY <2>3 DEF RunBump, machineVars
    <3>2. QED
      BY <2>0, <3>1, UpsertCoherence
  <2>4. CASE BumpLands(u)
    <3>1. reply[u] \in Nat \ {0} /\ Landed(OwnerOf[u], Scope(u), reply[u])
      BY <2>4 DEF TypeOK, BumpLands
    <3>2. \A w \in Writes : Scope(w) = Scope(u) /\ bumpedAt[w] = reply[u]
                            => OwnerOf[w] = OwnerOf[u]
      BY <3>1 DEF OneBumper
    <3>3. stage' = [stage EXCEPT ![u] = "done"] /\ stage[u] = "bumping" /\ bumpedAt' = bumpedAt
      BY <2>4 DEF BumpLands
    <3>4. \A w \in Writes : /\ stage'[w] \in {"idle", "committed"} => stage'[w] = stage[w]
                            /\ stage[w] \in {"idle", "committed"} => stage'[w] = stage[w]
      BY <3>3 DEF TypeOK
    <3>5. QED
      BY <2>0, <3>1, <3>2, <3>3, <3>4, LandedCoherence
  <2>5. CASE BumpFails(u) \/ BumpBreaks(u)
    <3>1. /\ stage' = [stage EXCEPT ![u] = "failed"] \/ stage' = [stage EXCEPT ![u] = "done"]
          /\ stage[u] = "bumping" /\ UNCHANGED <<bumpedAt, lastSeen, cache>>
      BY <2>5 DEF BumpFails, BumpBreaks, FailFirst, machineVars
    <3>2. Committed' = Committed /\ \A m \in Machines : Told(m)' \subseteq Told(m)
      BY <3>1 DEF TypeOK, Committed, Told, Scope
    <3>3. QED
      BY <3>1, <3>2, NothingNew
  <2>7. QED
    BY <1>2, <2>1, <2>2, <2>3, <2>4, <2>5 DEF WriteStep, BumpSettles
<1>3. ASSUME NEW m \in Machines, NEW s \in Scopes, RetryStep(m, s) PROVE Coherence'
  <2>1. CASE RetryFires(m, s) \/ RetryFails(m, s) \/ RetryBreaks(m, s)
    <3>1. UNCHANGED <<stage, bumpedAt, lastSeen, cache>>
      BY <2>1 DEF RetryFires, RetryFails, RetryBreaks, writeVars
    <3>2. Committed' = Committed /\ \A n \in Machines : Told(n)' \subseteq Told(n)
      BY <3>1 DEF Committed, Told, Scope
    <3>3. QED
      BY <3>1, <3>2, NothingNew
  <2>2. CASE RunRetry(m, s)
    <3>1. RunUpsert(m, s) /\ UNCHANGED <<stage, lastSeen, cache>>
      BY <2>2 DEF RunRetry, writeVars
    <3>2. QED
      BY <3>1, UpsertCoherence
  <2>3. CASE RetryLands(m, s)
    <3>0. pending[m][s].reply \in Nat \ {0}
      BY <2>3, FieldTypes DEF TypeOK, RetryLands
    <3>1. Landed(m, s, pending[m][s].reply) /\ UNCHANGED <<stage, bumpedAt>>
      BY <2>3 DEF RetryLands, writeVars
    <3>2. \A w \in Writes : Scope(w) = s /\ bumpedAt[w] = pending[m][s].reply
                            => OwnerOf[w] = m
      BY <3>0 DEF OneBumper
    <3>3. QED
      BY <3>0, <3>1, <3>2, LandedCoherence
  <2>4. QED
    BY <1>3, <2>1, <2>2, <2>3 DEF RetryStep, RetrySettles
<1>4. ASSUME NEW m \in Machines, CheckStep(m) PROVE Coherence'
  <2>1. CASE RunCheck(m) \/ CheckFails(m)
    <3>1. UNCHANGED <<stage, bumpedAt, lastSeen, cache>>
      BY <2>1 DEF RunCheck, CheckFails, writeVars
    <3>2. Committed' = Committed /\ \A n \in Machines : Told(n)' \subseteq Told(n)
      BY <3>1 DEF Committed, Told, Scope
    <3>3. QED
      BY <3>1, <3>2, NothingNew
  <2>2. CASE CheckLands(m)
    <3> DEFINE K == EffectOfAll({s \in Scopes : Moved(m, s)})
                      \cup EffectOfAll({s \in Scopes : FirstSeen(m, s)})
    <3>0. /\ UNCHANGED <<stage, bumpedAt>>
          /\ cache' = [cache EXCEPT ![m] = Without(@, K)]
          /\ lastSeen' = [lastSeen EXCEPT ![m] =
                             [s \in Scopes |-> Adopt(@[s], check[m].rows[s])]]
      BY <2>2 DEF CheckLands, writeVars
    <3>1. ASSUME NEW n \in Machines, NEW j \in Keys, NEW w \in Told(n)', Stale(n, j, w)'
          PROVE  FALSE
      <4>0. w \in Writes /\ Scope(w) \in Scopes
        BY <3>1, WriteTypes DEF Told
      <4>1. /\ cache'[n][j].st = "held" /\ j \in Touched(w) /\ w \notin cache'[n][j].data
            /\ w \in Committed
        BY <3>0, <3>1 DEF Stale, Touched, Committed
      <4>2. cache'[n][j] = cache[n][j]
        BY <3>0, <4>1, WithoutCell DEF TypeOK
      <4>3. CASE w \in Told(n)
        BY <4>1, <4>2, <4>3 DEF Coherence, Stale
      <4>4. CASE w \notin Told(n)
        <5>1. n = m
          BY <3>0, <3>1, <4>4 DEF TypeOK, Told, Scope
        <5>2. lastSeen'[m][Scope(w)] = Adopt(lastSeen[m][Scope(w)], check[m].rows[Scope(w)])
          BY <3>0, <4>0 DEF TypeOK
        <5>3. /\ bumpedAt[w] <= lastSeen'[m][Scope(w)]
              /\ ~(bumpedAt[w] <= lastSeen[m][Scope(w)])
          BY <3>0, <3>1, <4>4, <5>1 DEF Told, Scope
        <5>4. /\ lastSeen[m][Scope(w)] \in Nat /\ check[m].rows[Scope(w)] \in Nat
              /\ bumpedAt[w] \in Nat
          BY <4>0, FieldTypes DEF TypeOK
        <5>5. check[m].rows[Scope(w)] > lastSeen[m][Scope(w)]
          BY <5>2, <5>3, <5>4 DEF Adopt
        <5>6. Moved(m, Scope(w)) \/ FirstSeen(m, Scope(w))
          BY <5>5 DEF Moved, FirstSeen
        <5>7. \A S \in SUBSET Scopes : Scope(w) \in S => j \in EffectOfAll(S)
          BY <4>0, <4>1, EffectCovers DEF EffectOfAll
        <5>8. j \in K
          BY <4>0, <5>6, <5>7
        <5>9. cache'[m] = Without(cache[m], K)
          BY <3>0 DEF TypeOK
        <5>10. QED
          BY <4>1, <5>1, <5>8, <5>9, WithoutCell
      <4>5. QED
        BY <4>3, <4>4
    <3>2. QED
      BY <3>1 DEF Coherence
  <2>3. QED
    BY <1>4, <2>1, <2>2 DEF CheckStep
<1>5. ASSUME NEW m \in Machines, Drain(m) PROVE Coherence'
  <2>1. UNCHANGED <<stage, bumpedAt, lastSeen, cache>>
    BY <1>5 DEF Drain, writeVars
  <2>2. Committed' = Committed /\ \A n \in Machines : Told(n)' \subseteq Told(n)
    BY <2>1 DEF Committed, Told, Scope
  <2>3. QED
    BY <2>1, <2>2, NothingNew
<1>6. ASSUME NEW m \in Machines, Restart(m) PROVE Coherence'
  <2>1. /\ bumpedAt' = bumpedAt
        /\ cache' = [cache EXCEPT ![m] = [k \in Keys |-> Empty]]
        /\ lastSeen' = [lastSeen EXCEPT ![m] = [s \in Scopes |-> 0]]
        /\ \A w \in Writes : /\ OwnerOf[w] # m => stage'[w] = stage[w]
                             /\ (stage'[w] = "idle") = (stage[w] = "idle")
    BY <1>6 DEF TypeOK, Restart
  <2>2. ASSUME NEW n \in Machines, NEW j \in Keys, NEW w \in Told(n)', Stale(n, j, w)'
        PROVE  FALSE
    <3>1. n # m
      BY <2>1, <2>2 DEF TypeOK, Stale, Empty
    <3>2. cache'[n] = cache[n] /\ lastSeen'[n] = lastSeen[n]
      BY <2>1, <3>1 DEF TypeOK
    <3>3. w \in Told(n)
      BY <2>1, <2>2, <3>1, <3>2 DEF Told, Scope
    <3>4. Stale(n, j, w)
      BY <2>1, <2>2, <3>2, <3>3, ToldCommitted DEF Stale, Touched
    <3>5. QED
      BY <3>3, <3>4 DEF Coherence
  <2>3. QED
    BY <2>2 DEF Coherence
<1>7. CASE UNCHANGED vars
  <2>1. UNCHANGED <<stage, bumpedAt, lastSeen, cache>>
    BY <1>7 DEF vars, writeVars, machineVars
  <2>2. Committed' = Committed /\ \A n \in Machines : Told(n)' \subseteq Told(n)
    BY <2>1 DEF Committed, Told, Scope
  <2>3. QED
    BY <2>1, <2>2, NothingNew
<1>8. QED
  BY <1>1, <1>2, <1>3, <1>4, <1>5, <1>6, <1>7 DEF Next

(* No machine ever holds an answer that a write it has been told of made    *)
(* stale, for any number of machines, writes, keys and retries.             *)
THEOREM CoherenceCorrect == Spec => []Coherence
<1>1. Spec => []TypeOK
  BY TypeCorrect
<1>2. Spec => [](EpochsBounded /\ OneBumper /\ Coherence)
  <2>1. Init => EpochsBounded /\ OneBumper /\ Coherence
    BY BoundedInit, OneBumperInit, CoherenceInit
  <2>2. TypeOK /\ (EpochsBounded /\ OneBumper /\ Coherence) /\ [Next]_vars
          => (EpochsBounded /\ OneBumper /\ Coherence)'
    BY BoundedStep, OneBumperStep, CoherenceStep
  <2>3. QED
    BY <1>1, <2>1, <2>2, PTL DEF Spec
<1>3. QED
  BY <1>2, PTL

-----------------------------------------------------------------------------
(* A failed write is either announced, given up or covered by a retry whose *)
(* query is still to run.                                                  *)
Owed(w)   == stage[w] = "failed" /\ bumpedAt[w] = 0 /\ w \notin gaveUp
Covers(p) == p.phase # "none" /\ (p.phase = "flying" /\ p.reply # 0 => p.again)

LEMMA ForgottenUnfolded ==
  NoWriteForgotten <=> \A w \in Writes : Owed(w) => Covers(pending[OwnerOf[w]][Scope(w)])
BY DEF NoWriteForgotten, Owed, Covers

LEMMA RetryCovers == \A n : Covers(Retry(n))
BY DEF Covers, Retry

LEMMA AfterFailureCovers ==
  ASSUME NEW p \in PendingType, p.phase # "flying" => p.reply = 0
  PROVE  Covers(AfterFailure(p))
<1>1. CASE p.phase = "none"
  BY <1>1, RetryCovers DEF AfterFailure
<1>2. CASE p.phase = "flying"
  <2>1. [p EXCEPT !.again = TRUE].again = TRUE /\ [p EXCEPT !.again = TRUE].phase = "flying"
    BY <1>2 DEF PendingType
  <2> QED BY <1>2, <2>1 DEF AfterFailure, Covers
<1>3. CASE p.phase = "waiting"
  BY <1>3 DEF AfterFailure, Covers
<1> QED BY <1>1, <1>2, <1>3 DEF PendingType

LEMMA SentCovers ==
  ASSUME NEW p \in PendingType, p.reply = 0
  PROVE  Covers([p EXCEPT !.phase = "flying"])
<1>1. /\ [p EXCEPT !.phase = "flying"].phase = "flying"
      /\ [p EXCEPT !.phase = "flying"].reply = 0
  BY DEF PendingType
<1> QED BY <1>1 DEF Covers

(* A first bump fails: its own write is covered, and no cover is lost.     *)
LEMMA FailFirstCovers ==
  ASSUME TypeOK, EpochsBounded, NoWriteForgotten, NEW w \in Writes, FailFirst(w),
         bumpedAt' = bumpedAt, gaveUp' = gaveUp
  PROVE  NoWriteForgotten'
<1> DEFINE o == OwnerOf[w]
           t == Scope(w)
<1>0. o \in Machines /\ t \in Scopes /\ pending[o][t] \in PendingType
  BY WriteTypes DEF TypeOK
<1>1. Covers(AfterFailure(pending[o][t]))
  BY <1>0, AfterFailureCovers DEF EpochsBounded
<1>2. \A v \in Writes : Owed(v)' => Covers(pending'[OwnerOf[v]][Scope(v)])
  <2> SUFFICES ASSUME NEW v \in Writes, Owed(v)'
               PROVE  Covers(pending'[OwnerOf[v]][Scope(v)])
    OBVIOUS
  <2>0. OwnerOf[v] \in Machines /\ Scope(v) \in Scopes
    BY WriteTypes
  <2>1. CASE OwnerOf[v] = o /\ Scope(v) = t
    <3>1. pending'[o][t] = AfterFailure(pending[o][t])
      BY <1>0 DEF TypeOK, FailFirst
    <3> QED BY <1>1, <2>1, <3>1
  <2>2. CASE ~(OwnerOf[v] = o /\ Scope(v) = t)
    <3>1. pending'[OwnerOf[v]][Scope(v)] = pending[OwnerOf[v]][Scope(v)]
      BY <1>0, <2>0, <2>2 DEF TypeOK, FailFirst
    <3>2. Owed(v)
      BY <2>2 DEF TypeOK, FailFirst, Owed
    <3> QED BY <3>1, <3>2, ForgottenUnfolded
  <2> QED BY <2>1, <2>2
<1> QED BY <1>2 DEF NoWriteForgotten, Owed, Covers

(* A step that makes no write owed and leaves the retries alone.           *)
LEMMA NothingOwed ==
  ASSUME NoWriteForgotten, pending' = pending,
         \A w \in Writes : Owed(w)' => Owed(w)
  PROVE  NoWriteForgotten'
<1>1. \A w \in Writes : Owed(w)' => Covers(pending'[OwnerOf[w]][Scope(w)])
  BY ForgottenUnfolded
<1> QED BY <1>1 DEF NoWriteForgotten, Owed, Covers

(* One retry changes: its own writes are covered by what it becomes.       *)
LEMMA OneRetry ==
  ASSUME TypeOK, NoWriteForgotten, NEW m \in Machines, NEW s \in Scopes, NEW p,
         pending' = [pending EXCEPT ![m][s] = p],
         \A w \in Writes : Owed(w)' => Owed(w),
         \A w \in Writes : Owed(w)' /\ OwnerOf[w] = m /\ Scope(w) = s => Covers(p)
  PROVE  NoWriteForgotten'
<1>1. \A w \in Writes : Owed(w)' => Covers(pending'[OwnerOf[w]][Scope(w)])
  <2> SUFFICES ASSUME NEW w \in Writes, Owed(w)'
               PROVE  Covers(pending'[OwnerOf[w]][Scope(w)])
    OBVIOUS
  <2>0. OwnerOf[w] \in Machines /\ Scope(w) \in Scopes
    BY WriteTypes
  <2>1. CASE OwnerOf[w] = m /\ Scope(w) = s
    <3>1. pending'[m][s] = p
      BY DEF TypeOK
    <3> QED BY <2>1, <3>1
  <2>2. CASE ~(OwnerOf[w] = m /\ Scope(w) = s)
    <3>1. pending'[OwnerOf[w]][Scope(w)] = pending[OwnerOf[w]][Scope(w)]
      BY <2>0, <2>2 DEF TypeOK
    <3> QED BY <3>1, ForgottenUnfolded
  <2> QED BY <2>1, <2>2
<1> QED BY <1>1 DEF NoWriteForgotten, Owed, Covers

LEMMA RetryForgets ==
  ASSUME TypeOK, EpochsBounded, NoWriteForgotten,
         NEW m \in Machines, NEW s \in Scopes, RetryStep(m, s)
  PROVE  NoWriteForgotten'
<1>0. /\ pending[m][s] \in PendingType
      /\ pending[m][s].phase # "flying" => pending[m][s].reply = 0
  BY DEF TypeOK, EpochsBounded
<1>1. CASE RetryFires(m, s)
  <2>1. CASE ending[m]
    <3>1. /\ pending' = [pending EXCEPT ![m][s] = NoPending]
          /\ \A w \in Writes : Owed(w)' => Owed(w) /\ ~(OwnerOf[w] = m /\ Scope(w) = s)
      BY <1>1, <2>1 DEF RetryFires, Owed, Unannounced, writeVars
    <3> QED BY <3>1, OneRetry
  <2>2. CASE ~ending[m]
    <3>1. /\ pending' = [pending EXCEPT ![m][s] = [@ EXCEPT !.phase = "flying"]]
          /\ pending[m][s].phase = "waiting"
          /\ \A w \in Writes : Owed(w)' => Owed(w)
      BY <1>1, <2>2 DEF RetryFires, Owed, writeVars
    <3>2. Covers([pending[m][s] EXCEPT !.phase = "flying"])
      BY <1>0, <3>1, SentCovers
    <3> QED BY <3>1, <3>2, OneRetry
  <2> QED BY <2>1, <2>2
<1>2. CASE RunRetry(m, s)
  <2>1. /\ pending' = [pending EXCEPT ![m][s] = [@ EXCEPT !.reply = epoch[s] + 1]]
        /\ RunUpsert(m, s) /\ stage' = stage /\ gaveUp' = gaveUp
    BY <1>2 DEF RunRetry, writeVars
  <2>2. epoch[s] \in Nat
    BY DEF TypeOK
  <2>3. \A w \in Writes : Owed(w)' => Owed(w) /\ ~(OwnerOf[w] = m /\ Scope(w) = s)
    BY <2>1, <2>2 DEF TypeOK, RunUpsert, Owed, Committed
  <2> QED BY <2>1, <2>3, OneRetry
<1>3. CASE RetryLands(m, s)
  <2>1. /\ pending' = [pending EXCEPT ![m][s] = IF @.again THEN Retry(0) ELSE NoPending]
        /\ pending[m][s].phase = "flying" /\ pending[m][s].reply # 0
        /\ \A w \in Writes : Owed(w)' => Owed(w)
    BY <1>3 DEF RetryLands, Owed, writeVars
  <2>2. \A w \in Writes : Owed(w)' /\ OwnerOf[w] = m /\ Scope(w) = s
          => Covers(IF pending[m][s].again THEN Retry(0) ELSE NoPending)
    BY <2>1, ForgottenUnfolded, RetryCovers DEF Covers
  <2> QED BY <2>1, <2>2, OneRetry
<1>4. CASE RetryFails(m, s)
  <2>1. CASE pending[m][s].attempt + 1 >= MaxRetries
    <3>1. /\ pending' = [pending EXCEPT ![m][s] = NoPending]
          /\ \A w \in Writes : Owed(w)' => Owed(w) /\ ~(OwnerOf[w] = m /\ Scope(w) = s)
      BY <1>4, <2>1 DEF RetryFails, Owed, Unannounced, writeVars
    <3> QED BY <3>1, OneRetry
  <2>2. CASE ~(pending[m][s].attempt + 1 >= MaxRetries)
    <3>1. /\ pending' = [pending EXCEPT ![m][s] = Retry(pending[m][s].attempt + 1)]
          /\ \A w \in Writes : Owed(w)' => Owed(w)
      BY <1>4, <2>2 DEF RetryFails, Owed, writeVars
    <3> QED BY <3>1, RetryCovers, OneRetry
  <2> QED BY <2>1, <2>2
<1>5. CASE RetryBreaks(m, s)
  <2>1. /\ pending' = [pending EXCEPT ![m][s] = NoPending]
        /\ \A w \in Writes : Owed(w)' => Owed(w) /\ ~(OwnerOf[w] = m /\ Scope(w) = s)
    BY <1>5 DEF RetryBreaks, Owed, Unannounced, writeVars
  <2> QED BY <2>1, OneRetry
<1> QED BY <1>1, <1>2, <1>3, <1>4, <1>5 DEF RetryStep, RetrySettles

LEMMA WriteForgets ==
  ASSUME TypeOK, EpochsBounded, NoWriteForgotten, NEW w \in Writes, WriteStep(w)
  PROVE  NoWriteForgotten'
<1>1. CASE Commit(w) \/ BumpBreaks(w)
  <2>1. pending' = pending /\ \A v \in Writes : Owed(v)' => Owed(v)
    BY <1>1 DEF TypeOK, Commit, BumpBreaks, Owed, machineVars
  <2> QED BY <2>1, NothingOwed
<1>2. CASE BumpLands(w)
  <2>1. pending' = pending /\ \A v \in Writes : Owed(v)' => Owed(v)
    BY <1>2 DEF TypeOK, BumpLands, Owed
  <2> QED BY <2>1, NothingOwed
<1>3. CASE RunBump(w)
  <2>1. pending' = pending /\ stage' = stage /\ gaveUp' = gaveUp
        /\ \A v \in Writes : bumpedAt'[v] = bumpedAt[v] \/ bumpedAt'[v] = epoch[Scope(w)] + 1
    BY <1>3 DEF RunBump, RunUpsert, machineVars
  <2>2. epoch[Scope(w)] \in Nat
    BY WriteTypes DEF TypeOK
  <2>3. \A v \in Writes : Owed(v)' => Owed(v)
    BY <2>1, <2>2 DEF Owed
  <2> QED BY <2>1, <2>3, NothingOwed
<1>4. CASE ClearAndBump(w) /\ ending[OwnerOf[w]]
  BY <1>4, FailFirstCovers DEF ClearAndBump
<1>5. CASE ClearAndBump(w) /\ ~ending[OwnerOf[w]]
  <2>1. pending' = pending /\ \A v \in Writes : Owed(v)' => Owed(v)
    BY <1>5 DEF TypeOK, ClearAndBump, Owed
  <2> QED BY <2>1, NothingOwed
<1>6. CASE BumpFails(w)
  BY <1>6, FailFirstCovers DEF BumpFails
<1> QED BY <1>1, <1>2, <1>3, <1>4, <1>5, <1>6 DEF WriteStep, BumpSettles

LEMMA ForgottenStep ==
  TypeOK /\ EpochsBounded /\ NoWriteForgotten /\ [Next]_vars => NoWriteForgotten'
<1> SUFFICES ASSUME TypeOK, EpochsBounded, NoWriteForgotten, [Next]_vars
             PROVE  NoWriteForgotten'
  OBVIOUS
<1>1. ASSUME NEW m \in Machines, NEW k \in Keys, CacheStep(m, k) PROVE NoWriteForgotten'
  <2>1. pending' = pending /\ \A v \in Writes : Owed(v)' => Owed(v)
    BY <1>1 DEF CacheStep, Load, Evict, Owed, writeVars
  <2> QED BY <2>1, NothingOwed
<1>2. ASSUME NEW m \in Machines, CheckStep(m) \/ Drain(m) PROVE NoWriteForgotten'
  <2>1. pending' = pending /\ \A v \in Writes : Owed(v)' => Owed(v)
    BY <1>2 DEF CheckStep, RunCheck, CheckLands, CheckFails, Drain, Owed, writeVars
  <2> QED BY <2>1, NothingOwed
<1>3. ASSUME NEW m \in Machines, Restart(m) PROVE NoWriteForgotten'
  <2>1. \A w \in Writes : Owed(w)' => Owed(w) /\ OwnerOf[w] # m
    BY <1>3 DEF TypeOK, Restart, Owed
  <2>2. \A w \in Writes : OwnerOf[w] # m => pending'[OwnerOf[w]] = pending[OwnerOf[w]]
    BY <1>3, WriteTypes DEF TypeOK, Restart
  <2>3. \A w \in Writes : Owed(w)' => Covers(pending'[OwnerOf[w]][Scope(w)])
    BY <2>1, <2>2, ForgottenUnfolded
  <2> QED BY <2>3 DEF NoWriteForgotten, Owed, Covers
<1>4. CASE UNCHANGED vars
  <2>1. pending' = pending /\ \A v \in Writes : Owed(v)' => Owed(v)
    BY <1>4 DEF vars, writeVars, machineVars, Owed
  <2> QED BY <2>1, NothingOwed
<1> QED BY <1>1, <1>2, <1>3, <1>4, WriteForgets, RetryForgets DEF Next

(* A failed write that has not been given up always has a retry ahead of   *)
(* it: one PendingBump per scope is enough, for any number of writes.      *)
THEOREM NoWriteForgottenCorrect == Spec => []NoWriteForgotten
<1>1. Init => NoWriteForgotten
  BY DEF Init, NoWriteForgotten
<1>2. Spec => []EpochsBounded
  BY BoundedInit, BoundedStep, TypeCorrect, PTL DEF Spec
<1> QED BY <1>1, <1>2, ForgottenStep, TypeCorrect, PTL DEF Spec

-----------------------------------------------------------------------------
(* Numbers only grow while a process lives.                                *)

LEMMA AdoptGrows ==
  ASSUME NEW a \in Nat, NEW b \in Nat
  PROVE  Adopt(a, b) >= a
BY DEF Adopt

LEMMA LandedGrows ==
  ASSUME TypeOK, NEW m \in Machines, NEW s \in Scopes, NEW e \in Nat, Landed(m, s, e)
  PROVE  \A n \in Machines, t \in Scopes : lastSeen'[n][t] >= lastSeen[n][t]
<1>1. \A n \in Machines, t \in Scopes : lastSeen[n][t] \in Nat
  BY DEF TypeOK
<1>2. \A n \in Machines, t \in Scopes :
        lastSeen'[n][t] = lastSeen[n][t] \/ lastSeen'[n][t] = Adopt(lastSeen[n][t], e)
  BY DEF TypeOK, Landed
<1> QED BY <1>1, <1>2, AdoptGrows

LEMMA CheckGrows ==
  ASSUME TypeOK, NEW m \in Machines, CheckLands(m)
  PROVE  \A n \in Machines, t \in Scopes : lastSeen'[n][t] >= lastSeen[n][t]
<1>1. \A n \in Machines, t \in Scopes : lastSeen[n][t] \in Nat /\ check[n].rows[t] \in Nat
  BY FieldTypes DEF TypeOK
<1>2. \A n \in Machines, t \in Scopes :
        \/ lastSeen'[n][t] = lastSeen[n][t]
        \/ lastSeen'[n][t] = Adopt(lastSeen[n][t], check[n].rows[t])
  BY DEF TypeOK, CheckLands
<1> QED BY <1>1, <1>2, AdoptGrows

LEMMA StepGrows ==
  ASSUME TypeOK, Next, \A m \in Machines : ~Restart(m)
  PROVE  \A m \in Machines, s \in Scopes : lastSeen'[m][s] >= lastSeen[m][s]
<1>0. \A m \in Machines, s \in Scopes : lastSeen[m][s] \in Nat
  BY DEF TypeOK
<1>1. ASSUME NEW w \in Writes, BumpLands(w)
      PROVE  \A m \in Machines, s \in Scopes : lastSeen'[m][s] >= lastSeen[m][s]
  <2>1. reply[w] \in Nat
    BY DEF TypeOK
  <2> QED BY <1>1, <2>1, WriteTypes, LandedGrows DEF BumpLands
<1>2. ASSUME NEW m \in Machines, NEW s \in Scopes, RetryLands(m, s)
      PROVE  \A n \in Machines, t \in Scopes : lastSeen'[n][t] >= lastSeen[n][t]
  <2>1. pending[m][s].reply \in Nat
    BY FieldTypes DEF TypeOK
  <2> QED BY <1>2, <2>1, LandedGrows DEF RetryLands
<1>3. \/ UNCHANGED lastSeen
      \/ \E w \in Writes : BumpLands(w)
      \/ \E m \in Machines, s \in Scopes : RetryLands(m, s)
      \/ \E m \in Machines : CheckLands(m)
  BY DEF Next, CacheStep, Load, Evict, WriteStep, Commit, ClearAndBump, RunBump, BumpSettles,
         BumpFails, BumpBreaks, RetryStep, RetryFires, RunRetry, RetrySettles, RetryFails,
         RetryBreaks, CheckStep, RunCheck, CheckFails, Drain, machineVars
<1>4. CASE UNCHANGED lastSeen
  BY <1>0, <1>4
<1> QED BY <1>1, <1>2, <1>3, <1>4, CheckGrows

(* The numbers a process has seen never go backwards while it lives,       *)
(* whatever the order in which its answers arrive.                         *)
THEOREM SeenNeverBackwardsCorrect == Spec => SeenNeverBackwards
<1>1. TypeOK /\ [Next]_vars =>
        [\A m \in Machines, s \in Scopes :
           lastSeen'[m][s] >= lastSeen[m][s] \/ Restart(m)]_vars
  <2> SUFFICES ASSUME TypeOK, Next, NEW m \in Machines, NEW s \in Scopes, ~Restart(m)
               PROVE  lastSeen'[m][s] >= lastSeen[m][s]
    OBVIOUS
  <2>1. CASE \A n \in Machines : ~Restart(n)
    BY <2>1, StepGrows
  <2>2. CASE \E n \in Machines : Restart(n)
    <3>1. PICK n \in Machines : Restart(n)
      BY <2>2
    <3>2. n # m /\ lastSeen' = [lastSeen EXCEPT ![n] = [t \in Scopes |-> 0]]
      BY <3>1 DEF Restart
    <3>3. lastSeen'[m] = lastSeen[m] /\ lastSeen[m][s] \in Nat
      BY <3>2 DEF TypeOK
    <3> QED BY <3>3
  <2> QED BY <2>1, <2>2
<1> QED BY <1>1, TypeCorrect, PTL DEF Spec, SeenNeverBackwards

-----------------------------------------------------------------------------
(* Refinement: every step of the mechanism is a step of the promise.       *)

(* A step in which one machine learns and drops K, and nothing else shows. *)
LEMMA LearnMaps ==
  ASSUME Coherence', NEW m \in Machines, NEW K,
         cache \in [Machines -> [Keys -> CellType]],
         Committed' = Committed,
         cache' = [cache EXCEPT ![m] = Without(@, K)],
         Told(m) \subseteq Told(m)', Told(m)' \subseteq Committed,
         \A n \in Machines \ {m} : Told(n)' = Told(n)
  PROVE  Promise!Next
<1> DEFINE W == Told(m)'
           D == K \cap Keys
           told == [n \in Machines |-> Told(n)]
<1>1. Promise!Lacking(m, W \ told[m]) \subseteq D
  <2> SUFFICES ASSUME NEW k \in Keys, NEW w \in Told(m)', cache[m][k].st = "held",
                      k \in Touched(w), w \notin cache[m][k].data, k \notin K
               PROVE  FALSE
    BY DEF Promise!Lacking
  <2>1. cache'[m][k] = cache[m][k]
    BY DEF Without
  <2>2. Stale(m, k, w)'
    BY <2>1 DEF Stale, Touched
  <2> QED BY <2>2 DEF Coherence
<1>2. told' = [told EXCEPT ![m] = @ \cup W]
  OBVIOUS
<1>3. cache' = [cache EXCEPT ![m] = [k \in Keys |-> IF k \in D THEN Empty ELSE @[k]]]
  BY DEF Without
<1>4. W \in SUBSET Committed /\ D \in SUBSET Keys
  OBVIOUS
<1>5. Promise!Learn(m)
  BY <1>1, <1>2, <1>3, <1>4 DEF Promise!Learn, Promise!Empty, Empty
<1> QED BY <1>5 DEF Promise!Next

(* A step that the promise does not show.                                  *)
LEMMA NothingShown ==
  ASSUME cache' = cache, Committed' = Committed, \A n \in Machines : Told(n)' = Told(n)
  PROVE  UNCHANGED Promise!vars
BY DEF Promise!vars

(* A write has been committed, or its local caches dropped, or neither, as  *)
(* before the step.                                                        *)
SameTurn(w) ==
  /\ (stage'[w] \in {"idle", "committed"}) = (stage[w] \in {"idle", "committed"})
  /\ (stage'[w] = "idle") = (stage[w] = "idle")

(* What a machine has been told, before and after an answer of its bump.   *)
LEMMA LandedTold ==
  ASSUME TypeOK, EpochsBounded, NEW m \in Machines, NEW s \in Scopes, NEW e \in Nat,
         Landed(m, s, e), bumpedAt' = bumpedAt,
         \A w \in Writes : SameTurn(w)
  PROVE  /\ Told(m) \subseteq Told(m)'
         /\ \A n \in Machines \ {m} : Told(n)' = Told(n)
<1>1. \A n \in Machines, t \in Scopes :
        /\ lastSeen[n][t] \in Nat /\ lastSeen'[n][t] \in Nat
        /\ lastSeen'[n][t] >= lastSeen[n][t]
        /\ n # m => lastSeen'[n] = lastSeen[n]
  <2>1. /\ lastSeen \in [Machines -> [Scopes -> Nat]]
        /\ \A n \in Machines \ {m} : lastSeen'[n] = lastSeen[n]
    BY DEF TypeOK, Landed
  <2>2. /\ lastSeen' \in [Machines -> [Scopes -> Nat]]
        /\ \A n \in Machines, t \in Scopes : lastSeen'[n][t] >= lastSeen[n][t]
    BY LandedGrows, LandedType
  <2> QED BY <2>1, <2>2
<1>2. \A w \in Writes : bumpedAt[w] \in Nat /\ Scope(w) \in Scopes
  BY WriteTypes DEF TypeOK
<1> QED BY <1>1, <1>2 DEF Told, Scope, SameTurn

LEMMA LandedMaps ==
  ASSUME TypeOK, EpochsBounded, TypeOK', EpochsBounded', Coherence',
         NEW m \in Machines, NEW s \in Scopes, NEW e \in Nat,
         Landed(m, s, e), bumpedAt' = bumpedAt,
         \A w \in Writes : SameTurn(w)
  PROVE  Promise!Next
<1> DEFINE K == IF GapDrops(lastSeen[m][s], e) THEN Effect(s) ELSE {}
<1>1. cache \in [Machines -> [Keys -> CellType]]
  BY DEF TypeOK
<1>2. Committed' = Committed
  BY DEF Committed, SameTurn
<1>3. cache' = [cache EXCEPT ![m] = Without(@, K)]
  <2>1. CASE GapDrops(lastSeen[m][s], e)
    BY <2>1 DEF Landed
  <2>2. CASE ~GapDrops(lastSeen[m][s], e)
    <3>1. Without(cache[m], {}) = cache[m]
      BY <1>1 DEF Without
    <3> QED BY <1>1, <2>2, <3>1 DEF Landed
  <2> QED BY <2>1, <2>2
<1>4. /\ Told(m) \subseteq Told(m)'
      /\ \A n \in Machines \ {m} : Told(n)' = Told(n)
  BY LandedTold
<1>5. Told(m)' \subseteq Committed
  <2>1. Told(m)' \subseteq Committed'
    BY DEF TypeOK, EpochsBounded, Told, Committed, Stages
  <2> QED BY <1>2, <2>1
<1> QED BY <1>1, <1>2, <1>3, <1>4, <1>5, LearnMaps

(* Steps that touch one cell or drop some, and tell nobody anything.       *)
LEMMA CacheMaps ==
  ASSUME TypeOK, EpochsBounded, Coherence',
         NEW m \in Machines, NEW k \in Keys, CacheStep(m, k)
  PROVE  Promise!Next
<1>1. /\ Committed' = Committed /\ \A n \in Machines : Told(n)' = Told(n)
      /\ cache \in [Machines -> [Keys -> CellType]]
  BY DEF TypeOK, CacheStep, Load, Evict, writeVars, Committed, Told, Scope
<1>2. CASE Load(m, k)
  <2>1. Promise!Load(m, k)
    BY <1>1, <1>2 DEF Load, Promise!Load
  <2> QED BY <2>1 DEF Promise!Next
<1>3. CASE Evict(m, k)
  <2>1. cache' = [cache EXCEPT ![m] = Without(@, {k})]
    BY <1>1, <1>3 DEF Evict, Without
  <2>2. Told(m)' \subseteq Committed
    BY <1>1, ToldCommitted
  <2> QED BY <1>1, <2>1, <2>2, LearnMaps
<1> QED BY <1>2, <1>3 DEF CacheStep

LEMMA UpsertShowsNothing ==
  ASSUME TypeOK, EpochsBounded, NEW m \in Machines, NEW s \in Scopes,
         RunUpsert(m, s), UNCHANGED <<stage, lastSeen, cache>>
  PROVE  UNCHANGED Promise!vars
<1>1. Committed' = Committed
  BY DEF Committed
<1>2. ASSUME NEW n \in Machines, NEW w \in Writes
      PROVE  /\ bumpedAt'[w] # 0 /\ bumpedAt'[w] <= lastSeen[n][Scope(w)]
                <=> bumpedAt[w] # 0 /\ bumpedAt[w] <= lastSeen[n][Scope(w)]
  <2>1. \/ bumpedAt'[w] = bumpedAt[w]
        \/ bumpedAt[w] = 0 /\ bumpedAt'[w] = epoch[Scope(w)] + 1
    BY DEF RunUpsert
  <2>2. /\ lastSeen[n][Scope(w)] <= epoch[Scope(w)] /\ lastSeen[n][Scope(w)] \in Nat
        /\ epoch[Scope(w)] \in Nat
    BY WriteTypes DEF TypeOK, EpochsBounded
  <2> QED BY <2>1, <2>2
<1>3. \A n \in Machines : Told(n)' = Told(n)
  BY <1>2 DEF Told, Scope
<1> QED BY <1>1, <1>3, NothingShown

LEMMA WriteMaps ==
  ASSUME TypeOK, EpochsBounded, TypeOK', EpochsBounded', Coherence',
         NEW w \in Writes, WriteStep(w)
  PROVE  [Promise!Next]_(Promise!vars)
<1>0. /\ OwnerOf[w] \in Machines /\ Scope(w) \in Scopes /\ stage[w] \in Stages
      /\ cache \in [Machines -> [Keys -> CellType]]
  BY WriteTypes DEF TypeOK
<1>1. CASE Commit(w)
  <2>1. w \notin Committed /\ Committed' = Committed \cup {w} /\ cache' = cache
    BY <1>1 DEF TypeOK, Commit, Committed, machineVars
  <2>2. \A n \in Machines : Told(n)' = Told(n)
    BY <1>1 DEF TypeOK, EpochsBounded, Commit, machineVars, Told, Scope
  <2>3. Promise!Write
    BY <2>1, <2>2 DEF Promise!Write
  <2> QED BY <2>3 DEF Promise!Next
<1>2. CASE ClearAndBump(w)
  <2>0. /\ stage[w] = "committed" /\ UNCHANGED <<bumpedAt, lastSeen>>
        /\ stage' = [stage EXCEPT ![w] = "failed"] \/ stage' = [stage EXCEPT ![w] = "bumping"]
        /\ cache' = [cache EXCEPT ![OwnerOf[w]] = Without(@, Touched(w))]
    BY <1>2 DEF ClearAndBump, FailFirst
  <2>1. Committed' = Committed
    BY <2>0 DEF TypeOK, Committed
  <2>2. /\ Told(OwnerOf[w]) \subseteq Told(OwnerOf[w])'
        /\ \A n \in Machines \ {OwnerOf[w]} : Told(n)' = Told(n)
    BY <2>0 DEF TypeOK, Told, Scope
  <2>3. Told(OwnerOf[w])' \subseteq Committed
    <3>1. Told(OwnerOf[w])' \subseteq Committed'
      BY <1>0 DEF TypeOK, EpochsBounded, Told, Committed, Stages
    <3> QED BY <2>1, <3>1
  <2> QED BY <1>0, <2>0, <2>1, <2>2, <2>3, LearnMaps
<1>3. CASE RunBump(w)
  BY <1>0, <1>3, UpsertShowsNothing DEF RunBump, machineVars
<1>4. CASE BumpLands(w)
  <2>1. reply[w] \in Nat /\ Landed(OwnerOf[w], Scope(w), reply[w]) /\ bumpedAt' = bumpedAt
    BY <1>4 DEF TypeOK, BumpLands
  <2>2. stage[w] = "bumping" /\ stage' = [stage EXCEPT ![w] = "done"]
    BY <1>4 DEF BumpLands
  <2>3. \A v \in Writes : SameTurn(v)
    BY <2>2 DEF TypeOK, SameTurn
  <2> QED BY <1>0, <2>1, <2>3, LandedMaps
<1>5. CASE BumpFails(w) \/ BumpBreaks(w)
  <2>1. /\ stage' = [stage EXCEPT ![w] = "failed"] \/ stage' = [stage EXCEPT ![w] = "done"]
        /\ stage[w] = "bumping" /\ UNCHANGED <<bumpedAt, lastSeen, cache>>
    BY <1>5 DEF BumpFails, BumpBreaks, FailFirst, machineVars
  <2>2. Committed' = Committed /\ \A m \in Machines : Told(m)' = Told(m)
    BY <2>1 DEF TypeOK, Committed, Told, Scope
  <2> QED BY <2>1, <2>2, NothingShown
<1> QED BY <1>1, <1>2, <1>3, <1>4, <1>5 DEF WriteStep, BumpSettles

LEMMA RetryMaps ==
  ASSUME TypeOK, EpochsBounded, TypeOK', EpochsBounded', Coherence',
         NEW m \in Machines, NEW s \in Scopes, RetryStep(m, s)
  PROVE  [Promise!Next]_(Promise!vars)
<1>1. CASE RetryFires(m, s) \/ RetryFails(m, s) \/ RetryBreaks(m, s)
  <2>1. UNCHANGED <<stage, bumpedAt, lastSeen, cache>>
    BY <1>1 DEF RetryFires, RetryFails, RetryBreaks, writeVars
  <2>2. Committed' = Committed /\ \A n \in Machines : Told(n)' = Told(n)
    BY <2>1 DEF Committed, Told, Scope
  <2> QED BY <2>1, <2>2, NothingShown
<1>2. CASE RunRetry(m, s)
  BY <1>2, UpsertShowsNothing DEF RunRetry, writeVars
<1>3. CASE RetryLands(m, s)
  <2>1. pending[m][s].reply \in Nat
    BY FieldTypes DEF TypeOK
  <2>2. Landed(m, s, pending[m][s].reply) /\ UNCHANGED <<stage, bumpedAt>>
    BY <1>3 DEF RetryLands, writeVars
  <2>3. \A w \in Writes : SameTurn(w)
    BY <2>2 DEF SameTurn
  <2> QED BY <2>1, <2>2, <2>3, LandedMaps
<1> QED BY <1>1, <1>2, <1>3 DEF RetryStep, RetrySettles

LEMMA CheckMaps ==
  ASSUME TypeOK, EpochsBounded, Coherence', NEW m \in Machines, CheckStep(m) \/ Drain(m)
  PROVE  [Promise!Next]_(Promise!vars)
<1>1. CASE RunCheck(m) \/ CheckFails(m) \/ Drain(m)
  <2>1. UNCHANGED <<stage, bumpedAt, lastSeen, cache>>
    BY <1>1 DEF RunCheck, CheckFails, Drain, writeVars
  <2>2. Committed' = Committed /\ \A n \in Machines : Told(n)' = Told(n)
    BY <2>1 DEF Committed, Told, Scope
  <2> QED BY <2>1, <2>2, NothingShown
<1>2. CASE CheckLands(m)
  <2> DEFINE K == EffectOfAll({s \in Scopes : Moved(m, s)})
                    \cup EffectOfAll({s \in Scopes : FirstSeen(m, s)})
  <2>1. /\ UNCHANGED <<stage, bumpedAt>> /\ cache \in [Machines -> [Keys -> CellType]]
        /\ cache' = [cache EXCEPT ![m] = Without(@, K)]
        /\ \A n \in Machines \ {m} : lastSeen'[n] = lastSeen[n]
    BY <1>2 DEF TypeOK, CheckLands, writeVars
  <2>2. Committed' = Committed /\ \A n \in Machines \ {m} : Told(n)' = Told(n)
    BY <2>1 DEF Committed, Told, Scope
  <2>3. \A t \in Scopes : /\ lastSeen[m][t] \in Nat /\ lastSeen'[m][t] \in Nat
                          /\ lastSeen'[m][t] >= lastSeen[m][t]
    <3>1. \A t \in Scopes : lastSeen[m][t] \in Nat /\ check[m].rows[t] \in Nat
      BY FieldTypes DEF TypeOK
    <3>2. \A t \in Scopes : lastSeen'[m][t] = Adopt(lastSeen[m][t], check[m].rows[t])
      BY <1>2 DEF TypeOK, CheckLands
    <3> QED BY <3>1, <3>2, AdoptType, AdoptGrows
  <2>4. \A w \in Writes : bumpedAt[w] \in Nat /\ Scope(w) \in Scopes
    BY WriteTypes DEF TypeOK
  <2>5. Told(m) \subseteq Told(m)'
    BY <2>1, <2>3, <2>4 DEF Told, Scope
  <2>6. Told(m)' \subseteq Committed
    BY <2>1 DEF TypeOK, EpochsBounded, Told, Committed
  <2> QED BY <2>1, <2>2, <2>5, <2>6, LearnMaps
<1> QED BY <1>1, <1>2 DEF CheckStep

LEMMA RestartMaps ==
  ASSUME TypeOK, EpochsBounded, NEW m \in Machines, Restart(m)
  PROVE  Promise!Next
<1>1. /\ bumpedAt' = bumpedAt
      /\ cache' = [cache EXCEPT ![m] = [k \in Keys |-> Empty]]
      /\ lastSeen' = [lastSeen EXCEPT ![m] = [s \in Scopes |-> 0]]
      /\ \A w \in Writes : /\ OwnerOf[w] # m => stage'[w] = stage[w]
                           /\ (stage'[w] = "idle") = (stage[w] = "idle")
  BY DEF TypeOK, Restart
<1>2. Committed' = Committed
  BY <1>1 DEF Committed
<1>3. \A n \in Machines \ {m} : Told(n)' = Told(n)
  <2> SUFFICES ASSUME NEW n \in Machines \ {m} PROVE Told(n)' = Told(n)
    OBVIOUS
  <2>1. lastSeen'[n] = lastSeen[n]
    BY <1>1 DEF TypeOK
  <2>2. \A w \in Writes : OwnerOf[w] = n => stage'[w] = stage[w]
    BY <1>1
  <2> QED BY <1>1, <2>1, <2>2 DEF Told, Scope
<1>4. Told(m)' \subseteq Committed
  BY <1>1 DEF TypeOK, EpochsBounded, Told, Committed
<1>5. Promise!Restart(m)
  <2> DEFINE W == Told(m)'
  <2>1. [n \in Machines |-> Told(n)]' = [[n \in Machines |-> Told(n)] EXCEPT ![m] = W]
    BY <1>3
  <2>2. W \in SUBSET Committed
    BY <1>4
  <2> QED BY <1>1, <1>2, <2>1, <2>2 DEF Promise!Restart, Promise!Empty, Empty
<1> QED BY <1>5 DEF Promise!Next

LEMMA StepMaps ==
  TypeOK /\ EpochsBounded /\ TypeOK' /\ EpochsBounded' /\ Coherence' /\ [Next]_vars
    => [Promise!Next]_(Promise!vars)
<1> SUFFICES ASSUME TypeOK, EpochsBounded, TypeOK', EpochsBounded', Coherence', [Next]_vars
             PROVE  [Promise!Next]_(Promise!vars)
  OBVIOUS
<1>1. CASE UNCHANGED vars
  <2>1. UNCHANGED <<stage, bumpedAt, lastSeen, cache>>
    BY <1>1 DEF vars, writeVars, machineVars
  <2>2. Committed' = Committed /\ \A n \in Machines : Told(n)' = Told(n)
    BY <2>1 DEF Committed, Told, Scope
  <2> QED BY <2>1, <2>2, NothingShown
<1> QED BY <1>1, CacheMaps, WriteMaps, RetryMaps, CheckMaps, RestartMaps DEF Next

(* The mechanism of utils/cache-epoch.ts implements the promise of         *)
(* Invalidation.tla: whoever has learnt of a write holds nothing it made   *)
(* stale, and learning is all that ever drops an answer.                   *)
THEOREM ImplementsPromiseCorrect == Spec => ImplementsPromise
<1>1. Init => Promise!Init
  <2> SUFFICES ASSUME Init PROVE Promise!Init
    OBVIOUS
  <2>1. Committed = {} /\ \A m \in Machines : Told(m) = {}
    BY DEF Init, Committed, Told
  <2> QED BY <2>1 DEF Init, Promise!Init, Promise!Empty, Empty
<1>2. Spec => [](TypeOK /\ EpochsBounded /\ Coherence)
  BY BoundedInit, BoundedStep, TypeCorrect, CoherenceCorrect, PTL DEF Spec
<1> QED BY <1>1, <1>2, StepMaps, PTL DEF Spec, ImplementsPromise, Promise!Spec
=============================================================================
