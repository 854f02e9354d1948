-------------------------- MODULE ProcessProofs --------------------------
(***************************************************************************)
(* Proofs about what happens inside one process of the site: the gate in   *)
(* front of scrypt (PasswordGate.tla), the way out (Shutdown.tla), the     *)
(* caches (TtlCache.tla) and the check of the epochs (EpochCheck.tla).     *)
(*                                                                         *)
(* The gate, for any attempts, limits and choice of who asks with          *)
(* priority: the places are counted exactly, nobody waits beside a free    *)
(* one, and ordinary attempts are served in order.  The first two are not  *)
(* inductive alone: that Release hands its place to an attempt that was    *)
(* not running already rests on the queue holding only queued attempts,    *)
(* each once (QueueExact).                                                 *)
(*                                                                         *)
(* The way out, for any connections, clients and deadline: a clean exit is *)
(* decided by one callback, of pool.end(), long after the connections, the *)
(* store and the timers were seen to; what must be kept in between is that *)
(* each stage, once reached, is not left again.                            *)
(*                                                                         *)
(* A cache, for any keys, loads and choice of what is remembered, and with *)
(* no bound on writes.  The map is read and written by key and the timers  *)
(* by load: that the two agree is HoldsItsOwn.                             *)
(*                                                                         *)
(* The check of the epochs, for any requests and any times within          *)
(* TimesAssumption: what a request is let through with hangs on when it    *)
(* joined the check that released it, which WaitersRight keeps.            *)
(***************************************************************************)
EXTENDS PasswordGate, Shutdown, TtlCache, EpochCheck, FiniteSetTheorems, SequenceTheorems, TLAPS
-----------------------------------------------------------------------------
(* The gate *)

GateInv == GateTypeOK /\ PlacesCounted /\ QueueExact /\ NoIdlePlace

(* What changes in one attempt's state changes in the set of the derivers. *)
LEMMA DeriversAfter ==
  ASSUME GateTypeOK, NEW a \in Attempts, NEW s \in States,
         state' = [state EXCEPT ![a] = s]
  PROVE  In("deriving")' = IF s = "deriving" THEN In("deriving") \cup {a}
                                            ELSE In("deriving") \ {a}
BY DEF GateTypeOK, In

LEMMA GateHolds == GateInit => GateInv
<1> SUFFICES ASSUME GateInit PROVE GateInv
  OBVIOUS
<1>1. GateTypeOK
  BY DEF GateInit, GateTypeOK, States
<1>2. PlacesCounted
  <2>1. In("deriving") = {}
    BY DEF GateInit, In
  <2> QED BY <2>1, FS_EmptySet, LimitsAssumption DEF PlacesCounted, GateInit
<1>3. QueueExact
  BY DEF GateInit, QueueExact, In
<1>4. NoIdlePlace
  BY DEF GateInit, NoIdlePlace
<1> QED BY <1>1, <1>2, <1>3, <1>4 DEF GateInv

(* A place is taken from the counter.                                      *)
LEMMA TakePlaceKeeps ==
  ASSUME GateInv, NEW a \in Attempts, TakePlace(a)
  PROVE  GateInv'
<1> USE DEF TakePlace
<1>1. GateTypeOK'
  BY DEF GateInv, GateTypeOK, States
<1>2. PlacesCounted'
  <2>1. In("deriving")' = In("deriving") \cup {a} /\ a \notin In("deriving")
    BY DeriversAfter DEF GateInv, States, In
  <2>2. IsFiniteSet(In("deriving")) /\ Cardinality(In("deriving")) = running
    BY DEF GateInv, PlacesCounted
  <2>3. /\ IsFiniteSet(In("deriving") \cup {a})
        /\ Cardinality(In("deriving") \cup {a}) = running + 1
    BY <2>1, <2>2, FS_AddElement
  <2>4. running + 1 <= MaxRunning
    BY LimitsAssumption DEF GateInv, GateTypeOK
  <2> QED BY <2>1, <2>3, <2>4 DEF PlacesCounted
<1>3. QueueExact'
  BY DEF GateInv, QueueExact, GateTypeOK, In
<1>4. NoIdlePlace'
  BY LimitsAssumption DEF GateInv, NoIdlePlace, GateTypeOK
<1> QED BY <1>1, <1>2, <1>3, <1>4 DEF GateInv

(* An attempt that joins the queue, in front or at the end: q is the queue *)
(* with it.                                                                *)
LEMMA EnqueuedKeeps ==
  ASSUME GateInv, NEW a \in Attempts, state[a] = "new", running >= MaxRunning,
         Enqueued(a), waiting' \in Seq(Attempts), QueueExact'
  PROVE  GateInv'
<1>1. GateTypeOK'
  BY AppendProperties DEF GateInv, GateTypeOK, Enqueued, States
<1>2. In("deriving")' = In("deriving")
  BY DeriversAfter DEF GateInv, Enqueued, States, In
<1>3. PlacesCounted'
  BY <1>2 DEF GateInv, PlacesCounted, Enqueued
<1>4. NoIdlePlace'
  BY LimitsAssumption DEF GateInv, NoIdlePlace, PlacesCounted, GateTypeOK, Enqueued
<1> QED BY <1>1, <1>3, <1>4 DEF GateInv

LEMMA JumpQueueKeeps ==
  ASSUME GateInv, NEW a \in Attempts, JumpQueue(a)
  PROVE  GateInv'
<1>1. waiting \in Seq(Attempts) /\ <<a>> \in Seq(Attempts)
  BY DEF GateInv, GateTypeOK
<1>2. /\ waiting' \in Seq(Attempts)
      /\ Len(waiting') = Len(waiting) + 1
      /\ waiting'[1] = a
      /\ \A i \in 1..Len(waiting) : waiting'[i + 1] = waiting[i]
  BY <1>1 DEF JumpQueue
<1>3. \A i \in 1..Len(waiting') : i = 1 \/ (i - 1 \in 1..Len(waiting) /\ waiting'[i] = waiting[i - 1])
  BY <1>1, <1>2
<1>4. \A i \in 1..Len(waiting) : waiting[i] # a
  BY DEF GateInv, QueueExact, JumpQueue
<1>5. QueueExact'
  <2>1. \A i \in 1..Len(waiting') : state'[waiting'[i]] = "queued"
    BY <1>1, <1>2, <1>3 DEF GateInv, QueueExact, GateTypeOK, JumpQueue, Enqueued
  <2>2. \A i, j \in 1..Len(waiting') : waiting'[i] = waiting'[j] => i = j
    <3> SUFFICES ASSUME NEW i \in 1..Len(waiting'), NEW j \in 1..Len(waiting'),
                        waiting'[i] = waiting'[j]
                 PROVE  i = j
      OBVIOUS
    <3>1. \A k \in 1..Len(waiting') :
            k = 1 \/ (k - 1 \in 1..Len(waiting) /\ waiting'[k] = waiting[k - 1])
      BY <1>1, <1>2
    <3>2. CASE i = 1 \/ j = 1
      BY <1>2, <1>4, <3>1, <3>2
    <3>3. CASE i # 1 /\ j # 1
      <4>1. i - 1 \in 1..Len(waiting) /\ j - 1 \in 1..Len(waiting)
        BY <3>1, <3>3
      <4>2. waiting[i - 1] = waiting[j - 1]
        BY <3>1, <3>3
      <4>3. i - 1 = j - 1
        BY <4>1, <4>2 DEF GateInv, QueueExact
      <4> QED BY <1>2, <4>3
    <3> QED BY <3>2, <3>3
  <2>3. \A b \in In("queued")' : \E i \in 1..Len(waiting') : waiting'[i] = b
    <3> SUFFICES ASSUME NEW b \in In("queued")'
                 PROVE  \E i \in 1..Len(waiting') : waiting'[i] = b
      OBVIOUS
    <3>1. CASE b = a
      BY <1>1, <1>2, <3>1
    <3>2. CASE b # a
      <4>1. b \in In("queued")
        BY <3>2 DEF In, JumpQueue, Enqueued, GateInv, GateTypeOK
      <4>2. PICK i \in 1..Len(waiting) : waiting[i] = b
        BY <4>1 DEF GateInv, QueueExact
      <4>3. i + 1 \in 1..Len(waiting') /\ waiting'[i + 1] = b
        BY <1>1, <1>2, <4>2
      <4> QED BY <4>3
    <3> QED BY <3>1, <3>2
  <2> QED BY <2>1, <2>2, <2>3 DEF QueueExact
<1> QED BY <1>2, <1>5, EnqueuedKeeps DEF JumpQueue

LEMMA JoinQueueKeeps ==
  ASSUME GateInv, NEW a \in Attempts, JoinQueue(a)
  PROVE  GateInv'
<1>1. waiting \in Seq(Attempts)
  BY DEF GateInv, GateTypeOK
<1>2. /\ waiting' \in Seq(Attempts)
      /\ Len(waiting') = Len(waiting) + 1
      /\ \A i \in 1..Len(waiting) : waiting'[i] = waiting[i]
      /\ waiting'[Len(waiting) + 1] = a
  BY <1>1, AppendProperties DEF JoinQueue
<1>3. \A i \in 1..Len(waiting') : i = Len(waiting) + 1 \/ i \in 1..Len(waiting)
  BY <1>1, <1>2
<1>4. \A i \in 1..Len(waiting) : waiting[i] # a
  BY DEF GateInv, QueueExact, JoinQueue
<1>5. QueueExact'
  <2>1. \A i \in 1..Len(waiting') : state'[waiting'[i]] = "queued"
    BY <1>1, <1>2, <1>3 DEF GateInv, QueueExact, GateTypeOK, JoinQueue, Enqueued
  <2>2. \A i, j \in 1..Len(waiting') : waiting'[i] = waiting'[j] => i = j
    BY <1>1, <1>2, <1>3, <1>4 DEF GateInv, QueueExact
  <2>3. \A b \in In("queued")' : \E i \in 1..Len(waiting') : waiting'[i] = b
    <3> SUFFICES ASSUME NEW b \in In("queued")'
                 PROVE  \E i \in 1..Len(waiting') : waiting'[i] = b
      OBVIOUS
    <3>1. CASE b = a
      BY <1>1, <1>2, <3>1
    <3>2. CASE b # a
      <4>1. b \in In("queued")
        BY <3>2 DEF In, JoinQueue, Enqueued, GateInv, GateTypeOK
      <4>2. PICK i \in 1..Len(waiting) : waiting[i] = b
        BY <4>1 DEF GateInv, QueueExact
      <4> QED BY <1>1, <1>2, <4>2
    <3> QED BY <3>1, <3>2
  <2> QED BY <2>1, <2>2, <2>3 DEF QueueExact
<1> QED BY <1>2, <1>5, EnqueuedKeeps DEF JoinQueue

LEMMA RefuseKeeps ==
  ASSUME GateInv, NEW a \in Attempts, Refuse(a)
  PROVE  GateInv'
<1>1. GateTypeOK'
  BY DEF GateInv, GateTypeOK, Refuse, States
<1>2. In("deriving")' = In("deriving")
  BY DeriversAfter DEF GateInv, Refuse, States, In
<1>3. QueueExact'
  BY DEF GateInv, QueueExact, GateTypeOK, In, Refuse
<1> QED BY <1>1, <1>2, <1>3 DEF GateInv, PlacesCounted, NoIdlePlace, Refuse

(* The place goes to the first waiter, who was not deriving: one leaves    *)
(* the derivers, one joins them, and the counter stays.                    *)
LEMMA HandOnKeeps ==
  ASSUME GateInv, NEW a \in Attempts, Release(a), waiting # <<>>
  PROVE  GateInv'
<1> DEFINE h == Head(waiting)
<1>1. /\ waiting \in Seq(Attempts) /\ h \in Attempts
      /\ Tail(waiting) \in Seq(Attempts)
      /\ Len(Tail(waiting)) = Len(waiting) - 1
      /\ \A i \in 1..Len(Tail(waiting)) : Tail(waiting)[i] = waiting[i + 1]
      /\ 1 \in 1..Len(waiting) /\ h = waiting[1]
  BY HeadTailProperties DEF GateInv, GateTypeOK
<1>2. state[h] = "queued" /\ h # a /\ state[a] = "deriving"
  BY <1>1 DEF GateInv, QueueExact, Release
<1>3. /\ waiting' = Tail(waiting) /\ running' = running /\ arrived' = arrived
      /\ state' = [state EXCEPT ![a] = "done", ![h] = "deriving"]
  BY DEF Release
<1> HIDE DEF h
<1>4. GateTypeOK'
  BY <1>1, <1>3 DEF GateInv, GateTypeOK, States
<1>5. PlacesCounted'
  <2>1. In("deriving")' = (In("deriving") \ {a}) \cup {h}
    BY <1>1, <1>2, <1>3 DEF GateInv, GateTypeOK, In
  <2>2. a \in In("deriving") /\ h \notin In("deriving") \ {a}
    BY <1>2 DEF In
  <2>3. IsFiniteSet(In("deriving")) /\ Cardinality(In("deriving")) = running
    BY DEF GateInv, PlacesCounted
  <2>4. /\ IsFiniteSet(In("deriving") \ {a})
        /\ Cardinality(In("deriving") \ {a}) = running - 1
    BY <2>2, <2>3, FS_RemoveElement
  <2>5. /\ IsFiniteSet((In("deriving") \ {a}) \cup {h})
        /\ Cardinality((In("deriving") \ {a}) \cup {h}) = Cardinality(In("deriving") \ {a}) + 1
    BY <2>2, <2>4, FS_AddElement
  <2>6. Cardinality((In("deriving") \ {a}) \cup {h}) = running
    BY <2>4, <2>5 DEF GateInv, GateTypeOK
  <2> QED BY <1>3, <2>1, <2>5, <2>6 DEF PlacesCounted, GateInv
<1>6. QueueExact'
  <2>1. \A i \in 1..Len(waiting') : /\ i + 1 \in 1..Len(waiting)
                                    /\ waiting'[i] = waiting[i + 1]
                                    /\ waiting'[i] # h
    BY <1>1, <1>3 DEF GateInv, QueueExact
  <2>2. \A i \in 1..Len(waiting') : state'[waiting'[i]] = "queued"
    BY <1>1, <1>2, <1>3, <2>1 DEF GateInv, QueueExact, GateTypeOK
  <2>3. \A i, j \in 1..Len(waiting') : waiting'[i] = waiting'[j] => i = j
    BY <1>1, <1>3, <2>1 DEF GateInv, QueueExact
  <2>4. \A b \in In("queued")' : \E i \in 1..Len(waiting') : waiting'[i] = b
    <3> SUFFICES ASSUME NEW b \in In("queued")'
                 PROVE  \E i \in 1..Len(waiting') : waiting'[i] = b
      OBVIOUS
    <3>1. b \in In("queued") /\ b # h
      BY <1>1, <1>2, <1>3 DEF In, GateInv, GateTypeOK
    <3>2. PICK i \in 1..Len(waiting) : waiting[i] = b
      BY <3>1 DEF GateInv, QueueExact
    <3>3. i - 1 \in 1..Len(waiting') /\ waiting'[i - 1] = b
      BY <1>1, <1>3, <3>1, <3>2
    <3> QED BY <3>3
  <2> QED BY <2>2, <2>3, <2>4 DEF QueueExact
<1>7. NoIdlePlace'
  BY <1>3 DEF GateInv, NoIdlePlace
<1> QED BY <1>4, <1>5, <1>6, <1>7 DEF GateInv

LEMMA GiveBackKeeps ==
  ASSUME GateInv, NEW a \in Attempts, Release(a), waiting = <<>>
  PROVE  GateInv'
<1>1. /\ state[a] = "deriving" /\ running' = running - 1
      /\ waiting' = waiting /\ arrived' = arrived
      /\ state' = [state EXCEPT ![a] = "done"]
  BY DEF Release
<1>2. IsFiniteSet(In("deriving")) /\ Cardinality(In("deriving")) = running
  BY DEF GateInv, PlacesCounted
<1>3. In("deriving")' = In("deriving") \ {a} /\ a \in In("deriving")
  BY <1>1, DeriversAfter DEF GateInv, States, In
<1>4. /\ IsFiniteSet(In("deriving")')
      /\ Cardinality(In("deriving")') = running - 1
  BY <1>2, <1>3, FS_RemoveElement
<1>5. running - 1 \in Nat
  BY <1>4, FS_CardinalityType
<1>6. GateTypeOK'
  BY <1>1, <1>5 DEF GateInv, GateTypeOK, States
<1>7. PlacesCounted'
  BY <1>1, <1>4, LimitsAssumption DEF GateInv, GateTypeOK, PlacesCounted
<1>8. QueueExact'
  BY <1>1 DEF GateInv, QueueExact, GateTypeOK, In
<1>9. NoIdlePlace'
  BY <1>1 DEF NoIdlePlace
<1> QED BY <1>6, <1>7, <1>8, <1>9 DEF GateInv

LEMMA GateKeeps == GateInv /\ [GateNext]_gateVars => GateInv'
<1> SUFFICES ASSUME GateInv, [GateNext]_gateVars PROVE GateInv'
  OBVIOUS
<1>1. ASSUME NEW a \in Attempts, Acquire(a) PROVE GateInv'
  BY <1>1, TakePlaceKeeps, JumpQueueKeeps, JoinQueueKeeps, RefuseKeeps DEF Acquire
<1>2. ASSUME NEW a \in Attempts, Release(a) PROVE GateInv'
  BY <1>2, HandOnKeeps, GiveBackKeeps
<1>3. CASE UNCHANGED gateVars
  BY <1>3 DEF gateVars, GateInv, GateTypeOK, PlacesCounted, QueueExact, NoIdlePlace, In
<1> QED BY <1>1, <1>2, <1>3 DEF GateNext, Quiet

(* The invariant holds in every behaviour.                                 *)
THEOREM GateCorrect == GateSpec => []GateInv
BY GateHolds, GateKeeps, PTL DEF GateSpec

(* The counter of derive's places is the number of derivations under way   *)
(* and never passes MAX_RUNNING (acquire, release of utils/password.ts).   *)
THEOREM PlacesCountedCorrect == GateSpec => []PlacesCounted
<1>1. GateInv => PlacesCounted
  BY DEF GateInv
<1> QED BY <1>1, GateCorrect, PTL

(* No attempt is queued while a place is free.                             *)
THEOREM NoIdlePlaceCorrect == GateSpec => []NoIdlePlace
<1>1. GateInv => NoIdlePlace
  BY DEF GateInv
<1> QED BY <1>1, GateCorrect, PTL

(***************************************************************************)
(* The order of service.  Priority attempts stand in front of all ordinary *)
(* ones, and the ordinary ones in the order in which they came; who is in  *)
(* the queue's history is not new any more.                                *)
(***************************************************************************)
InLine ==
  /\ \A k \in 1..Len(arrived) : state[arrived[k]] # "new"
  /\ \A i, j \in 1..Len(waiting) : i < j /\ waiting[i] \in Ordinary =>
       waiting[j] \in Ordinary /\ ~Before(arrived, waiting[j], waiting[i])

LEMMA InLineInit == GateInit => InLine
  BY DEF GateInit, InLine

(* Whoever is queued comes after all that were queued before.              *)
LEMMA Comes ==
  ASSUME GateInv, InLine, NEW a \in Attempts, state[a] = "new", Enqueued(a)
  PROVE  /\ \A k \in 1..Len(arrived') : state'[arrived'[k]] # "new"
         /\ \A b, c \in Attempts \ {a} : Before(arrived', b, c) => Before(arrived, b, c)
         /\ \A c \in Attempts : ~Before(arrived', a, c)
<1>1. /\ Len(arrived) \in Nat /\ Len(arrived') = Len(arrived) + 1
      /\ \A k \in 1..Len(arrived) : arrived'[k] = arrived[k] /\ arrived[k] \in Attempts
      /\ arrived'[Len(arrived) + 1] = a
  BY AppendProperties, LenProperties, ElementOfSeq DEF GateInv, GateTypeOK, Enqueued
<1>2. \A k \in 1..Len(arrived') : k = Len(arrived) + 1 \/ k \in 1..Len(arrived)
  BY <1>1
<1>3. \A k \in 1..Len(arrived) : arrived[k] # a
  BY DEF InLine
<1>4. \A k \in 1..Len(arrived') : state'[arrived'[k]] # "new"
  BY <1>1, <1>2 DEF GateInv, GateTypeOK, InLine, Enqueued
<1>5. ASSUME NEW b \in Attempts, NEW c \in Attempts \ {a}, Before(arrived', b, c)
      PROVE  b # a /\ Before(arrived, b, c)
  <2>1. PICK i \in 1..Len(arrived'), j \in 1..Len(arrived') :
          i < j /\ arrived'[i] = b /\ arrived'[j] = c
    BY <1>5 DEF Before
  <2>2. j \in 1..Len(arrived) BY <1>1, <1>2, <2>1
  <2>3. i \in 1..Len(arrived) BY <1>1, <1>2, <2>1, <2>2
  <2>4. arrived[i] = b /\ arrived[j] = c BY <1>1, <2>1, <2>2, <2>3
  <2>. QED BY <1>3, <2>1, <2>2, <2>3, <2>4 DEF Before
<1>6. ~Before(arrived', a, a)
  <2> SUFFICES ASSUME Before(arrived', a, a) PROVE FALSE
    OBVIOUS
  <2>1. PICK i \in 1..Len(arrived'), j \in 1..Len(arrived') : i < j /\ arrived'[i] = a
    BY DEF Before
  <2>2. i \in 1..Len(arrived) BY <1>1, <1>2, <2>1
  <2>. QED BY <1>1, <1>3, <2>1, <2>2
<1>. QED BY <1>4, <1>5, <1>6

LEMMA JumpInLine ==
  ASSUME GateInv, InLine, NEW a \in Attempts, JumpQueue(a)
  PROVE  InLine'
<1>1. waiting \in Seq(Attempts) /\ <<a>> \in Seq(Attempts) BY DEF GateInv, GateTypeOK
<1>2. /\ Len(waiting) \in Nat
      /\ waiting'[1] = a
      /\ \A i \in 1..Len(waiting') :
           i = 1 \/ (i - 1 \in 1..Len(waiting) /\ waiting'[i] = waiting[i - 1])
  BY <1>1 DEF JumpQueue
<1>3. state[a] = "new" /\ Enqueued(a) /\ a \notin Ordinary BY DEF JumpQueue, Ordinary
<1>4. \A i \in 1..Len(waiting) : waiting[i] \in Attempts \ {a}
  BY <1>1, <1>3, ElementOfSeq DEF GateInv, QueueExact
<1>5. ASSUME NEW i \in 1..Len(waiting'), NEW j \in 1..Len(waiting'), i < j, waiting'[i] \in Ordinary
      PROVE  waiting'[j] \in Ordinary /\ ~Before(arrived', waiting'[j], waiting'[i])
  <2>1. i # 1 /\ j # 1 BY <1>2, <1>3, <1>5
  <2>2. /\ i - 1 \in 1..Len(waiting) /\ waiting'[i] = waiting[i - 1]
        /\ j - 1 \in 1..Len(waiting) /\ waiting'[j] = waiting[j - 1]
    BY <1>2, <2>1
  <2>3. i - 1 < j - 1 BY <1>5
  <2>4. waiting[j - 1] \in Ordinary /\ ~Before(arrived, waiting[j - 1], waiting[i - 1])
    BY <1>5, <2>2, <2>3 DEF InLine
  <2>. QED BY <1>3, <1>4, <2>2, <2>4, Comes
<1>. QED BY <1>3, <1>5, Comes DEF InLine

LEMMA JoinInLine ==
  ASSUME GateInv, InLine, NEW a \in Attempts, JoinQueue(a)
  PROVE  InLine'
<1>1. waiting \in Seq(Attempts) BY DEF GateInv, GateTypeOK
<1>2. /\ Len(waiting) \in Nat
      /\ Len(waiting') = Len(waiting) + 1
      /\ \A i \in 1..Len(waiting) : waiting'[i] = waiting[i]
      /\ waiting'[Len(waiting) + 1] = a
  BY <1>1, AppendProperties DEF JoinQueue
<1>3. state[a] = "new" /\ Enqueued(a) /\ a \in Ordinary BY DEF JoinQueue
<1>4. \A i \in 1..Len(waiting) : waiting[i] \in Attempts \ {a}
  BY <1>1, <1>3, ElementOfSeq DEF GateInv, QueueExact
<1>5. ASSUME NEW i \in 1..Len(waiting'), NEW j \in 1..Len(waiting'), i < j, waiting'[i] \in Ordinary
      PROVE  waiting'[j] \in Ordinary /\ ~Before(arrived', waiting'[j], waiting'[i])
  <2>1. i \in 1..Len(waiting) /\ waiting'[i] = waiting[i] BY <1>2, <1>5
  <2>2. CASE j = Len(waiting) + 1 BY <1>2, <1>3, <1>4, <2>1, <2>2, Comes
  <2>3. CASE j # Len(waiting) + 1
    <3>1. j \in 1..Len(waiting) /\ waiting'[j] = waiting[j] BY <1>2, <2>3
    <3>2. waiting[j] \in Ordinary /\ ~Before(arrived, waiting[j], waiting[i])
      BY <1>5, <2>1, <3>1 DEF InLine
    <3>. QED BY <1>3, <1>4, <2>1, <3>1, <3>2, Comes
  <2>. QED BY <2>2, <2>3
<1>. QED BY <1>3, <1>5, Comes DEF InLine

(* The first waiter leaves the queue, or nobody does, and nobody comes.    *)
LEMMA OthersInLine ==
  ASSUME GateInv, InLine, arrived' = arrived,
         \A b \in Attempts : state'[b] = "new" => state[b] = "new",
         waiting' = waiting \/ (waiting # <<>> /\ waiting' = Tail(waiting))
  PROVE  InLine'
<1>1. \A k \in 1..Len(arrived) : arrived[k] \in Attempts BY ElementOfSeq DEF GateInv, GateTypeOK
<1>2. \A k \in 1..Len(arrived') : state'[arrived'[k]] # "new" BY <1>1 DEF InLine
<1>3. CASE waiting' = waiting BY <1>2, <1>3 DEF InLine
<1>4. CASE waiting # <<>> /\ waiting' = Tail(waiting)
  <2>1. /\ Len(waiting) \in Nat
        /\ \A i \in 1..Len(waiting') : i + 1 \in 1..Len(waiting) /\ waiting'[i] = waiting[i + 1]
    BY <1>4, HeadTailProperties, LenProperties DEF GateInv, GateTypeOK
  <2>2. ASSUME NEW i \in 1..Len(waiting'), NEW j \in 1..Len(waiting'), i < j, waiting'[i] \in Ordinary
        PROVE  waiting'[j] \in Ordinary /\ ~Before(arrived', waiting'[j], waiting'[i])
    <3>1. i + 1 < j + 1 BY <2>2
    <3>2. /\ i + 1 \in 1..Len(waiting) /\ waiting'[i] = waiting[i + 1]
          /\ j + 1 \in 1..Len(waiting) /\ waiting'[j] = waiting[j + 1]
      BY <2>1
    <3>3. waiting[j + 1] \in Ordinary /\ ~Before(arrived, waiting[j + 1], waiting[i + 1])
      BY <2>2, <3>1, <3>2 DEF InLine
    <3>. QED BY <3>2, <3>3
  <2>. QED BY <1>2, <2>2 DEF InLine
<1>. QED BY <1>3, <1>4

LEMMA InLineStep == GateInv /\ InLine /\ [GateNext]_gateVars => InLine'
<1> SUFFICES ASSUME GateInv, InLine, [GateNext]_gateVars PROVE InLine'
  OBVIOUS
<1>1. ASSUME NEW a \in Attempts, TakePlace(a) \/ Refuse(a) \/ Release(a) PROVE InLine'
  <2>1. /\ arrived' = arrived
        /\ waiting' = waiting \/ (waiting # <<>> /\ waiting' = Tail(waiting))
    BY <1>1 DEF TakePlace, Refuse, Release
  <2>2. \A b \in Attempts : state'[b] = "new" => state[b] = "new"
    BY <1>1 DEF TakePlace, Refuse, Release, GateInv, GateTypeOK
  <2>. QED BY <2>1, <2>2, OthersInLine
<1>2. CASE UNCHANGED gateVars BY <1>2, OthersInLine DEF gateVars
<1>. QED BY <1>1, <1>2, JumpInLine, JoinInLine DEF GateNext, Quiet, Acquire

(* An ordinary attempt that is given a place is the head of the queue.     *)
LEMMA ServesHead ==
  ASSUME GateInv, InLine, [GateNext]_gateVars,
         NEW a \in In("queued"), NEW b \in In("queued"),
         b \in Ordinary, state'[b] = "deriving", a \in Priority \/ Before(arrived, a, b)
  PROVE  state'[a] # "queued"
<1>1. state[b] = "queued" /\ a \in Attempts /\ b \in Attempts BY DEF In
<1>2. PICK r \in Attempts : Release(r) /\ waiting # <<>> /\ b = Head(waiting)
  <2>1. ~(UNCHANGED gateVars) BY <1>1 DEF gateVars
  <2>2. PICK r \in Attempts : Acquire(r) \/ Release(r) BY <2>1 DEF GateNext, Quiet
  <2>3. ~Acquire(r)
    BY <1>1 DEF Acquire, TakePlace, JumpQueue, JoinQueue, Refuse, Enqueued, GateInv, GateTypeOK
  <2>4. Release(r) BY <2>2, <2>3
  <2>5. waiting # <<>> /\ b = Head(waiting) BY <1>1, <2>4 DEF Release, GateInv, GateTypeOK
  <2>. QED BY <2>4, <2>5
<1>3. waiting \in Seq(Attempts) /\ 1 \in 1..Len(waiting) /\ waiting[1] = b /\ Len(waiting) \in Nat
  BY <1>2, HeadTailProperties, LenProperties DEF GateInv, GateTypeOK
<1>4. PICK i \in 1..Len(waiting) : waiting[i] = a BY DEF GateInv, QueueExact
<1>5. CASE i = 1 BY <1>3, <1>4, <1>5
<1>6. CASE i # 1
  <2>1. a \in Ordinary /\ ~Before(arrived, a, b) BY <1>3, <1>4, <1>6 DEF InLine
  <2>. QED BY <2>1 DEF Ordinary
<1>. QED BY <1>5, <1>6

(* An ordinary attempt is never given a place before a priority attempt or *)
(* before anyone who was queued earlier (acquire, release of               *)
(* utils/password.ts).                                                     *)
THEOREM ServedInOrderCorrect == GateSpec => ServedInOrder
<1>1. GateInv /\ InLine /\ [GateNext]_gateVars =>
        [\A a, b \in In("queued") :
           /\ b \in Ordinary /\ state'[b] = "deriving"
           /\ a \in Priority \/ Before(arrived, a, b)
           => state'[a] # "queued"]_gateVars
  BY ServesHead
<1>. QED BY <1>1, InLineInit, InLineStep, GateCorrect, PTL DEF GateSpec, ServedInOrder

-----------------------------------------------------------------------------
(* The way out *)

AllClosed == \A c \in Conns : conn[c] = "closed"

(* The stages of a drain: signalled, listener closed, pool ended, leaving. *)
Stages ==
  /\ shuttingDown <=> server \in {"closing", "closed"}
  /\ shuttingDown => ~timersOn
  /\ force \/ exited \/ crashed # "no" => shuttingDown
  /\ server = "closed" => AllClosed
  /\ finished <=> ended
  /\ ended => server = "closed" /\ store = "closed"
  /\ ~storeError

(* The way out is taken once, and with which code.                         *)
WayOut ==
  /\ exited <=> leaving # NoCode
  /\ leaving = 0 => ended /\ \A q \in Queries : ~query[q]
  /\ crashed = "early" => exitCode = 1 /\ leaving # 0

(* The sweep goes on until no connection can be left.                      *)
Sweeping == shuttingDown /\ ~exited => sweep \/ server = "closed"

DrainInv == TypeOK /\ Stages /\ WayOut /\ Sweeping

LEMMA DrainInit == Init => DrainInv
<1> SUFFICES ASSUME Init PROVE DrainInv
  OBVIOUS
<1>1. TypeOK
  <2>1. {shuttingDown, finished, exited, force, sweep, timersOn, ended, storeError}
          \subseteq BOOLEAN
    BY Zenon DEF Init
  <2>2. /\ exitCode \in Codes /\ leaving \in Codes \cup {NoCode}
        /\ status \in Codes \cup {NoCode} /\ clock \in 0..Deadline
    BY DeadlineAssumption DEF Init, Codes, NoCode
  <2>3. /\ conn \in [Conns -> {"closed", "idle", "busy"}] /\ query \in [Queries -> BOOLEAN]
        /\ server = "starting" /\ store = "open" /\ crashed = "no"
    BY Zenon DEF Init
  <2> QED BY <2>1, <2>2, <2>3 DEF TypeOK
<1>2. Stages /\ Sweeping
  BY DEF Init, Stages, Sweeping
<1>3. WayOut
  BY DEF Init, WayOut, NoCode
<1> QED BY <1>1, <1>2, <1>3 DEF DrainInv

(* The requests, the queries and the store's prune.                        *)
LEMMA TrafficKeeps == DrainInv /\ Traffic => DrainInv'
<1> SUFFICES ASSUME DrainInv, Traffic PROVE DrainInv'
  OBVIOUS
<1> USE DEF DrainInv, flags, world, outcome, Up
<1>1. CASE Listening
  <2>1. TypeOK'
    BY <1>1 DEF Listening, TypeOK, Codes, NoCode
  <2>2. Stages'
    BY <1>1 DEF Listening, Stages, AllClosed
  <2>3. WayOut' /\ Sweeping'
    BY <1>1 DEF Listening, TypeOK, Stages, WayOut, Sweeping, Codes, NoCode
  <2> QED BY <2>1, <2>2, <2>3
<1>2. ASSUME NEW c \in Conns, Request(c) \/ Respond(c) \/ HangUp(c) PROVE DrainInv'
  BY <1>2 DEF Request, Respond, HangUp, TypeOK, Stages, WayOut, Sweeping, AllClosed
<1>3. ASSUME NEW q \in Queries, Query(q) \/ ReleaseClient(q) PROVE DrainInv'
  <2>1. TypeOK'
    BY <1>3 DEF Query, ReleaseClient, TypeOK
  <2>2. Stages' /\ Sweeping'
    BY <1>3 DEF Query, ReleaseClient, Stages, Sweeping, AllClosed
  <2>3. WayOut'
    BY <1>3 DEF Query, ReleaseClient, TypeOK, WayOut
  <2> QED BY <2>1, <2>2, <2>3
<1>4. ASSUME NEW q \in Queries, StorePrunes(q) PROVE DrainInv'
  BY <1>4 DEF StorePrunes, TypeOK, Stages, WayOut, Sweeping, AllClosed
<1> QED BY <1>1, <1>2, <1>3, <1>4 DEF Traffic

LEMMA FirstSignalKeeps ==
  ASSUME DrainInv, NEW code \in Codes, FirstSignal(code), UNCHANGED <<status, storeError>>,
         crashed' = "no" \/ (code = 1 /\ crashed' = "early"),
         crashed = "no" \/ crashed' = crashed
  PROVE  DrainInv'
<1> USE DEF DrainInv, FirstSignal
<1>1. TypeOK'
  BY DEF TypeOK, CloseIdle, Stages
<1>2. Stages'
  BY DEF Stages, TypeOK
<1>3. WayOut'
  BY DEF WayOut, Stages, TypeOK
<1>4. Sweeping'
  BY DEF Sweeping
<1> QED BY <1>1, <1>2, <1>3, <1>4

LEMMA RepeatSignalKeeps ==
  ASSUME DrainInv, NEW code \in Codes, RepeatSignal(code), UNCHANGED <<status, storeError>>,
         crashed' = crashed \/ (code = 1 /\ crashed' = IF exited THEN "late" ELSE "early")
  PROVE  DrainInv'
<1> USE DEF DrainInv, RepeatSignal, world
<1>1. TypeOK'
  BY DEF TypeOK, Codes
<1>2. Stages'
  BY DEF Stages, AllClosed
<1>3. WayOut'
  BY DEF WayOut, TypeOK, Codes, NoCode
<1>4. Sweeping'
  BY DEF Sweeping
<1> QED BY <1>1, <1>2, <1>3, <1>4

LEMMA DrainKeeps == DrainInv /\ Drain => DrainInv'
<1> SUFFICES ASSUME DrainInv, Drain PROVE DrainInv'
  OBVIOUS
<1> USE DEF flags, world, outcome
<1>0. 0 \in Codes /\ 1 \in Codes
  BY DEF Codes
<1>1. CASE Signal
  <2>1. CASE FirstSignal(0)
    BY <1>0, <1>1, <2>1, FirstSignalKeeps DEF Signal, FirstSignal, DrainInv, Stages
  <2>2. CASE RepeatSignal(0)
    BY <1>0, <1>1, <2>2, RepeatSignalKeeps DEF Signal
  <2> QED BY <1>1, <2>1, <2>2 DEF Signal
<1>2. CASE Crash
  <2>1. CASE FirstSignal(1)
    <3>1. crashed = "no" /\ ~exited
      BY <2>1 DEF FirstSignal, DrainInv, Stages
    <3> QED BY <1>0, <1>2, <2>1, <3>1, FirstSignalKeeps DEF Crash
  <2>2. CASE RepeatSignal(1)
    BY <1>0, <1>2, <2>2, RepeatSignalKeeps DEF Crash
  <2> QED BY <1>2, <2>1, <2>2 DEF Crash
<1>3. CASE Sweep
  BY <1>3, DeadlineAssumption
     DEF Sweep, CloseIdle, DrainInv, TypeOK, Stages, WayOut, Sweeping, AllClosed
<1>4. CASE ServerCloses
  BY <1>4 DEF ServerCloses, Finish, DrainInv, TypeOK, Stages, WayOut, Sweeping, AllClosed, NoCode
<1>5. CASE PoolEnds
  <2>1. TypeOK'
    BY <1>5 DEF PoolEnds, Leave, DrainInv, TypeOK, Codes, NoCode
  <2>2. Stages'
    BY <1>5 DEF PoolEnds, Leave, DrainInv, Stages, AllClosed
  <2>3. WayOut' /\ Sweeping'
    BY <1>5 DEF PoolEnds, Leave, DrainInv, TypeOK, Stages, WayOut, Sweeping, Codes, NoCode
  <2> QED BY <2>1, <2>2, <2>3 DEF DrainInv
<1>6. CASE ForceExit
  <2>1. TypeOK'
    <3>1. CASE exited
      BY <1>6, <3>1 DEF ForceExit, Leave, DrainInv, TypeOK
    <3>2. CASE ~exited
      BY <1>6, <3>2 DEF ForceExit, Leave, DrainInv, TypeOK, Codes
    <3> QED BY <3>1, <3>2
  <2>2. Stages'
    BY <1>6 DEF ForceExit, Leave, DrainInv, Stages, AllClosed
  <2>3. WayOut'
    <3>1. CASE exited
      BY <1>6, <3>1 DEF ForceExit, Leave, DrainInv, WayOut
    <3>2. CASE ~exited
      BY <1>6, <3>2 DEF ForceExit, Leave, DrainInv, WayOut, NoCode
    <3> QED BY <3>1, <3>2
  <2>4. Sweeping'
    BY <1>6 DEF ForceExit, Leave, DrainInv, Sweeping
  <2> QED BY <2>1, <2>2, <2>3, <2>4 DEF DrainInv
<1>7. CASE Exit
  BY <1>7 DEF Exit, DrainInv, TypeOK, Stages, WayOut, Sweeping, AllClosed
<1> QED BY <1>1, <1>2, <1>3, <1>4, <1>5, <1>6, <1>7 DEF Drain

LEMMA DrainStep == DrainInv /\ [Next]_vars => DrainInv'
<1>1. DrainInv /\ UNCHANGED vars => DrainInv'
  BY DEF vars, flags, world, outcome, DrainInv, TypeOK, Stages, WayOut, Sweeping, AllClosed
<1> QED BY <1>1, DrainKeeps, TrafficKeeps DEF Next, Gone

(* The invariant holds in every behaviour.                                 *)
THEOREM DrainCorrect == Spec => []DrainInv
BY DrainInit, DrainStep, PTL DEF Spec

(* A process that leaves with code 0 has closed its listener and every     *)
(* connection, has every client back and has stopped its store and timers  *)
(* in time (createShutdown of utils/shutdown.ts).                          *)
THEOREM CleanMeansDrainedCorrect == Spec => []CleanMeansDrained
<1>1. DrainInv => CleanMeansDrained
  BY DEF DrainInv, Stages, WayOut, CleanMeansDrained, AllClosed
<1> QED BY <1>1, DrainCorrect, PTL

(* A crash before the way out is taken is never reported as a clean stop.  *)
THEOREM CrashReportedCorrect == Spec => []CrashReported
<1>1. DrainInv => CrashReported
  BY DEF DrainInv, WayOut, CrashReported
<1> QED BY <1>1, DrainCorrect, PTL

(* While a drain is timed, each interval ends with no connection idle.     *)
THEOREM IdleSweptCorrect == Spec => IdleSwept
<1>1. DrainInv /\ [Next]_vars => [clock' # clock => \A c \in Conns : conn'[c] # "idle"]_vars
  <2> SUFFICES ASSUME DrainInv, Next, clock' # clock, NEW c \in Conns
               PROVE  conn'[c] # "idle"
    BY DEF vars
  <2>1. Sweep
    BY DEF Next, Drain, Traffic, Gone, vars, flags, world, outcome, Listening, Request,
           Respond, HangUp, Query, StorePrunes, ReleaseClient, Signal, Crash, FirstSignal,
           RepeatSignal, ServerCloses, PoolEnds, ForceExit, Exit
  <2>2. CASE sweep
    BY <2>1, <2>2 DEF Sweep, CloseIdle, DrainInv, TypeOK
  <2>3. CASE ~sweep
    BY <2>1, <2>3 DEF Sweep, DrainInv, Sweeping, Stages, AllClosed
  <2> QED BY <2>2, <2>3
<1> QED BY <1>1, DrainCorrect, PTL DEF Spec, IdleSwept

-----------------------------------------------------------------------------
(* The cache *)


(* A key holds a load that was started, and started for that key.          *)
HoldsItsOwn ==
  \A k \in Keys : entries[k] # Nothing =>
    key[entries[k]] = k /\ phase[entries[k]] # "unused"

TtlInv == TtlTypeOK /\ HoldsItsOwn /\ TimersMatch

Phases == {"unused", "asked", "ran", "resolved", "rejected"}

(* A step after which the same keys hold the same loads or nothing.        *)
LEMMA OwnKept ==
  ASSUME TtlInv, NEW l \in Loads, NEW p \in Phases \ {"unused"}, TtlTypeOK',
         phase' = [phase EXCEPT ![l] = p], key' = key,
         \A k \in Keys : entries'[k] \in {entries[k], Nothing}
  PROVE  HoldsItsOwn'
BY LoadsAssumption DEF TtlInv, TtlTypeOK, HoldsItsOwn, Phases

LEMMA TtlHolds == TtlInit => TtlInv
BY LoadsAssumption DEF TtlInit, TtlInv, TtlTypeOK, HoldsItsOwn, TimersMatch, Settled, Current, Nothing

LEMMA GetKeeps ==
  ASSUME TtlInv, NEW k \in Keys, NEW l \in Loads, Get(k, l)
  PROVE  TtlInv'
<1>1. TtlTypeOK'
  BY DEF TtlInv, TtlTypeOK, Get
<1>2. /\ \A j \in Keys : entries[j] # l
      /\ entries' = [entries EXCEPT ![k] = l] /\ phase' = [phase EXCEPT ![l] = "asked"]
      /\ key' = [key EXCEPT ![l] = k] /\ timers' = timers /\ l \notin timers
      /\ entries[k] = Nothing
  BY LoadsAssumption DEF TtlInv, TtlTypeOK, HoldsItsOwn, Get, Current
<1>3. HoldsItsOwn'
  BY <1>2, LoadsAssumption DEF TtlInv, TtlTypeOK, HoldsItsOwn
<1>4. TimersMatch'
  BY <1>2, LoadsAssumption DEF TtlInv, TtlTypeOK, TimersMatch, Settled, Current
<1> QED BY <1>1, <1>3, <1>4 DEF TtlInv

LEMMA SettleKeeps ==
  ASSUME TtlInv, NEW l \in Loads, Run(l) \/ Resolve(l) \/ Reject(l)
  PROVE  TtlInv'
<1>1. CASE Run(l)
  <2>1. TtlTypeOK'
    BY <1>1 DEF TtlInv, TtlTypeOK, Run
  <2>2. HoldsItsOwn'
    BY <1>1, <2>1, OwnKept DEF Run, Phases
  <2>3. TimersMatch'
    BY <1>1 DEF TtlInv, TtlTypeOK, TimersMatch, Settled, Current, Run
  <2> QED BY <2>1, <2>2, <2>3 DEF TtlInv
<1>2. CASE Resolve(l)
  <2>1. TtlTypeOK'
    BY <1>2 DEF TtlInv, TtlTypeOK, Resolve
  <2>2. HoldsItsOwn'
    BY <1>2, <2>1, OwnKept DEF Resolve, Phases
  <2>3. TimersMatch'
    BY <1>2 DEF TtlInv, TtlTypeOK, TimersMatch, Settled, Current, Resolve
  <2> QED BY <2>1, <2>2, <2>3 DEF TtlInv
<1>3. CASE Reject(l)
  <2>1. TtlTypeOK'
    BY <1>3 DEF TtlInv, TtlTypeOK, Reject, Evict
  <2>2. \A k \in Keys : entries'[k] \in {entries[k], Nothing}
    BY <1>3 DEF TtlInv, TtlTypeOK, Reject, Evict
  <2>3. HoldsItsOwn'
    BY <1>3, <2>1, <2>2, OwnKept DEF Reject, Phases
  <2>4. TimersMatch'
    <3>1. CASE key[l] \in Remembered
      BY <1>3, <3>1 DEF TtlInv, TtlTypeOK, TimersMatch, Settled, Current, Reject
    <3>2. CASE key[l] \notin Remembered
      BY <1>3, <3>2, LoadsAssumption
         DEF TtlInv, TtlTypeOK, TimersMatch, HoldsItsOwn, Settled, Current, InFlight, Reject, Evict
    <3> QED BY <3>1, <3>2
  <2> QED BY <2>1, <2>3, <2>4 DEF TtlInv
<1> QED BY <1>1, <1>2, <1>3

LEMMA ExpireKeeps ==
  ASSUME TtlInv, NEW l \in Loads, Expire(l)
  PROVE  TtlInv'
<1>1. TtlTypeOK'
  BY DEF TtlInv, TtlTypeOK, Expire, Evict
<1>2. HoldsItsOwn'
  BY DEF TtlInv, TtlTypeOK, HoldsItsOwn, Expire, Evict
<1>3. TimersMatch'
  BY LoadsAssumption DEF TtlInv, TtlTypeOK, TimersMatch, HoldsItsOwn, Settled, Current, Expire, Evict
<1> QED BY <1>1, <1>2, <1>3 DEF TtlInv

LEMMA DroppedKeeps ==
  ASSUME TtlInv, NEW K \in SUBSET Keys, Dropped(K)
  PROVE  TtlInv'
<1>1. TtlTypeOK'
  BY DEF TtlInv, TtlTypeOK, Dropped
<1>2. HoldsItsOwn'
  BY DEF TtlInv, TtlTypeOK, HoldsItsOwn, Dropped
<1>3. TimersMatch'
  BY LoadsAssumption DEF TtlInv, TtlTypeOK, TimersMatch, Settled, Current, Dropped
<1> QED BY <1>1, <1>2, <1>3 DEF TtlInv

LEMMA TtlStep == TtlInv /\ [TtlNext]_ttlVars => TtlInv'
<1> SUFFICES ASSUME TtlInv, [TtlNext]_ttlVars PROVE TtlInv'
  OBVIOUS
<1>1. ASSUME NEW k \in Keys, Delete(k) PROVE TtlInv'
  BY <1>1, DroppedKeeps DEF Delete
<1>2. CASE Clear
  BY <1>2, DroppedKeeps DEF Clear
<1>3. CASE Write \/ UNCHANGED ttlVars
  BY <1>3 DEF Write, ttlVars, TtlInv, TtlTypeOK, HoldsItsOwn, TimersMatch, Settled, Current
<1> QED BY <1>1, <1>2, <1>3, GetKeeps, SettleKeeps, ExpireKeeps DEF TtlNext, LoadStep

(* The invariant holds in every behaviour.                                 *)
THEOREM TtlCorrect == TtlSpec => []TtlInv
BY TtlHolds, TtlStep, PTL DEF TtlSpec

(* A timer is armed exactly for the entries whose load has settled (get    *)
(* and #evict of utils/cache.ts).                                          *)
THEOREM TimersMatchCorrect == TtlSpec => []TimersMatch
<1>1. TtlInv => TimersMatch
  BY DEF TtlInv
<1> QED BY <1>1, TtlCorrect, PTL

-----------------------------------------------------------------------------
(* Refinement.  What the map shows of a key is its load's answer once the  *)
(* query has run; a step of TtlCache answers, drops, or shows nothing.     *)
Shown(k) ==
  IF entries[k] # Nothing /\ phase[entries[k]] \in {"ran", "resolved"}
  THEN [held |-> TRUE, data |-> data[entries[k]]]
  ELSE [held |-> FALSE, data |-> 0]

(* Steps that show what was shown, or nothing, are drops.                  *)
LEMMA Drops ==
  ASSUME version' = version,
         \A k \in Keys : Shown(k)' = Shown(k) \/ Shown(k)' = [held |-> FALSE, data |-> 0]
  PROVE  Cells!Next
<1> DEFINE K == {k \in Keys : Shown(k)' # Shown(k)}
<1>1. [k \in Keys |-> Shown(k)]' =
        [k \in Keys |-> IF k \in K THEN Cells!NoAnswer ELSE [j \in Keys |-> Shown(j)][k]]
  BY DEF Cells!NoAnswer
<1>2. Cells!Drop
  BY <1>1 DEF Cells!Drop, Shown
<1> QED BY <1>2 DEF Cells!Next

(* The query of the load a key holds runs: the key is answered.            *)
LEMMA RunAnswers ==
  ASSUME TtlInv, NEW l \in Loads, Run(l)
  PROVE  Cells!Next
<1>0. /\ TtlTypeOK /\ HoldsItsOwn /\ phase[l] = "asked" /\ key[l] \in Keys
      /\ phase' = [phase EXCEPT ![l] = "ran"] /\ data' = [data EXCEPT ![l] = version]
      /\ UNCHANGED <<entries, key, timers, version>>
  BY DEF TtlInv, TtlTypeOK, Run
<1>1. \A k \in Keys : entries[k] # l => Shown(k)' = Shown(k)
  BY <1>0, LoadsAssumption DEF TtlTypeOK, Shown
<1>2. CASE Current(l)
  <2>0. PICK k \in Keys : k = key[l]
    BY <1>0
  <2>1. \A j \in Keys \ {k} : Shown(j)' = Shown(j)
    BY <1>0, <1>1, <1>2, <2>0, LoadsAssumption DEF HoldsItsOwn
  <2>2. /\ Shown(k) = [held |-> FALSE, data |-> 0]
        /\ Shown(k)' = [held |-> TRUE, data |-> version]
    BY <1>0, <1>2, <2>0, LoadsAssumption DEF Shown, Current, TtlTypeOK
  <2>3. [j \in Keys |-> Shown(j)]' =
          [[j \in Keys |-> Shown(j)] EXCEPT ![k] = [held |-> TRUE, data |-> version]]
    BY <1>0, <2>1, <2>2
  <2>4. [j \in Keys |-> Shown(j)][k] = [held |-> FALSE, data |-> 0]
    BY <1>0, <2>2
  <2>5. Cells!Answer(k)
    BY <1>0, <2>3, <2>4 DEF Cells!Answer, Cells!NoAnswer, Shown
  <2> QED BY <1>0, <2>5 DEF Cells!Next
<1>3. CASE ~Current(l)
  <2>1. \A k \in Keys : entries[k] # l
    BY <1>0, <1>3, LoadsAssumption DEF HoldsItsOwn, Current
  <2> QED BY <1>0, <1>1, <2>1, Drops
<1> QED BY <1>2, <1>3

LEMMA EveryStepMaps == TtlInv /\ [TtlNext]_ttlVars => [Cells!Next]_(Cells!vars)
<1> SUFFICES ASSUME TtlInv, [TtlNext]_ttlVars PROVE [Cells!Next]_(Cells!vars)
  OBVIOUS
<1> USE LoadsAssumption
<1>1. ASSUME NEW k \in Keys, NEW l \in Loads, Get(k, l) PROVE Cells!Next
  <2>1. /\ \A j \in Keys : entries[j] # l
        /\ entries' = [entries EXCEPT ![k] = l] /\ phase' = [phase EXCEPT ![l] = "asked"]
        /\ data' = [data EXCEPT ![l] = 0] /\ version' = version
    BY <1>1 DEF TtlInv, TtlTypeOK, HoldsItsOwn, Get, Current
  <2>2. \A j \in Keys \ {k} : Shown(j)' = Shown(j)
    BY <2>1 DEF TtlInv, TtlTypeOK, Shown
  <2>3. Shown(k)' = [held |-> FALSE, data |-> 0]
    BY <2>1 DEF TtlInv, TtlTypeOK, Shown
  <2> QED BY <2>1, <2>2, <2>3, Drops
<1>2. ASSUME NEW l \in Loads, Resolve(l) \/ Reject(l) \/ Expire(l) PROVE Cells!Next
  <2>1. /\ version' = version /\ data' = data
        /\ \A k \in Keys : entries'[k] \in {entries[k], Nothing}
    BY <1>2 DEF TtlInv, TtlTypeOK, Resolve, Reject, Expire, Evict
  <2>2. \A m \in Loads : \/ phase'[m] = phase[m] \/ phase'[m] = "rejected"
                         \/ phase[m] = "ran" /\ phase'[m] = "resolved"
    BY <1>2 DEF TtlInv, TtlTypeOK, Resolve, Reject, Expire, InFlight
  <2>3. \A k \in Keys : Shown(k)' = Shown(k) \/ Shown(k)' = [held |-> FALSE, data |-> 0]
    BY <2>1, <2>2 DEF TtlInv, TtlTypeOK, Shown
  <2> QED BY <2>1, <2>3, Drops
<1>3. ASSUME NEW K \in SUBSET Keys, Dropped(K) PROVE Cells!Next
  <2>1. \A k \in Keys : Shown(k)' = Shown(k) \/ Shown(k)' = [held |-> FALSE, data |-> 0]
    BY <1>3 DEF TtlInv, TtlTypeOK, Dropped, Shown
  <2> QED BY <1>3, <2>1, Drops DEF Dropped
<1>4. CASE Write
  BY <1>4 DEF Write, Cells!Next, Cells!Write
<1>5. CASE UNCHANGED ttlVars
  BY <1>5 DEF ttlVars, Cells!vars
<1>6. ASSUME NEW k \in Keys, Delete(k) PROVE Cells!Next
  BY <1>3, <1>6 DEF Delete
<1>7. CASE Clear
  BY <1>3, <1>7 DEF Clear
<1> QED BY <1>1, <1>2, <1>4, <1>5, <1>6, <1>7, RunAnswers DEF TtlNext, LoadStep

(* The cache implements the read-through cell that CacheEpoch.tla composes *)
(* with: what a key holds once its query has run is an answer of that      *)
(* moment, never changed and never brought back.                           *)
THEOREM IsReadThroughCorrect == TtlSpec => IsReadThrough
<1>1. TtlInit => Cells!Init
  BY LoadsAssumption DEF TtlInit, Cells!Init, Cells!NoAnswer
<1>2. TtlInv /\ [TtlNext]_ttlVars => [Cells!Next]_(Cells!vars)
  BY EveryStepMaps
<1> QED BY <1>1, <1>2, TtlCorrect, PTL DEF TtlSpec, IsReadThrough, Cells!Spec
-----------------------------------------------------------------------------
(* The check of the epochs *)

(* What the process knows of the epochs is as old as the clock of its      *)
(* checks says, unless that clock has stopped; and whoever waits has kept  *)
(* the check company since no more than one timeout after it began, so     *)
(* that its end can release nobody with an old answer.                     *)
Waiter(r) == request[r].st = "waiting"

AgesRight ==
  /\ inflight.age < Interval => inflight.seen <= inflight.age
  /\ checksAnswering /\ age < Interval => knowledge <= age

WaitersRight ==
  \A r \in Requests : Waiter(r) =>
    inflight.st # "none" /\ inflight.seen <= request[r].waited + Timeout

(* While checks answer, the request that began one still waits for it.     *)
BeganByWaiter ==
  checksAnswering /\ inflight.st # "none" =>
    \E r \in Requests : Waiter(r) /\ inflight.seen <= request[r].waited

CheckInv == CheckTypeOK /\ AgesRight /\ WaitersRight /\ BeganByWaiter

LEMMA CheckBegins == CheckInit => CheckInv
BY TimesAssumption
   DEF CheckInit, CheckInv, CheckTypeOK, AgesRight, WaitersRight, BeganByWaiter, Waiter, Idle, NoCheck, Never

(* A request arrives: it waits for the check that is out, for one it       *)
(* begins, or for none.                                                    *)
LEMMA ArriveKeeps ==
  ASSUME CheckInv, NEW r \in Requests, Arrive(r)
  PROVE  CheckInv'
<1> DEFINE waits == checksAnswering /\ (Due \/ inflight.st # "none")
<1>1. /\ request' = [request EXCEPT ![r] = IF waits THEN Waiting(0) ELSE Passed]
      /\ inflight' = IF Due THEN NewCheck ELSE inflight
      /\ UNCHANGED <<age, checksAnswering, knowledge>>
      /\ request[r].st = "idle"
  BY DEF Arrive, SyncCacheEpoch, Idle
<1>2. /\ request \in [Requests -> [st : {"idle", "waiting", "passed"}, waited : 0..Timeout]]
      /\ inflight \in [st : {"none", "sent", "ran"}, age : 0..Interval, seen : 0..Never]
      /\ Interval \in Nat /\ Timeout \in Nat
  BY TimesAssumption DEF CheckInv, CheckTypeOK
<1>3. /\ \A s \in Requests \ {r} : request'[s] = request[s]
      /\ request'[r].waited = 0
      /\ Waiter(r)' <=> waits
  BY <1>1, <1>2 DEF Waiting, Passed, Waiter
<1>4. CheckTypeOK'
  BY <1>1, <1>2 DEF CheckInv, CheckTypeOK, NewCheck, Waiting, Passed, Never
<1>5. AgesRight' BY <1>1, <1>2 DEF CheckInv, AgesRight, NewCheck
<1>6. WaitersRight'
  <2> SUFFICES ASSUME NEW s \in Requests, Waiter(s)'
               PROVE  inflight'.st # "none" /\ inflight'.seen <= request'[s].waited + Timeout
    BY DEF WaitersRight
  <2>1. CASE Due
    <3>1. inflight'.st = "sent" /\ inflight'.seen = 0 BY <1>1, <2>1 DEF NewCheck
    <3>2. request'[s].waited \in 0..Timeout BY <1>4 DEF CheckTypeOK
    <3>. QED BY <1>2, <3>1, <3>2
  <2>2. CASE ~Due /\ s = r
    <3>1. checksAnswering /\ inflight.st # "none" /\ inflight' = inflight BY <1>1, <1>3, <2>2
    <3>2. PICK w \in Requests : Waiter(w) /\ inflight.seen <= request[w].waited
      BY <3>1 DEF CheckInv, BeganByWaiter
    <3>3. request[w].waited \in 0..Timeout /\ inflight.seen \in 0..Never BY <1>2
    <3>. QED BY <1>2, <1>3, <2>2, <3>1, <3>2, <3>3 DEF Never
  <2>3. CASE ~Due /\ s # r
    BY <1>1, <1>3, <2>3 DEF CheckInv, WaitersRight, Waiter
  <2>. QED BY <2>1, <2>2, <2>3
<1>7. BeganByWaiter'
  <2> SUFFICES ASSUME checksAnswering, inflight'.st # "none"
               PROVE  \E s \in Requests : Waiter(s)' /\ inflight'.seen <= request'[s].waited
    BY <1>1 DEF BeganByWaiter
  <2>1. CASE Due
    <3>1. inflight'.seen = 0 BY <1>1, <2>1 DEF NewCheck
    <3>. QED BY <1>3, <2>1, <3>1
  <2>2. CASE ~Due
    <3>1. inflight' = inflight BY <1>1, <2>2
    <3>2. PICK w \in Requests : Waiter(w) /\ inflight.seen <= request[w].waited
      BY <3>1 DEF CheckInv, BeganByWaiter
    <3>3. w # r BY <1>1, <3>2 DEF Waiter
    <3>. QED BY <1>3, <3>1, <3>2, <3>3 DEF Waiter
  <2>. QED BY <2>1, <2>2
<1>. QED BY <1>4, <1>5, <1>6, <1>7 DEF CheckInv

(* A request goes on after its timeout, which ends the trust in the checks *)
(* it waited for; or its page is done.                                     *)
LEMMA LeavesKeep ==
  ASSUME CheckInv, NEW r \in Requests, FinishRequest(r) \/ TimesOut(r)
  PROVE  CheckInv'
<1>1. /\ \E x \in {Idle, Passed} : request' = [request EXCEPT ![r] = x]
      /\ UNCHANGED <<age, inflight, knowledge>>
      /\ checksAnswering' \in BOOLEAN /\ (checksAnswering' => checksAnswering)
      /\ Waiter(r) => checksAnswering' = (checksAnswering /\ inflight.st = "none")
  <2>1. checksAnswering \in BOOLEAN BY DEF CheckInv, CheckTypeOK
  <2>2. CASE FinishRequest(r)
    <3>1. ~Waiter(r) BY <2>2 DEF FinishRequest, Passed, Waiter
    <3>. QED BY <2>1, <2>2, <3>1 DEF FinishRequest
  <2>3. CASE TimesOut(r) BY <2>1, <2>3 DEF TimesOut
  <2>. QED BY <2>2, <2>3
<1>2. request \in [Requests -> [st : {"idle", "waiting", "passed"}, waited : 0..Timeout]]
      /\ Timeout \in Nat
  BY TimesAssumption DEF CheckInv, CheckTypeOK
<1>3. (\A s \in Requests \ {r} : request'[s] = request[s]) /\ ~Waiter(r)'
  BY <1>1, <1>2 DEF Idle, Passed, Waiter
<1>4. CheckTypeOK' BY <1>1, <1>2 DEF CheckInv, CheckTypeOK, Idle, Passed
<1>5. AgesRight' BY <1>1 DEF CheckInv, AgesRight
<1>6. WaitersRight' BY <1>1, <1>3 DEF CheckInv, WaitersRight, Waiter
<1>7. BeganByWaiter'
  <2> SUFFICES ASSUME checksAnswering', inflight'.st # "none"
               PROVE  \E s \in Requests : Waiter(s)' /\ inflight'.seen <= request'[s].waited
    BY DEF BeganByWaiter
  <2>1. PICK w \in Requests : Waiter(w) /\ inflight.seen <= request[w].waited
    BY <1>1 DEF CheckInv, BeganByWaiter
  <2>2. w # r BY <1>1, <2>1
  <2>. QED BY <1>1, <1>3, <2>1, <2>2 DEF Waiter
<1>. QED BY <1>4, <1>5, <1>6, <1>7 DEF CheckInv

LEMMA ReleasedWaiters ==
  ASSUME CheckTypeOK, request' = Released
  PROVE  /\ request' \in [Requests -> [st : {"idle", "waiting", "passed"}, waited : 0..Timeout]]
         /\ \A r \in Requests : ~Waiter(r)'
BY TimesAssumption DEF CheckTypeOK, Released, Passed, Waiter

LEMMA CheckEndsKeeps ==
  ASSUME CheckInv, CheckSucceeds \/ CheckFails
  PROVE  CheckInv'
<1>1. CheckTypeOK /\ request' = Released /\ inflight' = NoCheck
  BY DEF CheckInv, CheckSucceeds, CheckFails
<1>2. \A r \in Requests : ~Waiter(r)' BY <1>1, ReleasedWaiters
<1>3. CheckTypeOK'
  <2>1. age' \in 0..Interval /\ knowledge' \in 0..Never /\ checksAnswering' \in BOOLEAN
    <3>1. CASE CheckSucceeds BY <1>1, <3>1 DEF CheckTypeOK, CheckSucceeds
    <3>2. CASE CheckFails
      <4>1. Interval - Backoff \in 0..Interval BY TimesAssumption
      <4>. QED BY <1>1, <3>2, <4>1 DEF CheckTypeOK, CheckFails
    <3>. QED BY <3>1, <3>2
  <2>2. inflight' \in [st : {"none", "sent", "ran"}, age : 0..Interval, seen : 0..Never]
    BY <1>1, TimesAssumption DEF NoCheck, Never
  <2>. QED BY <1>1, <2>1, <2>2, ReleasedWaiters DEF CheckTypeOK
<1>4. AgesRight'
  BY <1>1, TimesAssumption DEF CheckInv, CheckTypeOK, AgesRight, CheckSucceeds, CheckFails, NoCheck
<1>5. WaitersRight' /\ BeganByWaiter' BY <1>1, <1>2 DEF WaitersRight, BeganByWaiter, NoCheck
<1>. QED BY <1>3, <1>4, <1>5 DEF CheckInv

LEMMA RunCheckKeeps ==
  ASSUME CheckInv, RunCheck
  PROVE  CheckInv'
<1>1. /\ inflight.st = "sent" /\ inflight' = [inflight EXCEPT !.st = "ran"]
      /\ UNCHANGED <<age, checksAnswering, request, knowledge>>
  BY DEF RunCheck
<1>2. inflight \in [st : {"none", "sent", "ran"}, age : 0..Interval, seen : 0..Never]
  BY DEF CheckInv, CheckTypeOK
<1>3. inflight'.st = "ran" /\ inflight'.age = inflight.age /\ inflight'.seen = inflight.seen
  BY <1>1, <1>2
<1>4. CheckTypeOK' BY <1>1, <1>2 DEF CheckInv, CheckTypeOK
<1>5. AgesRight' BY <1>1, <1>3 DEF CheckInv, AgesRight
<1>6. WaitersRight' BY <1>1, <1>3 DEF CheckInv, WaitersRight, Waiter
<1>7. BeganByWaiter' BY <1>1, <1>3 DEF CheckInv, BeganByWaiter, Waiter
<1>. QED BY <1>4, <1>5, <1>6, <1>7 DEF CheckInv

(* All that has an age ages alike, up to where the ages stop.              *)
LEMMA TickKeeps ==
  ASSUME CheckInv, Tick
  PROVE  CheckInv'
<1>1. /\ \A r \in Requests : request[r] # Waiting(Timeout)
      /\ age' = Grown(age, Interval) /\ knowledge' = Grown(knowledge, Never)
      /\ request' = [r \in Requests |-> IF request[r].st = "waiting"
                                        THEN Waiting(request[r].waited + 1) ELSE request[r]]
      /\ checksAnswering' = checksAnswering
  BY DEF Tick
<1>2. /\ request \in [Requests -> [st : {"idle", "waiting", "passed"}, waited : 0..Timeout]]
      /\ inflight \in [st : {"none", "sent", "ran"}, age : 0..Interval, seen : 0..Never]
      /\ age \in 0..Interval /\ knowledge \in 0..Never
      /\ Interval \in Nat /\ Timeout \in Nat /\ Never = Interval + 1
  BY TimesAssumption DEF CheckInv, CheckTypeOK, Never
<1>3. /\ inflight'.st = inflight.st
      /\ inflight.st = "none" => inflight' = inflight
      /\ inflight.st # "none" =>
           /\ inflight'.age = Grown(inflight.age, Interval)
           /\ inflight'.seen = IF inflight.st = "ran" THEN Grown(inflight.seen, Never) ELSE 0
      /\ inflight' = [st |-> inflight'.st, age |-> inflight'.age, seen |-> inflight'.seen]
  BY <1>2 DEF Tick
<1>4. inflight'.seen \in 0..Never /\ inflight'.age \in 0..Interval /\ inflight'.seen <= inflight.seen + 1
  BY <1>2, <1>3 DEF Grown
<1>5. ASSUME NEW r \in Requests
      PROVE  /\ Waiter(r)' <=> Waiter(r)
             /\ Waiter(r) => request'[r].waited = request[r].waited + 1 /\ request[r].waited < Timeout
             /\ request'[r] \in [st : {"idle", "waiting", "passed"}, waited : 0..Timeout]
  <2>1. request[r] = [st |-> request[r].st, waited |-> request[r].waited]
        /\ request[r].waited \in 0..Timeout
    BY <1>2
  <2>2. Waiter(r) => request[r].waited < Timeout
    <3>1. Waiter(r) => request[r] = Waiting(request[r].waited) BY <2>1 DEF Waiter, Waiting
    <3>2. Waiter(r) => request[r].waited # Timeout BY <1>1, <3>1
    <3>. QED BY <1>2, <2>1, <3>2
  <2>3. request'[r] = IF Waiter(r) THEN Waiting(request[r].waited + 1) ELSE request[r]
    BY <1>1 DEF Waiter
  <2>. QED BY <1>2, <2>1, <2>2, <2>3 DEF Waiter, Waiting
<1>6. CheckTypeOK'
  <2>1. age' \in 0..Interval /\ knowledge' \in 0..Never BY <1>1, <1>2 DEF Grown
  <2>2. inflight' \in [st : {"none", "sent", "ran"}, age : 0..Interval, seen : 0..Never]
    BY <1>2, <1>3, <1>4
  <2>3. request' \in [Requests -> [st : {"idle", "waiting", "passed"}, waited : 0..Timeout]]
    BY <1>1, <1>5
  <2>. QED BY <1>1, <2>1, <2>2, <2>3 DEF CheckInv, CheckTypeOK
<1>7. AgesRight'
  <2>1. inflight'.age < Interval => inflight'.seen <= inflight'.age
    BY <1>2, <1>3 DEF CheckInv, AgesRight, Grown
  <2>2. checksAnswering' /\ age' < Interval => knowledge' <= age'
    BY <1>1, <1>2 DEF CheckInv, AgesRight, Grown
  <2>. QED BY <2>1, <2>2 DEF AgesRight
<1>8. WaitersRight'
  <2> SUFFICES ASSUME NEW r \in Requests, Waiter(r)
               PROVE  inflight'.st # "none" /\ inflight'.seen <= request'[r].waited + Timeout
    BY <1>5 DEF WaitersRight
  <2>1. inflight.st # "none" /\ inflight.seen <= request[r].waited + Timeout
    BY DEF CheckInv, WaitersRight
  <2>2. request'[r].waited = request[r].waited + 1 /\ request[r].waited \in 0..Timeout BY <1>2, <1>5
  <2>. QED BY <1>2, <1>3, <1>4, <2>1, <2>2
<1>9. BeganByWaiter'
  <2> SUFFICES ASSUME checksAnswering, inflight.st # "none"
               PROVE  \E r \in Requests : Waiter(r)' /\ inflight'.seen <= request'[r].waited
    BY <1>1, <1>3 DEF BeganByWaiter
  <2>1. PICK w \in Requests : Waiter(w) /\ inflight.seen <= request[w].waited
    BY DEF CheckInv, BeganByWaiter
  <2>2. request'[w].waited = request[w].waited + 1 /\ request[w].waited \in 0..Timeout /\ Waiter(w)'
    BY <1>2, <1>5, <2>1
  <2>. QED BY <1>2, <1>4, <2>1, <2>2
<1>. QED BY <1>6, <1>7, <1>8, <1>9 DEF CheckInv

LEMMA CheckKeeps == CheckInv /\ [CheckNext]_checkVars => CheckInv'
<1>1. ASSUME CheckInv, UNCHANGED checkVars PROVE CheckInv'
  BY <1>1 DEF CheckInv, CheckTypeOK, AgesRight, WaitersRight, BeganByWaiter, Waiter, checkVars
<1>. QED BY <1>1, ArriveKeeps, LeavesKeep, CheckEndsKeeps, RunCheckKeeps, TickKeeps DEF CheckNext, Check

(***************************************************************************)
(* While the checks of the epochs answer, no request is let through with   *)
(* knowledge older than one interval, however slow they are, whoever       *)
(* joined one late and whatever was given up on before (cacheEpochSync and *)
(* syncCacheEpoch of utils/cache-epoch.ts).                                *)
(***************************************************************************)
THEOREM FreshWhileAnsweringCorrect == CheckSpec => FreshWhileAnswering
<1>1. ASSUME CheckInv, [CheckNext]_checkVars
      PROVE  [\A r \in Requests : Lets(r) /\ checksAnswering' => knowledge' <= Interval]_checkVars
  <2> SUFFICES ASSUME CheckNext, NEW r \in Requests, Lets(r), checksAnswering'
               PROVE  knowledge' <= Interval
    BY <1>1
  <2>1. /\ request \in [Requests -> [st : {"idle", "waiting", "passed"}, waited : 0..Timeout]]
        /\ inflight \in [st : {"none", "sent", "ran"}, age : 0..Interval, seen : 0..Never]
        /\ age \in 0..Interval /\ knowledge \in 0..Never
    BY <1>1 DEF CheckInv, CheckTypeOK
  <2>2. ASSUME NEW s \in Requests, Arrive(s) PROVE knowledge' <= Interval
    <3>1. s = r /\ ~(checksAnswering /\ (Due \/ inflight.st # "none")) /\ checksAnswering
          /\ knowledge' = knowledge
      BY <2>1, <2>2 DEF Arrive, Lets, Waiting
    <3>2. age < Interval BY <2>1, <3>1, TimesAssumption DEF Due
    <3>. QED BY <1>1, <2>1, <3>1, <3>2, TimesAssumption DEF CheckInv, AgesRight, Never
  <2>3. ASSUME NEW s \in Requests, FinishRequest(s) PROVE FALSE
    BY <2>1, <2>3 DEF FinishRequest, Lets, Idle
  <2>4. ASSUME NEW s \in Requests, TimesOut(s) PROVE FALSE
    <3>1. s = r /\ Waiter(r) BY <2>1, <2>4 DEF TimesOut, Lets, Waiter, Waiting
    <3>2. inflight.st # "none" BY <1>1, <3>1 DEF CheckInv, WaitersRight
    <3>. QED BY <2>4, <3>2 DEF TimesOut
  <2>5. ASSUME CheckSucceeds PROVE knowledge' <= Interval
    <3>1. knowledge' = inflight.seen /\ request' = Released BY <2>5 DEF CheckSucceeds
    <3>2. Waiter(r) BY <3>1 DEF Lets, Released, Waiter
    <3>3. inflight.seen <= request[r].waited + Timeout /\ request[r].waited \in 0..Timeout
      BY <1>1, <2>1, <3>2 DEF CheckInv, WaitersRight
    <3>. QED BY <2>1, <3>1, <3>3, TimesAssumption DEF Never
  <2>6. ASSUME CheckFails PROVE FALSE BY <2>6 DEF CheckFails
  <2>7. ASSUME RunCheck PROVE FALSE BY <2>7 DEF RunCheck, Lets
  <2>8. ASSUME Tick PROVE FALSE BY <2>8 DEF Tick, Lets, Waiting
  <2>. QED BY <2>2, <2>3, <2>4, <2>5, <2>6, <2>7, <2>8 DEF CheckNext, Check
<1>2. CheckInit => CheckInv BY CheckBegins
<1>. QED BY <1>1, <1>2, CheckKeeps, PTL DEF CheckSpec, FreshWhileAnswering
=============================================================================
