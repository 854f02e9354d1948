------------------------- MODULE MigrationsProofs -------------------------
(***************************************************************************)
(* Proofs about Migrations.tla, for any builds, rows to start from and     *)
(* number of runs.  Everything rests on the advisory lock: what a run read *)
(* and planned stays true until it has ended, since nobody else is at work. *)
(***************************************************************************)
EXTENDS Migrations, TLAPS

(* What a run may rely on between its queries.                             *)
PlanHolds ==
  \A r \in Runs : pc[r] \in {"applying", "checking"} =>
    /\ todo[r] = Pending(r)
    /\ \A m \in Files[r] \cap Applied : row[m] \in {Legacy, Sum[r][m]}
    /\ \A m \in todo[r], n \in Applied : n < m

(* A lone statement that has run: it took effect, or met an INVALID index. *)
RanOutside ==
  \A r \in Runs : pc[r] = "checking" =>
    \E m \in Names : /\ Turn(r, m) /\ KindOf[m] # "transaction"
                     /\ times[m] # 0 \/ m \in invalid

(* Only a concurrent build leaves an index behind.                         *)
OnlyIndexes == \A m \in invalid : KindOf[m] = "concurrent"

MigInv ==
  /\ TypeOK /\ OneAtATime /\ PlanHolds /\ RanOutside /\ OnlyIndexes
  /\ RowsMeanSchema /\ OnceEach /\ DoneMeansCurrent

(* What the assumptions say of a run and its files.                        *)
LEMMA BuildTypes ==
  ASSUME NEW r \in Runs
  PROVE  /\ r # NoRun /\ Files[r] \subseteq Names
         /\ \A m \in Names : Sum[r][m] \in Nat /\ Sum[r][m] # Absent /\ Sum[r][m] # Legacy
BY FilesAssumption, RunsAssumption

LEMMA NamesAreNumbers == Names \subseteq Nat
BY NamesAssumption

(* The lowest of the planned files is one file.                            *)
LEMMA TurnIsOne ==
  ASSUME TypeOK, NEW r \in Runs, NEW m \in Names, NEW n \in Names, Turn(r, m), Turn(r, n)
  PROVE  m = n
BY NamesAreNumbers DEF Turn, TypeOK

LEMMA MigInit == Init => MigInv
<1> SUFFICES ASSUME Init PROVE MigInv
  OBVIOUS
<1>1. TypeOK
  BY InitiallyAssumption, RunsAssumption DEF Init, TypeOK, Phases
<1>2. \A r \in Runs : pc[r] = "new"
  BY DEF Init
<1>3. OneAtATime /\ PlanHolds /\ RanOutside /\ DoneMeansCurrent
  BY <1>2 DEF OneAtATime, PlanHolds, RanOutside, DoneMeansCurrent, Working
<1>4. \A m \in Names : times[m] = IF row[m] = Absent THEN 0 ELSE 1
  BY DEF Init
<1>5. RowsMeanSchema /\ OnceEach /\ OnlyIndexes
  BY <1>4 DEF RowsMeanSchema, OnceEach, OnlyIndexes, Applied, Init
<1> QED BY <1>1, <1>3, <1>5 DEF MigInv

-----------------------------------------------------------------------------
(* Steps that leave the table and the effects alone.                       *)

(* Another run's steps, and one's own that end or restart a pass.          *)
LEMMA OffWorkKeeps ==
  ASSUME MigInv, NEW r \in Runs, UNCHANGED <<row, times>>, TypeOK',
         \A m \in invalid' \ invalid : times[m] = 0 /\ KindOf[m] = "concurrent",
         invalid \subseteq invalid',
         \A s \in Runs \ {r} : pc'[s] = pc[s] /\ todo'[s] = todo[s],
         pc'[r] \notin {"applying", "checking", "done"},
         pc'[r] = "planning" => lock' = r,
         lock' = lock \/ (lock \in {NoRun, r} /\ lock' \in {NoRun, r})
  PROVE  MigInv'
<1>1. Applied' = Applied
  BY DEF Applied
<1>2. OneAtATime'
  <2> SUFFICES ASSUME NEW s \in Runs, Working(s)' PROVE lock' = s
    BY DEF OneAtATime
  <2>1. CASE s = r
    BY <2>1 DEF Working
  <2>2. CASE s # r
    <3>1. lock = s
      BY <2>2 DEF Working, MigInv, OneAtATime
    <3> QED BY <2>2, <3>1, BuildTypes
  <2> QED BY <2>1, <2>2
<1>3. \A s \in Runs : pc'[s] \in {"applying", "checking", "done"} =>
        s # r /\ pc'[s] = pc[s] /\ todo'[s] = todo[s]
  OBVIOUS
<1>4. PlanHolds' /\ DoneMeansCurrent'
  BY <1>1, <1>3 DEF MigInv, PlanHolds, DoneMeansCurrent, Pending
<1>5. RanOutside'
  BY <1>3 DEF MigInv, RanOutside, Turn
<1>6. RowsMeanSchema' /\ OnceEach' /\ OnlyIndexes'
  BY <1>1 DEF MigInv, RowsMeanSchema, OnceEach, OnlyIndexes
<1> QED BY <1>2, <1>4, <1>5, <1>6 DEF MigInv

LEMMA EndType ==
  ASSUME TypeOK, NEW r \in Runs, NEW how \in Phases, End(r, how)
  PROVE  /\ lock' \in Runs \cup {NoRun} /\ pc' \in [Runs -> Phases]
         /\ todo' \in [Runs -> SUBSET Names] /\ attempt' \in [Runs -> 0..Attempts]
BY RunsAssumption DEF TypeOK, End

LEMMA FailsType ==
  ASSUME TypeOK, NEW r \in Runs, NEW code, Fails(r, code)
  PROVE  /\ lock' \in Runs \cup {NoRun} /\ pc' \in [Runs -> Phases]
         /\ todo' \in [Runs -> SUBSET Names] /\ attempt' \in [Runs -> 0..Attempts]
<1>1. CASE code /\ attempt[r] < Attempts
  BY <1>1, RunsAssumption DEF TypeOK, Fails, Phases
<1>2. CASE ~(code /\ attempt[r] < Attempts)
  BY <1>2, EndType DEF Fails, Phases
<1> QED BY <1>1, <1>2

(* A pass that fails, for whatever reason, with the lock held.             *)
LEMMA FailureKeeps ==
  ASSUME MigInv, NEW r \in Runs, Working(r), NEW code, Fails(r, code),
         UNCHANGED <<row, times>>, invalid' \subseteq Names, invalid \subseteq invalid',
         \A m \in invalid' \ invalid : times[m] = 0 /\ KindOf[m] = "concurrent"
  PROVE  MigInv'
<1>1. lock = r
  BY DEF MigInv, OneAtATime
<1>2. TypeOK'
  <2>1. TypeOK
    BY DEF MigInv
  <2>2. /\ lock' \in Runs \cup {NoRun} /\ pc' \in [Runs -> Phases]
        /\ todo' \in [Runs -> SUBSET Names] /\ attempt' \in [Runs -> 0..Attempts]
    BY <2>1, FailsType
  <2> QED BY <2>1, <2>2 DEF TypeOK
<1>3. \A s \in Runs \ {r} : pc'[s] = pc[s] /\ todo'[s] = todo[s]
  BY DEF Fails, End, MigInv, TypeOK
<1>4. \/ pc'[r] = "planning" /\ lock' = r
      \/ pc'[r] = "failed" /\ lock' = NoRun
  BY <1>1 DEF Fails, End, MigInv, TypeOK
<1> QED BY <1>1, <1>2, <1>3, <1>4, OffWorkKeeps

-----------------------------------------------------------------------------
(* Steps that read and plan.                                               *)

LEMMA PlanKeeps ==
  ASSUME MigInv, NEW r \in Runs, Plan(r)
  PROVE  MigInv'
<1>0. TypeOK /\ lock = r
  BY DEF MigInv, OneAtATime, Working, Plan
<1>1. CASE HistoryMatches(r) /\ InOrder(r) /\ WellFormed(r)
  <2>1. /\ todo' = [todo EXCEPT ![r] = Pending(r)]
        /\ pc' = [pc EXCEPT ![r] = "applying"]
        /\ UNCHANGED <<row, times, invalid, lock, attempt>>
    BY <1>1 DEF Plan, database
  <2>2. TypeOK'
    BY <1>0, <2>1, BuildTypes DEF TypeOK, Phases, Pending
  <2>3. Applied' = Applied
    BY <2>1 DEF Applied
  <2>4. PlanHolds'
    <3> SUFFICES ASSUME NEW s \in Runs, pc'[s] \in {"applying", "checking"}
                 PROVE  /\ todo'[s] = Pending(s)'
                        /\ \A m \in Files[s] \cap Applied : row[m] \in {Legacy, Sum[s][m]}
                        /\ \A m \in todo'[s], n \in Applied : n < m
      BY <2>1, <2>3 DEF PlanHolds
    <3>1. CASE s = r
      BY <1>0, <1>1, <2>1, <2>3, <3>1, BuildTypes, NamesAreNumbers
         DEF TypeOK, HistoryMatches, InOrder, Pending, Applied
    <3>2. CASE s # r
      BY <1>0, <2>1, <2>3, <3>2 DEF TypeOK, MigInv, PlanHolds, Pending
    <3> QED BY <3>1, <3>2
  <2>5. OneAtATime'
    BY <1>0, <2>1 DEF MigInv, OneAtATime, Working, TypeOK
  <2>6. RanOutside' /\ DoneMeansCurrent'
    BY <1>0, <2>1, <2>3 DEF MigInv, RanOutside, DoneMeansCurrent, Turn, Pending, TypeOK
  <2>7. RowsMeanSchema' /\ OnceEach' /\ OnlyIndexes'
    BY <2>1, <2>3 DEF MigInv, RowsMeanSchema, OnceEach, OnlyIndexes
  <2> QED BY <2>2, <2>4, <2>5, <2>6, <2>7 DEF MigInv
<1>2. CASE ~(HistoryMatches(r) /\ InOrder(r) /\ WellFormed(r))
  <2>1. Fails(r, FALSE) /\ UNCHANGED <<row, times, invalid>>
    BY <1>2 DEF Plan, Fails, database
  <2> QED BY <2>1, FailureKeeps DEF Plan, Working, MigInv, TypeOK
<1> QED BY <1>1, <1>2

(* The run ends with every file of its build recorded.                     *)
LEMMA FinishKeeps ==
  ASSUME MigInv, NEW r \in Runs, Finish(r)
  PROVE  MigInv'
<1>0. TypeOK /\ lock = r /\ Pending(r) = {}
  BY DEF MigInv, OneAtATime, Working, PlanHolds, Finish
<1>1. /\ pc' = [pc EXCEPT ![r] = "done"] /\ lock' = NoRun
      /\ todo' = [todo EXCEPT ![r] = {}] /\ UNCHANGED <<row, times, invalid>>
  BY <1>0 DEF Finish, End, database
<1>2. Applied' = Applied
  BY <1>1 DEF Applied
<1>3. TypeOK'
  <2>1. "done" \in Phases
    BY DEF Phases
  <2>2. /\ lock' \in Runs \cup {NoRun} /\ pc' \in [Runs -> Phases]
        /\ todo' \in [Runs -> SUBSET Names] /\ attempt' \in [Runs -> 0..Attempts]
    BY <1>0, <2>1, EndType DEF Finish
  <2> QED BY <1>0, <1>1, <2>2 DEF TypeOK
<1>4. \A s \in Runs \ {r} : ~Working(s)
  BY <1>0 DEF MigInv, OneAtATime
<1>5. OneAtATime' /\ PlanHolds' /\ RanOutside'
  BY <1>0, <1>1, <1>4 DEF OneAtATime, PlanHolds, RanOutside, Working, TypeOK
<1>6. DoneMeansCurrent'
  <2>1. \A m \in Files[r] : row[m] \in {Legacy, Sum[r][m]}
    BY <1>0 DEF Pending, MigInv, PlanHolds, Finish
  <2> QED BY <1>0, <1>1, <1>2, <2>1 DEF MigInv, DoneMeansCurrent, Pending, TypeOK
<1>7. RowsMeanSchema' /\ OnceEach' /\ OnlyIndexes'
  BY <1>1, <1>2 DEF MigInv, RowsMeanSchema, OnceEach, OnlyIndexes
<1> QED BY <1>3, <1>5, <1>6, <1>7 DEF MigInv

-----------------------------------------------------------------------------
(* Steps that write.                                                       *)

(* One more file is recorded; nothing that was recorded changes.           *)
LEMMA Recorded ==
  ASSUME TypeOK, NEW r \in Runs, NEW m \in Names, row[m] = Absent,
         row' = [row EXCEPT ![m] = Sum[r][m]]
  PROVE  /\ Applied' = Applied \cup {m} /\ m \notin Applied
         /\ row'[m] = Sum[r][m] /\ row'[m] \in Nat
         /\ \A n \in Names \ {m} : row'[n] = row[n]
BY BuildTypes DEF TypeOK, Applied

LEMMA RecordedDone ==
  ASSUME MigInv, NEW r \in Runs, NEW m \in Names, row[m] = Absent,
         row' = [row EXCEPT ![m] = Sum[r][m]],
         \A s \in Runs : pc'[s] = "done" => pc[s] = "done"
  PROVE  DoneMeansCurrent'
<1>1. TypeOK
  BY DEF MigInv
<1>2. /\ Applied' = Applied \cup {m} /\ m \notin Applied
      /\ \A n \in Names \ {m} : row'[n] = row[n]
  BY <1>1, Recorded
<1> SUFFICES ASSUME NEW s \in Runs, pc[s] = "done"
             PROVE  Pending(s)' = {} /\ \A n \in Files[s] : row'[n] \in {Legacy, Sum[s][n]}
  BY DEF DoneMeansCurrent
<1>3. Files[s] \subseteq Applied /\ \A n \in Files[s] : row[n] \in {Legacy, Sum[s][n]}
  BY DEF MigInv, DoneMeansCurrent, Pending
<1> QED BY <1>2, <1>3, BuildTypes DEF Pending

(* The plan, after the lowest of its files has been recorded.              *)
LEMMA RecordedPlan ==
  ASSUME MigInv, NEW r \in Runs, NEW m \in Names, Turn(r, m), row[m] = Absent,
         pc[r] \in {"applying", "checking"},
         row' = [row EXCEPT ![m] = Sum[r][m]],
         pc'[r] \in {"applying", "checking"} => todo'[r] = todo[r] \ {m},
         \A s \in Runs \ {r} : pc'[s] = pc[s]
  PROVE  PlanHolds'
<1>1. TypeOK /\ \A s \in Runs \ {r} : ~Working(s)
  BY DEF MigInv, OneAtATime, Working
<1>2. /\ Applied' = Applied \cup {m} /\ m \notin Applied
      /\ row'[m] = Sum[r][m]
      /\ \A n \in Names \ {m} : row'[n] = row[n]
  BY <1>1, Recorded
<1>3. /\ todo[r] = Pending(r)
      /\ \A n \in Files[r] \cap Applied : row[n] \in {Legacy, Sum[r][n]}
      /\ \A n \in todo[r], k \in Applied : k < n
      /\ \A n \in todo[r] : n \in Nat /\ m \in Nat /\ m <= n
  BY <1>1, NamesAreNumbers DEF MigInv, PlanHolds, Turn, TypeOK
<1>4. \A s \in Runs : pc'[s] \in {"applying", "checking"} => s = r
  BY <1>1 DEF Working
<1>5. todo[r] \ {m} = Pending(r)'
  BY <1>2, <1>3 DEF Pending
<1>6. \A n \in Files[r] \cap Applied' : row'[n] \in {Legacy, Sum[r][n]}
  BY <1>2, <1>3, BuildTypes
<1>7. \A n \in todo[r] \ {m}, k \in Applied' : k < n
  BY <1>2, <1>3
<1> QED BY <1>4, <1>5, <1>6, <1>7 DEF PlanHolds

LEMMA TransactionKeeps ==
  ASSUME MigInv, NEW r \in Runs, NEW m \in Names, pc[r] = "applying", Turn(r, m),
         KindOf[m] = "transaction", row[m] = Absent, Committed(r, m), invalid' = invalid,
         TypeOK', \A s \in Runs \ {r} : pc'[s] = pc[s],
         \/ pc'[r] = "applying" /\ lock' = r /\ todo'[r] = todo[r] \ {m}
         \/ pc'[r] = "failed" /\ lock' = NoRun
  PROVE  MigInv'
<1>0. /\ TypeOK /\ lock = r /\ \A s \in Runs \ {r} : ~Working(s)
      /\ row' = [row EXCEPT ![m] = Sum[r][m]]
      /\ times' = [times EXCEPT ![m] = @ + 1]
  BY DEF MigInv, OneAtATime, Working, Committed
<1>1. /\ Applied' = Applied \cup {m} /\ m \notin Applied
      /\ row'[m] = Sum[r][m]
      /\ \A n \in Names \ {m} : row'[n] = row[n]
  BY <1>0, Recorded
<1>2. times[m] = 0
  BY DEF MigInv, OnceEach
<1>3. times'[m] = 1 /\ \A n \in Names \ {m} : times'[n] = times[n]
  BY <1>0, <1>2 DEF TypeOK
<1>4. OneAtATime' /\ RanOutside'
  BY <1>0, BuildTypes DEF OneAtATime, RanOutside, Working
<1>5. PlanHolds' /\ DoneMeansCurrent'
  BY <1>0, RecordedPlan, RecordedDone
<1>6. OnceEach' /\ OnlyIndexes'
  BY <1>1, <1>3, BuildTypes DEF MigInv, OnceEach, OnlyIndexes
<1>7. RowsMeanSchema'
  <2>1. m \notin invalid
    BY DEF MigInv, OnlyIndexes, Kinds
  <2>2. times'[m] # 0 /\ \A n \in Applied : n \in Names
    BY <1>3 DEF Applied
  <2> QED BY <1>1, <1>3, <2>1, <2>2 DEF MigInv, RowsMeanSchema
<1> QED BY <1>4, <1>5, <1>6, <1>7 DEF MigInv

LEMMA ApplyKeeps ==
  ASSUME MigInv, NEW r \in Runs, NEW m \in Names,
         ApplyInTransaction(r, m) \/ CommitUnheard(r, m)
  PROVE  MigInv'
<1>0. /\ TypeOK /\ lock = r /\ pc[r] = "applying" /\ Turn(r, m) /\ row[m] = Absent
      /\ KindOf[m] = "transaction" /\ Committed(r, m) /\ invalid' = invalid
  BY DEF MigInv, OneAtATime, Working, ApplyInTransaction, CommitUnheard
<1>1. row' \in [Names -> Nat] /\ times' \in [Names -> Nat]
  BY <1>0, BuildTypes DEF TypeOK, Committed
<1>2. CASE ApplyInTransaction(r, m)
  <2>1. TypeOK'
    BY <1>0, <1>1, <1>2 DEF TypeOK, ApplyInTransaction
  <2>2. pc' = pc /\ lock' = r /\ todo'[r] = todo[r] \ {m}
    BY <1>0, <1>2 DEF TypeOK, ApplyInTransaction
  <2> QED BY <1>0, <2>1, <2>2, TransactionKeeps
<1>3. CASE CommitUnheard(r, m)
  <2>0. "failed" \in Phases
    BY DEF Phases
  <2>1. /\ lock' \in Runs \cup {NoRun} /\ pc' \in [Runs -> Phases]
        /\ todo' \in [Runs -> SUBSET Names] /\ attempt' \in [Runs -> 0..Attempts]
    BY <1>0, <1>3, <2>0, EndType DEF CommitUnheard
  <2>2. TypeOK'
    BY <1>0, <1>1, <2>1 DEF TypeOK
  <2>3. /\ \A s \in Runs \ {r} : pc'[s] = pc[s]
        /\ pc'[r] = "failed" /\ lock' = NoRun
    BY <1>0, <1>3 DEF TypeOK, CommitUnheard, End
  <2> QED BY <1>0, <2>2, <2>3, TransactionKeeps
<1> QED BY <1>2, <1>3

LEMMA RunOutsideKeeps ==
  ASSUME MigInv, NEW r \in Runs, NEW m \in Names, RunOutside(r, m)
  PROVE  MigInv'
<1>0. /\ TypeOK /\ lock = r /\ pc[r] = "applying" /\ Turn(r, m)
      /\ KindOf[m] # "transaction" /\ pc' = [pc EXCEPT ![r] = "checking"]
      /\ UNCHANGED <<row, invalid, lock, todo, attempt>>
  BY DEF MigInv, OneAtATime, Working, RunOutside
<1>1. /\ times' \in [Names -> Nat]
      /\ \A n \in Names : times[n] # 0 => times'[n] # 0
      /\ \A n \in Names \ {m} : times'[n] = times[n]
      /\ times'[m] # 0 \/ m \in invalid
  <2>1. CASE KindOf[m] = "concurrent" /\ (m \in invalid \/ times[m] # 0)
    BY <1>0, <2>1 DEF RunOutside, TypeOK
  <2>2. CASE ~(KindOf[m] = "concurrent" /\ (m \in invalid \/ times[m] # 0))
    <3>1. times' = [times EXCEPT ![m] = @ + 1]
      BY <2>2 DEF RunOutside
    <3> QED BY <1>0, <3>1 DEF TypeOK
  <2> QED BY <2>1, <2>2
<1>2. Applied' = Applied
  BY <1>0 DEF Applied
<1>3. TypeOK'
  BY <1>0, <1>1 DEF TypeOK, Phases
<1>4. OneAtATime' /\ PlanHolds' /\ DoneMeansCurrent'
  BY <1>0, <1>2 DEF MigInv, OneAtATime, PlanHolds, DoneMeansCurrent, Working, Pending, TypeOK
<1>5. RanOutside'
  <2>1. \A s \in Runs \ {r} : pc'[s] # "checking"
    BY <1>0 DEF MigInv, OneAtATime, Working, TypeOK
  <2>2. Turn(r, m)'
    BY <1>0 DEF Turn
  <2> QED BY <1>0, <1>1, <2>1, <2>2 DEF RanOutside
<1>6. RowsMeanSchema' /\ OnceEach' /\ OnlyIndexes'
  BY <1>0, <1>1, <1>2 DEF MigInv, RowsMeanSchema, OnceEach, OnlyIndexes, Applied
<1> QED BY <1>3, <1>4, <1>5, <1>6 DEF MigInv

LEMMA RecordKeeps ==
  ASSUME MigInv, NEW r \in Runs, NEW m \in Names, Record(r, m)
  PROVE  MigInv'
<1>0. /\ TypeOK /\ lock = r /\ pc[r] = "checking" /\ Turn(r, m)
      /\ row[m] = Absent /\ invalid = {}
      /\ row' = [row EXCEPT ![m] = Sum[r][m]]
      /\ todo' = [todo EXCEPT ![r] = @ \ {m}]
      /\ pc' = [pc EXCEPT ![r] = "applying"]
      /\ UNCHANGED <<times, invalid, lock, attempt>>
      /\ \A s \in Runs \ {r} : ~Working(s)
  BY DEF MigInv, OneAtATime, Working, Record
<1>1. KindOf[m] # "transaction" /\ times[m] # 0
  BY <1>0, TurnIsOne DEF MigInv, RanOutside
<1>2. /\ Applied' = Applied \cup {m} /\ m \notin Applied
      /\ row'[m] \in Nat
      /\ \A n \in Names \ {m} : row'[n] = row[n]
  BY <1>0, Recorded
<1>3. TypeOK'
  BY <1>0, BuildTypes DEF TypeOK, Phases
<1>4. PlanHolds' /\ DoneMeansCurrent'
  <2>1. /\ \A s \in Runs \ {r} : pc'[s] = pc[s]
        /\ pc'[r] = "applying" /\ todo'[r] = todo[r] \ {m}
    BY <1>0 DEF TypeOK
  <2> QED BY <1>0, <2>1, RecordedPlan, RecordedDone
<1>5. OneAtATime' /\ RanOutside'
  BY <1>0 DEF OneAtATime, RanOutside, Working, TypeOK
<1>6. RowsMeanSchema' /\ OnceEach' /\ OnlyIndexes'
  BY <1>0, <1>1, <1>2 DEF MigInv, RowsMeanSchema, OnceEach, OnlyIndexes
<1> QED BY <1>3, <1>4, <1>5, <1>6 DEF MigInv

-----------------------------------------------------------------------------
(* Failures, waiting and the operator.                                     *)

LEMMA WaitKeeps ==
  ASSUME MigInv, NEW r \in Runs, Start(r) \/ Attend(r)
  PROVE  MigInv'
<1>0. TypeOK /\ UNCHANGED <<row, times, invalid, todo>>
  BY DEF MigInv, Start, Attend, Acquire, GiveUp, database
<1>1. CASE Start(r)
  BY <1>0, <1>1, OffWorkKeeps DEF Start, TypeOK, Phases
<1>2. CASE Acquire(r)
  <2>1. TypeOK'
    BY <1>0, <1>2, RunsAssumption DEF Acquire, TypeOK, Phases
  <2> QED BY <1>0, <1>2, <2>1, OffWorkKeeps DEF Acquire, TypeOK
<1>3. CASE GiveUp(r)
  BY <1>0, <1>3, OffWorkKeeps DEF GiveUp, TypeOK, Phases
<1> QED BY <1>1, <1>2, <1>3 DEF Attend

LEMMA OutsideFailsKeeps ==
  ASSUME MigInv, NEW r \in Runs, NEW m \in Names, OutsideFails(r, m)
  PROVE  MigInv'
<1>1. /\ Working(r) /\ UNCHANGED <<row, times>> /\ invalid \subseteq Names
      /\ invalid \subseteq invalid' /\ invalid' \subseteq invalid \cup Names
      /\ \A n \in invalid' \ invalid : times[n] = 0 /\ KindOf[n] = "concurrent"
  BY DEF OutsideFails, Working, MigInv, TypeOK
<1>2. PICK code, answered \in BOOLEAN : Fails(r, code /\ ~(answered /\ invalid' # {}))
  BY DEF OutsideFails
<1>3. \E c \in BOOLEAN : Fails(r, c)
  BY <1>2 DEF Fails
<1> QED BY <1>1, <1>3, FailureKeeps

LEMMA DieKeeps ==
  ASSUME MigInv, NEW r \in Runs, Die(r)
  PROVE  MigInv'
<1>0. TypeOK
  BY DEF MigInv
<1>1. /\ UNCHANGED <<row, times>> /\ End(r, "failed")
      /\ invalid \subseteq invalid' /\ invalid' \subseteq invalid \cup todo[r]
      /\ \A m \in invalid' \ invalid : times[m] = 0 /\ KindOf[m] = "concurrent"
  BY DEF Die
<1>2. TypeOK'
  <2>1. "failed" \in Phases /\ invalid' \subseteq Names
    BY <1>0, <1>1 DEF Phases, TypeOK
  <2>2. /\ lock' \in Runs \cup {NoRun} /\ pc' \in [Runs -> Phases]
        /\ todo' \in [Runs -> SUBSET Names] /\ attempt' \in [Runs -> 0..Attempts]
    BY <1>0, <1>1, <2>1, EndType
  <2> QED BY <1>0, <1>1, <2>1, <2>2 DEF TypeOK
<1>3. /\ \A s \in Runs \ {r} : pc'[s] = pc[s] /\ todo'[s] = todo[s]
      /\ pc'[r] = "failed"
      /\ lock' = lock \/ (lock = r /\ lock' = NoRun)
  BY <1>0, <1>1 DEF End, TypeOK
<1> QED BY <1>1, <1>2, <1>3, OffWorkKeeps

LEMMA DropInvalidKeeps ==
  ASSUME MigInv, NEW m \in Names, DropInvalid(m)
  PROVE  MigInv'
<1>1. /\ invalid' \subseteq invalid /\ \A r \in Runs : ~Working(r)
      /\ UNCHANGED <<row, times, lock, pc, todo, attempt>>
  BY DEF DropInvalid
<1>2. Applied' = Applied
  BY <1>1 DEF Applied
<1>3. TypeOK' /\ OneAtATime' /\ RowsMeanSchema' /\ OnceEach' /\ OnlyIndexes'
  BY <1>1, <1>2 DEF MigInv, TypeOK, OneAtATime, RowsMeanSchema, OnceEach, OnlyIndexes, Working
<1>4. PlanHolds' /\ RanOutside' /\ DoneMeansCurrent'
  BY <1>1, <1>2 DEF MigInv, PlanHolds, RanOutside, DoneMeansCurrent, Working, Pending
<1> QED BY <1>3, <1>4 DEF MigInv

LEMMA PassKeeps ==
  ASSUME MigInv, NEW r \in Runs, Pass(r)
  PROVE  MigInv'
<1>1. CASE Apply(r)
  BY <1>1, ApplyKeeps, RunOutsideKeeps, OutsideFailsKeeps, RecordKeeps DEF Apply
<1>2. CASE QueryFails(r)
  <2>1. Working(r) /\ UNCHANGED <<row, times, invalid>> /\ invalid \subseteq Names
    BY <1>2 DEF QueryFails, database, MigInv, TypeOK
  <2>2. PICK code \in BOOLEAN : Fails(r, code)
    BY <1>2 DEF QueryFails
  <2> QED BY <2>1, <2>2, FailureKeeps
<1>3. CASE CheckRefuses(r)
  <2>1. /\ Working(r) /\ UNCHANGED <<row, times, invalid>> /\ invalid \subseteq Names
        /\ Fails(r, FALSE)
    BY <1>3 DEF CheckRefuses, Working, database, MigInv, TypeOK
  <2> QED BY <2>1, FailureKeeps
<1> QED BY <1>1, <1>2, <1>3, PlanKeeps, FinishKeeps DEF Pass

LEMMA MigStep == MigInv /\ [Next]_vars => MigInv'
<1> SUFFICES ASSUME MigInv, [Next]_vars PROVE MigInv'
  OBVIOUS
<1>1. CASE UNCHANGED vars
  BY <1>1 DEF vars, database, MigInv, TypeOK, OneAtATime, PlanHolds, RanOutside, OnlyIndexes,
              RowsMeanSchema, OnceEach, DoneMeansCurrent, Working, Pending, Applied, Turn
<1> QED BY <1>1, WaitKeeps, PassKeeps, DieKeeps, DropInvalidKeeps DEF Next, Over

(* The invariant holds in every behaviour.                                 *)
THEOREM MigCorrect == Spec => []MigInv
BY MigInit, MigStep, PTL DEF Spec

(* Whoever reads the history or applies a file holds the advisory lock     *)
(* (acquireAdvisoryLock, and the finally of runMigrations).                *)
THEOREM OneAtATimeCorrect == Spec => []OneAtATime
<1>1. MigInv => OneAtATime
  BY DEF MigInv
<1> QED BY <1>1, MigCorrect, PTL

(* A recorded migration is in effect and no recorded index is INVALID,     *)
(* whatever failed or died (applyMigration of utils/migrations.ts).        *)
THEOREM RowsMeanSchemaCorrect == Spec => []RowsMeanSchema
<1>1. MigInv => RowsMeanSchema
  BY DEF MigInv
<1> QED BY <1>1, MigCorrect, PTL

(* A transactional migration takes effect exactly when it is recorded, and *)
(* once, though any number of builds race to apply it.                     *)
THEOREM OnceEachCorrect == Spec => []OnceEach
<1>1. MigInv => OnceEach
  BY DEF MigInv
<1> QED BY <1>1, MigCorrect, PTL

(* A run that reports success leaves its build's history complete and      *)
(* matching, and no later run of any build undoes that.                    *)
THEOREM DoneMeansCurrentCorrect == Spec => []DoneMeansCurrent
<1>1. MigInv => DoneMeansCurrent
  BY DEF MigInv
<1> QED BY <1>1, MigCorrect, PTL

(* A row appears only behind every row there is, in the order of the names *)
(* (verifyMigrationOrder).                                                 *)
THEOREM RecordedInOrderCorrect == Spec => RecordedInOrder
<1> DEFINE Step == \A m \in Names : row[m] = Absent /\ row'[m] # Absent
                                      => \A n \in Applied : n < m
<1>1. MigInv /\ [Next]_vars => [Step]_vars
  <2> SUFFICES ASSUME MigInv, Next, NEW m \in Names, row[m] = Absent, row'[m] # Absent,
                      NEW n \in Applied
               PROVE  n < m
    OBVIOUS
  <2>1. PICK r \in Runs, k \in Names : /\ pc[r] \in {"applying", "checking"} /\ Turn(r, k)
                                       /\ row' = [row EXCEPT ![k] = Sum[r][k]]
    BY DEF Next, Start, Attend, Acquire, GiveUp, Pass, Plan, Apply, QueryFails, CheckRefuses,
           Finish, Die, DropInvalid, Over, ApplyInTransaction, CommitUnheard, RunOutside,
           OutsideFails, Record, Committed, database, vars
  <2>2. m = k
    BY <2>1 DEF MigInv, TypeOK
  <2> QED BY <2>1, <2>2 DEF MigInv, PlanHolds, Turn
<1> QED BY <1>1, MigCorrect, PTL DEF Spec, RecordedInOrder
===========================================================================
