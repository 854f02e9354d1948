----------------------------- MODULE Migrations -----------------------------
(***************************************************************************)
(* Applying schema migrations: migrate.ts (runMigrations and its retries)  *)
(* and utils/migrations.ts (the advisory lock, the checks of the recorded  *)
(* history, the plan, the two ways a file is run).  Several runs race, each *)
(* from a build with its own files, and any of them may die between two    *)
(* queries; Postgres is modelled from how the code uses it.  A migration's *)
(* number stands for its file name, a number from 2 up for a checksum.     *)
(***************************************************************************)
EXTENDS Naturals

CONSTANTS
  Names,      (* numbers of the migrations of all builds                   *)
  Runs,       (* executions of migrate.ts                                  *)
  Files,      (* Files[r]: the migrations in r's build                     *)
  Sum,        (* Sum[r][m]: the checksum of m in r's build                 *)
  KindOf,     (* KindOf[m]: how the file is run                            *)
  Malformed,  (* files planMigration refuses: a misplaced marker, a        *)
              (* no-transaction file that is not exactly one statement     *)
  Foreign,    (* recorded names that no migration file could have          *)
  Initially,  (* the rows a database may start with                        *)
  Attempts    (* DDL_LOCK_ATTEMPTS                                         *)

Kinds == {"transaction", "concurrent", "outside"}
Absent == 0     (* no row                                                  *)
Legacy == 1     (* a row from before checksums were recorded               *)
NoRun == "no run"

ASSUME NamesAssumption == Names \subseteq Nat /\ Foreign \subseteq Names
ASSUME FilesAssumption ==
  /\ Files \in [Runs -> SUBSET (Names \ Foreign)]
  /\ Sum \in [Runs -> [Names -> Nat \ {Absent, Legacy}]]
  /\ KindOf \in [Names -> Kinds] /\ Malformed \subseteq Names
ASSUME InitiallyAssumption == Initially \subseteq [Names -> Nat]
ASSUME RunsAssumption == NoRun \notin Runs /\ Attempts \in Nat \ {0}

VARIABLES
  row,      (* the table "migrations": its checksum column by name         *)
  times,    (* times[m]: how often m's effect has been committed           *)
  invalid,  (* concurrent migrations whose index was left INVALID          *)
  lock,     (* who holds the advisory lock                                 *)
  pc,       (* where each run is                                           *)
  todo,     (* todo[r]: planned and not yet applied                        *)
  attempt   (* attempt[r]: passes of applyWithLockRetries so far           *)

database == <<row, times, invalid>>
vars == <<database, lock, pc, todo, attempt>>

Phases == {"new", "waiting", "planning", "applying", "checking", "done", "failed"}
Working(r) == pc[r] \in {"planning", "applying", "checking"}

Applied == {m \in Names : row[m] # Absent}

Init ==
  /\ row \in Initially
  /\ times = [m \in Names |-> IF row[m] = Absent THEN 0 ELSE 1]
  /\ invalid = {}
  /\ lock = NoRun
  /\ pc = [r \in Runs |-> "new"]
  /\ todo = [r \in Runs |-> {}]
  /\ attempt = [r \in Runs |-> 0]

-----------------------------------------------------------------------------
(* The checks of applyPendingMigrations, in terms of what it has read.     *)

Pending(r) == Files[r] \ Applied

(* verifyAppliedMigrations.  A row without a file is a problem unless the   *)
(* build is simply older than the database; a row with one must match it.   *)
Ahead(r) == {m \in Applied \ Files[r] : /\ m \notin Foreign /\ Files[r] # {}
                                        /\ \A f \in Files[r] : f < m}
HistoryMatches_AnySum(r) == Applied \subseteq Files[r] \cup Ahead(r)
HistoryMatches(r) ==
  /\ Applied \subseteq Files[r] \cup Ahead(r)
  /\ \A m \in Applied \cap Files[r] : row[m] \in {Legacy, Sum[r][m]}

(* verifyMigrationOrder.                                                   *)
InOrder_NotChecked(r) == TRUE
InOrder(r) == \A m \in Pending(r), n \in Applied : m > n

WellFormed(r) == Pending(r) \cap Malformed = {}

-----------------------------------------------------------------------------
Start(r) ==
  /\ pc[r] = "new"
  /\ pc' = [pc EXCEPT ![r] = "waiting"]
  /\ UNCHANGED <<database, lock, todo, attempt>>

(* acquireAdvisoryLock: one poll that gets the lock; the deadline passes.  *)
Acquire_Unlocked(r) ==
  /\ pc[r] = "waiting"
  /\ lock' = r
  /\ pc' = [pc EXCEPT ![r] = "planning"]
  /\ attempt' = [attempt EXCEPT ![r] = 1]
  /\ UNCHANGED <<database, todo>>
Acquire(r) ==
  /\ pc[r] = "waiting" /\ lock = NoRun
  /\ lock' = r
  /\ pc' = [pc EXCEPT ![r] = "planning"]
  /\ attempt' = [attempt EXCEPT ![r] = 1]
  /\ UNCHANGED <<database, todo>>

GiveUp(r) ==
  /\ pc[r] = "waiting" /\ lock # NoRun
  /\ pc' = [pc EXCEPT ![r] = "failed"]
  /\ UNCHANGED <<database, lock, todo, attempt>>

(* runMigrations' finally: the lock is given back however the run ended.   *)
End(r, how) ==
  /\ pc' = [pc EXCEPT ![r] = how]
  /\ lock' = IF lock = r THEN NoRun ELSE lock
  /\ todo' = [todo EXCEPT ![r] = {}]
  /\ attempt' = [attempt EXCEPT ![r] = 0]

(* One pass of applyPendingMigrations begins: everything is read, checked   *)
(* and planned before anything is applied.                                 *)
Plan(r) ==
  /\ pc[r] = "planning"
  /\ IF HistoryMatches(r) /\ InOrder(r) /\ WellFormed(r)
     THEN /\ todo' = [todo EXCEPT ![r] = Pending(r)]
          /\ pc' = [pc EXCEPT ![r] = "applying"]
          /\ UNCHANGED <<lock, attempt>>
     ELSE End(r, "failed")
  /\ UNCHANGED database

Turn(r, m) == m \in todo[r] /\ \A n \in todo[r] : m <= n

Committed(r, m) ==
  /\ row' = [row EXCEPT ![m] = Sum[r][m]]
  /\ times' = [times EXCEPT ![m] = @ + 1]

(* applyInTransaction; the table's UNIQUE name would refuse a second row.  *)
ApplyInTransaction_TwoCommits(r, m) ==
  /\ pc[r] = "applying" /\ Turn(r, m) /\ KindOf[m] = "transaction"
  /\ row[m] = Absent
  /\ times' = [times EXCEPT ![m] = @ + 1]
  /\ pc' = [pc EXCEPT ![r] = "checking"]
  /\ UNCHANGED <<row, todo, invalid, lock, attempt>>
ApplyInTransaction(r, m) ==
  /\ pc[r] = "applying" /\ Turn(r, m) /\ KindOf[m] = "transaction"
  /\ row[m] = Absent
  /\ Committed(r, m)
  /\ todo' = [todo EXCEPT ![r] = @ \ {m}]
  /\ UNCHANGED <<invalid, lock, pc, attempt>>

(* The transaction commits, but the connection is lost before that is said. *)
CommitUnheard(r, m) ==
  /\ pc[r] = "applying" /\ Turn(r, m) /\ KindOf[m] = "transaction"
  /\ row[m] = Absent
  /\ Committed(r, m)
  /\ End(r, "failed")
  /\ UNCHANGED invalid

(* applyOutsideTransaction: the statement has run.  IF NOT EXISTS skips an  *)
(* index that is there already, INVALID or not.                             *)
RunOutside(r, m) ==
  /\ pc[r] = "applying" /\ Turn(r, m) /\ KindOf[m] # "transaction"
  /\ times' = IF KindOf[m] = "concurrent" /\ (m \in invalid \/ times[m] # 0)
              THEN times ELSE [times EXCEPT ![m] = @ + 1]
  /\ pc' = [pc EXCEPT ![r] = "checking"]
  /\ UNCHANGED <<row, invalid, lock, todo, attempt>>

(* No index may be INVALID, whoever left it; then the row is inserted.     *)
Record_Unchecked(r, m) ==
  /\ pc[r] = "checking" /\ Turn(r, m)
  /\ row[m] = Absent
  /\ row' = [row EXCEPT ![m] = Sum[r][m]]
  /\ todo' = [todo EXCEPT ![r] = @ \ {m}]
  /\ pc' = [pc EXCEPT ![r] = "applying"]
  /\ UNCHANGED <<times, invalid, lock, attempt>>
Record(r, m) ==
  /\ pc[r] = "checking" /\ Turn(r, m)
  /\ invalid = {} /\ row[m] = Absent
  /\ row' = [row EXCEPT ![m] = Sum[r][m]]
  /\ todo' = [todo EXCEPT ![r] = @ \ {m}]
  /\ pc' = [pc EXCEPT ![r] = "applying"]
  /\ UNCHANGED <<times, invalid, lock, attempt>>

(* An error: 55P03 is tried again with a fresh pass, up to Attempts; any    *)
(* other ends the run.                                                     *)
Fails(r, lockNotAvailable) ==
  IF lockNotAvailable /\ attempt[r] < Attempts
  THEN /\ attempt' = [attempt EXCEPT ![r] = @ + 1]
       /\ pc' = [pc EXCEPT ![r] = "planning"]
       /\ todo' = [todo EXCEPT ![r] = {}]
       /\ UNCHANGED lock
  ELSE End(r, "failed")

(* A query of a pass fails and leaves nothing behind: the reads, a          *)
(* transaction that is rolled back, the INSERT after a lone statement.     *)
QueryFails(r) ==
  /\ Working(r)
  /\ \E code \in BOOLEAN : Fails(r, code)
  /\ UNCHANGED database

CheckRefuses(r) ==
  /\ pc[r] = "checking" /\ invalid # {}
  /\ Fails(r, FALSE)
  /\ UNCHANGED database

(* The lone statement fails.  A concurrent build may leave its index        *)
(* behind, INVALID; any INVALID index the code can see ends the run.       *)
OutsideFails(r, m) ==
  /\ pc[r] = "applying" /\ Turn(r, m) /\ KindOf[m] # "transaction"
  /\ \E left \in SUBSET ({m} \cap {n \in Names : KindOf[n] = "concurrent" /\ times[n] = 0}) :
       invalid' = invalid \cup left
  /\ \E code, answered \in BOOLEAN :
       Fails(r, code /\ ~(answered /\ invalid' # {}))
  /\ UNCHANGED <<row, times>>

(* The run is killed or its connection lost: its session, transaction and   *)
(* lock are gone.  A build under way may be left INVALID.                   *)
Die(r) ==
  /\ pc[r] = "waiting" \/ Working(r)
  /\ End(r, "failed")
  /\ \E left \in SUBSET {m \in todo[r] : /\ Turn(r, m) /\ pc[r] = "applying"
                                         /\ KindOf[m] = "concurrent" /\ times[m] = 0} :
       invalid' = invalid \cup left
  /\ UNCHANGED <<row, times>>

Finish(r) ==
  /\ pc[r] = "applying" /\ todo[r] = {}
  /\ End(r, "done")
  /\ UNCHANGED database

(* What the error message tells the operator to do, who is taken to do it   *)
(* while no run is at work.                                                *)
DropInvalid(m) ==
  /\ m \in invalid /\ \A r \in Runs : ~Working(r)
  /\ invalid' = invalid \ {m}
  /\ UNCHANGED <<row, times, lock, pc, todo, attempt>>

(* Every run is over.                                                      *)
Over == (\A r \in Runs : pc[r] \in {"done", "failed"}) /\ UNCHANGED vars

Apply(r) == \E m \in Names : \/ ApplyInTransaction(r, m) \/ CommitUnheard(r, m)
                             \/ RunOutside(r, m) \/ OutsideFails(r, m) \/ Record(r, m)
Attend(r) == Acquire(r) \/ GiveUp(r)
Pass(r) == Plan(r) \/ Apply(r) \/ QueryFails(r) \/ CheckRefuses(r) \/ Finish(r)

Next ==
  \/ \E r \in Runs : Start(r) \/ Attend(r) \/ Pass(r) \/ Die(r)
  \/ \E m \in Names : DropInvalid(m)
  \/ Over

Spec == Init /\ [][Next]_vars

-----------------------------------------------------------------------------
(* The variables keep their types; no run makes more passes than            *)
(* DDL_LOCK_ATTEMPTS.                                                       *)
TypeOK ==
  /\ row \in [Names -> Nat] /\ times \in [Names -> Nat]
  /\ invalid \subseteq Names
  /\ lock \in Runs \cup {NoRun}
  /\ pc \in [Runs -> Phases]
  /\ todo \in [Runs -> SUBSET Names]
  /\ attempt \in [Runs -> 0..Attempts]

(* Runs exclude one another: a run that reads the history or applies a file *)
(* holds the lock until it has ended.                                       *)
OneAtATime == \A r \in Runs : Working(r) => lock = r

(* A row stands for an effect: what is recorded has been committed and no   *)
(* recorded index is INVALID, whatever failed, died or was left over.       *)
RowsMeanSchema == \A m \in Applied : times[m] # 0 /\ m \notin invalid

(* A transactional file takes effect exactly when it is recorded, once,     *)
(* though runs race, die half-way and are retried.                          *)
OnceEach ==
  \A m \in Names : KindOf[m] = "transaction" =>
    times[m] = (IF row[m] = Absent THEN 0 ELSE 1)

(* A run that reports success leaves every file of its build recorded, as   *)
(* the build has it, so the boot check of that build finds nothing pending. *)
DoneMeansCurrent ==
  \A r \in Runs : pc[r] = "done" =>
    Pending(r) = {} /\ \A m \in Files[r] : row[m] \in {Legacy, Sum[r][m]}

(* Files are recorded in the order of their names across all builds, so no  *)
(* database reaches a schema "no other database will reach".                *)
RecordedInOrder ==
  [][\A m \in Names : row[m] = Absent /\ row'[m] # Absent
                        => \A n \in Applied : n < m]_vars

=============================================================================
