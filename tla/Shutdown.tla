------------------------------ MODULE Shutdown ------------------------------
(***************************************************************************)
(* The way a process leaves: createShutdown of utils/shutdown.ts, wired up  *)
(* by index.ts to the HTTP server, the Postgres pool, the session store and *)
(* the pruning timers.  Signals and crashes may come at any time and any    *)
(* number of times; node's server, the pool and the store are modelled from *)
(* how the code uses them.  The clock counts idle sweeps.                   *)
(***************************************************************************)
EXTENDS Naturals

CONSTANTS
  Conns,    (* client connections, keep-alive                              *)
  Queries,  (* clients of the pool that can be checked out at once         *)
  Deadline  (* SHUTDOWN_TIMEOUT_MS, in sweeps of IDLE_SWEEP_MS             *)

ASSUME DeadlineAssumption == Deadline \in Nat \ {0}

VARIABLES
  shuttingDown, exitCode, finished, exited,   (* the closure's flags       *)
  force, sweep,   (* whether the fallback and the sweep timer are armed    *)
  clock,          (* sweep intervals since the drain began                 *)
  server,         (* starting, listening, closing, closed                  *)
  conn,           (* conn[c]: closed, idle between requests, busy          *)
  timersOn,       (* the timers that stopTimers stops                      *)
  store,          (* the session store and its prune timer                 *)
  ended,          (* pool.end() has been called                            *)
  query,          (* query[q]: whether that client is checked out          *)
  leaving,        (* the code handed to exit(), while output is flushed    *)
  status,         (* what the supervisor sees                              *)
  storeError,     (* history: the store queried a pool that had been ended *)
  crashed         (* history: "early" before the way out was taken, "late" *)
                  (* after, or "no"                                        *)

flags == <<shuttingDown, exitCode, finished, exited, force, sweep, clock>>
world == <<server, conn, timersOn, store, ended, query>>
outcome == <<leaving, status, storeError, crashed>>
vars == <<flags, world, outcome>>

NoCode == 2   (* no exit code yet                                             *)
Codes == {0, 1}

Init ==
  /\ shuttingDown = FALSE /\ exitCode = 0 /\ finished = FALSE /\ exited = FALSE
  /\ force = FALSE /\ sweep = FALSE /\ clock = 0
  /\ server = "starting" /\ conn = [c \in Conns |-> "closed"]
  /\ timersOn = TRUE /\ store = "open" /\ ended = FALSE
  /\ query = [q \in Queries |-> FALSE]
  /\ leaving = NoCode /\ status = NoCode /\ storeError = FALSE /\ crashed = "no"

Up == status = NoCode

-----------------------------------------------------------------------------
(* The world around the drain.                                             *)

Listening ==
  /\ Up /\ server = "starting" /\ ~shuttingDown
  /\ server' = "listening"
  /\ UNCHANGED <<flags, conn, timersOn, store, ended, query, outcome>>

(* A request arrives, on a new connection or on one that was kept alive:   *)
(* the latter also while the server is closing.                            *)
Request(c) ==
  /\ Up
  /\ conn[c] = "idle" \/ (conn[c] = "closed" /\ server = "listening")
  /\ conn' = [conn EXCEPT ![c] = "busy"]
  /\ UNCHANGED <<flags, server, timersOn, store, ended, query, outcome>>

Respond(c) ==
  /\ Up /\ conn[c] = "busy"
  /\ conn' = [conn EXCEPT ![c] = "idle"]
  /\ UNCHANGED <<flags, server, timersOn, store, ended, query, outcome>>

HangUp(c) ==
  /\ Up /\ conn[c] # "closed"
  /\ conn' = [conn EXCEPT ![c] = "closed"]
  /\ UNCHANGED <<flags, server, timersOn, store, ended, query, outcome>>

(* A request, a timer, a sweep under way or a bump that is tried again     *)
(* checks a client out of the pool; during the drain too, until it ends.   *)
Query(q) ==
  /\ Up /\ ~ended /\ ~query[q]
  /\ query' = [query EXCEPT ![q] = TRUE]
  /\ UNCHANGED <<flags, server, conn, timersOn, store, ended, outcome>>

(* The session store prunes on a timer of its own.                         *)
StorePrunes(q) ==
  /\ Up /\ store = "open" /\ ~query[q]
  /\ IF ended THEN storeError' = TRUE /\ UNCHANGED query
              ELSE query' = [query EXCEPT ![q] = TRUE] /\ UNCHANGED storeError
  /\ UNCHANGED <<flags, server, conn, timersOn, store, ended, leaving, status, crashed>>

ReleaseClient(q) ==
  /\ Up /\ query[q]
  /\ query' = [query EXCEPT ![q] = FALSE]
  /\ UNCHANGED <<flags, server, conn, timersOn, store, ended, outcome>>

-----------------------------------------------------------------------------
(* shutdown(signal, code).                                                 *)

(* leave(code): the only way out, taken once; both timers are cancelled.   *)
Leave(code) ==
  IF exited THEN UNCHANGED <<exited, force, sweep, leaving>>
            ELSE /\ exited' = TRUE /\ force' = FALSE /\ sweep' = FALSE
                 /\ leaving' = code

CloseIdle == [c \in Conns |-> IF conn[c] = "idle" THEN "closed" ELSE conn[c]]

FirstSignal(code) ==
  /\ ~shuttingDown
  /\ shuttingDown' = TRUE
  /\ exitCode' = code
  /\ timersOn' = FALSE
  /\ force' = TRUE /\ sweep' = TRUE
  /\ conn' = CloseIdle
  /\ server' = "closing"
  /\ UNCHANGED <<finished, exited, clock, store, ended, query, leaving>>

RepeatSignal_Again(code) ==
  /\ shuttingDown
  /\ Leave(exitCode)
  /\ UNCHANGED <<shuttingDown, exitCode, finished, clock, world>>
RepeatSignal_KeepsCode(code) ==
  /\ shuttingDown
  /\ UNCHANGED <<flags, world, leaving>>
RepeatSignal(code) ==
  /\ shuttingDown
  /\ exitCode' = IF code > exitCode THEN code ELSE exitCode
  /\ UNCHANGED <<shuttingDown, finished, exited, force, sweep, clock, world, leaving>>

(* SIGTERM or SIGINT.                                                      *)
Signal ==
  /\ Up
  /\ FirstSignal(0) \/ RepeatSignal(0)
  /\ UNCHANGED <<status, storeError, crashed>>

(* An error nobody caught, or one of listen().                             *)
Crash ==
  /\ Up
  /\ FirstSignal(1) \/ RepeatSignal(1)
  /\ crashed' = IF crashed # "no" THEN crashed ELSE IF exited THEN "late" ELSE "early"
  /\ UNCHANGED <<status, storeError>>

(* The sweep timer, once per interval, and the clock it keeps.             *)
Sweep_OnlyOnce ==
  /\ Up /\ shuttingDown /\ ~exited /\ clock < Deadline
  /\ clock' = clock + 1
  /\ UNCHANGED <<shuttingDown, exitCode, finished, exited, force, sweep, world, outcome>>
Sweep ==
  /\ Up /\ shuttingDown /\ ~exited /\ clock < Deadline
  /\ clock' = clock + 1
  /\ conn' = IF sweep THEN CloseIdle ELSE conn
  /\ UNCHANGED <<shuttingDown, exitCode, finished, exited, force, sweep,
                 server, timersOn, store, ended, query, outcome>>

(* finish(): the store before the pool, both at most once.                 *)
Finish ==
  IF finished THEN UNCHANGED <<finished, store, ended>>
              ELSE finished' = TRUE /\ store' = "closed" /\ ended' = TRUE

(* server.close() calls back once no connection is open.                   *)
ServerCloses_StopsClock ==
  /\ Up /\ server = "closing" /\ \A c \in Conns : conn[c] = "closed"
  /\ server' = "closed"
  /\ sweep' = FALSE /\ force' = FALSE
  /\ Finish
  /\ UNCHANGED <<shuttingDown, exitCode, exited, clock, conn, timersOn, query, outcome>>
ServerCloses ==
  /\ Up /\ server = "closing" /\ \A c \in Conns : conn[c] = "closed"
  /\ server' = "closed"
  /\ sweep' = FALSE
  /\ Finish
  /\ UNCHANGED <<shuttingDown, exitCode, exited, force, clock, conn, timersOn, query, outcome>>

(* pool.end() calls back once no client is checked out.                    *)
PoolEnds ==
  /\ Up /\ ended /\ ~exited /\ \A q \in Queries : ~query[q]
  /\ Leave(exitCode)
  /\ UNCHANGED <<shuttingDown, exitCode, finished, clock, world, status, storeError, crashed>>

ForceExit ==
  /\ Up /\ force /\ clock = Deadline
  /\ Leave(1)
  /\ UNCHANGED <<shuttingDown, exitCode, finished, clock, world, status, storeError, crashed>>

(* flushThenExit: the output has drained, or its second is over.           *)
Exit ==
  /\ Up /\ exited
  /\ status' = leaving
  /\ UNCHANGED <<flags, world, leaving, storeError, crashed>>

(* The process is gone.                                                    *)
Gone == ~Up /\ UNCHANGED vars

Drain == Signal \/ Crash \/ Sweep \/ ServerCloses \/ PoolEnds \/ ForceExit \/ Exit
Traffic == \/ Listening \/ \E c \in Conns : Request(c) \/ Respond(c) \/ HangUp(c)
           \/ \E q \in Queries : Query(q) \/ StorePrunes(q) \/ ReleaseClient(q)
Next == Drain \/ Traffic \/ Gone

Spec == Init /\ [][Next]_vars

(* Timers fire and the flush is bounded; nothing is assumed of the clients  *)
(* or the database.                                                         *)
FairSpec == Spec /\ WF_vars(Sweep) /\ WF_vars(ForceExit) /\ WF_vars(Exit)

-----------------------------------------------------------------------------
(* The variables keep their types; what the supervisor sees is 0 or 1.      *)
TypeOK ==
  /\ {shuttingDown, finished, exited, force, sweep, timersOn, ended, storeError}
       \subseteq BOOLEAN
  /\ exitCode \in Codes /\ clock \in 0..Deadline
  /\ server \in {"starting", "listening", "closing", "closed"}
  /\ conn \in [Conns -> {"closed", "idle", "busy"}]
  /\ store \in {"open", "closed"} /\ query \in [Queries -> BOOLEAN]
  /\ leaving \in Codes \cup {NoCode} /\ status \in Codes \cup {NoCode}
  /\ crashed \in {"no", "early", "late"}

(* A process that reports success has drained: its listener and every       *)
(* connection closed, every client back, the store and the timers stopped,  *)
(* the store without ever having queried a pool that had been ended.        *)
(* No second signal, fallback or late callback makes a cut drain look clean. *)
CleanMeansDrained ==
  leaving = 0 => /\ server = "closed" /\ \A c \in Conns : conn[c] = "closed"
                 /\ ended /\ \A q \in Queries : ~query[q]
                 /\ store = "closed" /\ ~timersOn /\ ~storeError

(* A crash that comes before the way out is taken is never reported as a    *)
(* clean stop, in whatever phase of whose drain it came.                    *)
CrashReported == crashed = "early" => leaving # 0

(* During a drain no connection outlives a sweep interval idle, so          *)
(* keep-alive sockets cannot hold the listener open (sweepIdle).            *)
IdleSwept == [][clock' # clock => \A c \in Conns : conn'[c] # "idle"]_vars

(* A process told to leave leaves, though connections stay busy or a query  *)
(* never ends.                                                              *)
Leaves == shuttingDown ~> status # NoCode

=============================================================================
