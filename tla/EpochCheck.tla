----------------------------- MODULE EpochCheck -----------------------------
(***************************************************************************)
(* When one process reads the cache epochs and which requests wait for it: *)
(* the timing half of utils/cache-epoch.ts (syncCacheEpoch's interval and  *)
(* backoff, the middleware cacheEpochSync).  What a read changes is        *)
(* CacheEpoch.tla's.                                                       *)
(*                                                                         *)
(* Time is kept as ages that grow with Tick and stop at the largest value  *)
(* the code can tell from a larger one, so the clock has no horizon.       *)
(***************************************************************************)
EXTENDS Naturals

CONSTANTS
  Requests,  (* requests passing through the middleware, each repeatedly   *)
  Interval,  (* EPOCH_CHECK_INTERVAL_MS                                    *)
  Backoff,   (* FAILURE_BACKOFF_MS                                         *)
  Timeout    (* SYNC_TIMEOUT_MS                                            *)

ASSUME TimesAssumption ==
  /\ Interval \in Nat /\ Backoff \in Nat /\ Timeout \in Nat
  /\ 0 < Backoff /\ Backoff <= Interval
  /\ 0 < Timeout /\ 2 * Timeout <= Interval

VARIABLES
  age,              (* now - lastChecked, at most Interval                 *)
  inflight,         (* the check that is out                               *)
  checksAnswering,
  request,          (* where each request is, and how long it has waited   *)
  knowledge         (* history: age of the read this process last adopted  *)

checkVars == <<age, inflight, checksAnswering, request, knowledge>>

Never == Interval + 1

(* age: since it was started; seen: since the database ran its query.      *)
NoCheck == [st |-> "none", age |-> 0, seen |-> 0]
NewCheck == [st |-> "sent", age |-> 0, seen |-> 0]

Idle       == [st |-> "idle", waited |-> 0]
Passed     == [st |-> "passed", waited |-> 0]
Waiting(n) == [st |-> "waiting", waited |-> n]

CheckInit ==
  /\ age = Interval
  /\ inflight = NoCheck
  /\ checksAnswering = TRUE
  /\ request = [r \in Requests |-> Idle]
  /\ knowledge = Never

Grown(n, cap) == IF n < cap THEN n + 1 ELSE cap

(* syncCacheEpoch: join the check that is out, start one if it is due, or   *)
(* return at once.                                                          *)
Due == inflight.st = "none" /\ age >= Interval
SyncCacheEpoch == inflight' = IF Due THEN NewCheck ELSE inflight

(* cacheEpochSync.  While checks are not answering nobody waits for one.   *)
Arrive_StopsChecking(r) ==
  /\ request[r] = Idle
  /\ LET waits == checksAnswering /\ (Due \/ inflight.st # "none") IN
     request' = [request EXCEPT ![r] = IF waits THEN Waiting(0) ELSE Passed]
  /\ IF checksAnswering THEN SyncCacheEpoch ELSE UNCHANGED inflight
  /\ UNCHANGED <<age, checksAnswering, knowledge>>
Arrive(r) ==
  /\ request[r] = Idle
  /\ LET waits == checksAnswering /\ (Due \/ inflight.st # "none") IN
     request' = [request EXCEPT ![r] = IF waits THEN Waiting(0) ELSE Passed]
  /\ SyncCacheEpoch
  /\ UNCHANGED <<age, checksAnswering, knowledge>>

(* The rest of the request; the next one takes its name.                   *)
FinishRequest(r) ==
  /\ request[r] = Passed
  /\ request' = [request EXCEPT ![r] = Idle]
  /\ UNCHANGED <<age, inflight, checksAnswering, knowledge>>

(* The database reads the rows of the check.                               *)
RunCheck ==
  /\ inflight.st = "sent"
  /\ inflight' = [inflight EXCEPT !.st = "ran"]
  /\ UNCHANGED <<age, checksAnswering, request, knowledge>>

Released == [r \in Requests |-> IF request[r].st = "waiting" THEN Passed
                                                            ELSE request[r]]

(* lastChecked = startedAt: the interval counts from the start.            *)
CheckSucceeds_FromArrival ==
  /\ inflight.st = "ran"
  /\ age' = 0
  /\ checksAnswering' = TRUE
  /\ knowledge' = inflight.seen
  /\ request' = Released
  /\ inflight' = NoCheck
CheckSucceeds ==
  /\ inflight.st = "ran"
  /\ age' = inflight.age
  /\ checksAnswering' = TRUE
  /\ knowledge' = inflight.seen
  /\ request' = Released
  /\ inflight' = NoCheck

(* lastChecked = Date.now() - INTERVAL + BACKOFF: the backoff counts from  *)
(* the moment the failure arrived.                                         *)
CheckFails ==
  /\ inflight.st # "none"
  /\ age' = Interval - Backoff
  /\ checksAnswering' = FALSE
  /\ request' = Released
  /\ inflight' = NoCheck
  /\ UNCHANGED knowledge

(* The race against the timer is lost.  The check a request waits for is    *)
(* always the one that is out: its end releases all of them.               *)
TimesOut(r) ==
  /\ request[r] = Waiting(Timeout)
  /\ request' = [request EXCEPT ![r] = Passed]
  /\ checksAnswering' = (checksAnswering /\ inflight.st = "none")
  /\ UNCHANGED <<age, inflight, knowledge>>

(* Time passes, but not past a timer that is due.                          *)
Tick ==
  /\ \A r \in Requests : request[r] # Waiting(Timeout)
  /\ age' = Grown(age, Interval)
  /\ knowledge' = Grown(knowledge, Never)
  /\ inflight' = IF inflight.st = "none" THEN inflight
                 ELSE [inflight EXCEPT !.age = Grown(@, Interval),
                         !.seen = IF inflight.st = "ran" THEN Grown(@, Never)
                                                         ELSE 0]
  /\ request' = [r \in Requests |->
                   IF request[r].st = "waiting"
                   THEN Waiting(request[r].waited + 1) ELSE request[r]]
  /\ UNCHANGED checksAnswering

Check == RunCheck \/ CheckSucceeds \/ CheckFails
CheckNext == Check \/ Tick \/ \E r \in Requests : Arrive(r) \/ FinishRequest(r) \/ TimesOut(r)

CheckSpec == CheckInit /\ [][CheckNext]_checkVars

(* Requests keep coming, time passes, timers fire, every query is answered  *)
(* or fails, and the database does not fail all of them for ever.           *)
Fairness ==
  /\ WF_checkVars(Tick) /\ SF_checkVars(RunCheck) /\ SF_checkVars(CheckSucceeds)
  /\ \A r \in Requests :
       WF_checkVars(Arrive(r)) /\ WF_checkVars(FinishRequest(r)) /\ WF_checkVars(TimesOut(r))

CheckFairSpec == CheckSpec /\ Fairness

-----------------------------------------------------------------------------
(* The ages stay within what the code can tell apart; no request waits      *)
(* longer than SYNC_TIMEOUT_MS.                                             *)
CheckTypeOK ==
  /\ age \in 0..Interval /\ knowledge \in 0..Never
  /\ inflight \in [st : {"none", "sent", "ran"}, age : 0..Interval, seen : 0..Never]
  /\ checksAnswering \in BOOLEAN
  /\ request \in [Requests -> [st : {"idle", "waiting", "passed"}, waited : 0..Timeout]]

(* "Served from fresh caches": while checks answer, no request is let       *)
(* through by a process whose knowledge of the epochs is older than one     *)
(* interval, however slow the reads were and whoever waited for them.       *)
Lets(r) == request[r].st # "passed" /\ request'[r].st = "passed"
FreshWhileAnswering ==
  [][\A r \in Requests : Lets(r) /\ checksAnswering' => knowledge' <= Interval]_checkVars

(* Checks that have stopped answering are trusted again sooner or later,    *)
(* although no request waits for them any more.                             *)
Recovers == ~checksAnswering ~> checksAnswering

=============================================================================
