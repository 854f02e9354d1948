---------------------------- MODULE PasswordGate ----------------------------
(***************************************************************************)
(* The process-wide limit on scrypt derivations, utils/password.ts: a few   *)
(* running places, a short queue behind them, and a lane at its front for   *)
(* logins with a device cookie.  JavaScript runs acquire up to its await    *)
(* and release in one piece, so each is one action; an attempt is one call  *)
(* of derive.                                                               *)
(***************************************************************************)
EXTENDS Naturals, Sequences, FiniteSets

CONSTANTS
  Attempts,    (* calls of derive                                          *)
  Priority,    (* those that ask with { priority: true }                   *)
  MaxRunning,  (* MAX_RUNNING                                              *)
  MaxWaiting   (* MAX_WAITING                                              *)

ASSUME PriorityAssumption == Priority \subseteq Attempts
ASSUME LimitsAssumption == MaxRunning \in Nat \ {0} /\ MaxWaiting \in Nat

VARIABLES
  running,  (* the counter of taken places                                 *)
  waiting,  (* resolve functions of the queued attempts, first to be served *)
  state,    (* where each attempt is                                       *)
  arrived   (* history: attempts in the order in which they were queued    *)

gateVars == <<running, waiting, state, arrived>>

States == {"new", "queued", "deriving", "refused", "done"}

Ordinary == Attempts \ Priority
In(s)    == {a \in Attempts : state[a] = s}

GateInit ==
  /\ running = 0
  /\ waiting = <<>>
  /\ state = [a \in Attempts |-> "new"]
  /\ arrived = <<>>

(* acquire, its three outcomes: a place, a place in the queue, a refusal.  *)
TakePlace(a) ==
  /\ state[a] = "new" /\ running < MaxRunning
  /\ running' = running + 1
  /\ state' = [state EXCEPT ![a] = "deriving"]
  /\ UNCHANGED <<waiting, arrived>>

Enqueued(a) ==
  /\ state' = [state EXCEPT ![a] = "queued"]
  /\ arrived' = Append(arrived, a)
  /\ UNCHANGED running

JumpQueue(a) ==
  /\ a \in Priority
  /\ state[a] = "new" /\ running >= MaxRunning
  /\ waiting' = <<a>> \o waiting
  /\ Enqueued(a)

JoinQueue(a) ==
  /\ a \in Ordinary
  /\ state[a] = "new" /\ running >= MaxRunning
  /\ Len(waiting) < MaxWaiting
  /\ waiting' = Append(waiting, a)
  /\ Enqueued(a)

Refuse(a) ==
  /\ a \in Ordinary
  /\ state[a] = "new" /\ running >= MaxRunning
  /\ Len(waiting) >= MaxWaiting
  /\ state' = [state EXCEPT ![a] = "refused"]
  /\ UNCHANGED <<running, waiting, arrived>>

(* The derivation ends, with a key or with an error: the place goes to the  *)
(* first waiter, or back.                                                   *)
Release_GivesBack(a) ==
  /\ state[a] = "deriving"
  /\ running' = running - 1
  /\ waiting' = waiting
  /\ state' = [state EXCEPT ![a] = "done"]
  /\ UNCHANGED arrived

Release_LastFirst(a) ==
  /\ state[a] = "deriving"
  /\ IF waiting # <<>>
     THEN /\ waiting' = SubSeq(waiting, 1, Len(waiting) - 1)
          /\ state' = [state EXCEPT ![a] = "done", ![waiting[Len(waiting)]] = "deriving"]
          /\ UNCHANGED running
     ELSE /\ running' = running - 1
          /\ state' = [state EXCEPT ![a] = "done"]
          /\ UNCHANGED waiting
  /\ UNCHANGED arrived
Release(a) ==
  /\ state[a] = "deriving"
  /\ IF waiting # <<>>
     THEN /\ waiting' = Tail(waiting)
          /\ state' = [state EXCEPT ![a] = "done", ![Head(waiting)] = "deriving"]
          /\ UNCHANGED running
     ELSE /\ running' = running - 1
          /\ state' = [state EXCEPT ![a] = "done"]
          /\ UNCHANGED waiting
  /\ UNCHANGED arrived

Acquire(a) == TakePlace(a) \/ JumpQueue(a) \/ JoinQueue(a) \/ Refuse(a)

(* Nothing left to do but wait for requests that do not come.               *)
Quiet == (\A a \in Attempts : state[a] \notin {"new", "deriving"}) /\ UNCHANGED gateVars

GateNext == (\E a \in Attempts : Acquire(a) \/ Release(a)) \/ Quiet

GateSpec == GateInit /\ [][GateNext]_gateVars

(* A derivation that has begun ends.                                       *)
GateFairSpec == GateSpec /\ \A a \in Attempts : WF_gateVars(Release(a))

-----------------------------------------------------------------------------
(* The variables keep their types; the counter of places is never negative. *)
GateTypeOK ==
  /\ running \in Nat
  /\ waiting \in Seq(Attempts) /\ arrived \in Seq(Attempts)
  /\ state \in [Attempts -> States]

(* The counter is the number of derivations under way and never passes the  *)
(* limit: handing a place on neither loses nor forges one (release).        *)
PlacesCounted == /\ IsFiniteSet(In("deriving"))
                 /\ Cardinality(In("deriving")) = running
                 /\ running <= MaxRunning

(* The queue holds each queued attempt exactly once.                        *)
QueueExact ==
  /\ \A i \in 1..Len(waiting) : state[waiting[i]] = "queued"
  /\ \A i, j \in 1..Len(waiting) : waiting[i] = waiting[j] => i = j
  /\ \A a \in In("queued") : \E i \in 1..Len(waiting) : waiting[i] = a

(* Nobody waits while a place is free.                                      *)
NoIdlePlace == waiting # <<>> => running = MaxRunning

(* An ordinary attempt is never given a place before a priority attempt or  *)
(* before anyone who was queued earlier: a waiter "cannot be overtaken by a *)
(* request that arrived after it" as far as ordinary requests go.           *)
Before(s, a, b) == \E i, j \in 1..Len(s) : i < j /\ s[i] = a /\ s[j] = b
ServedInOrder ==
  [][\A a, b \in In("queued") :
       /\ b \in Ordinary /\ state'[b] = "deriving"
       /\ a \in Priority \/ Before(arrived, a, b)
       => state'[a] # "queued"]_gateVars

(* A queued attempt is run in the end.                                      *)
QueuedAreServed == \A a \in Attempts : state[a] = "queued" ~> state[a] = "done"

=============================================================================
