------------------------------ MODULE Sessions ------------------------------
(***************************************************************************)
(* The table of sessions and the one account behind them, as the session   *)
(* store, the account's model and the admin guard use them.  Passwords are *)
(* numbered: password n is the one the n-th reset set, and a session's     *)
(* credential is the number of the password it was opened with.            *)
(***************************************************************************)
EXTENDS Integers, FiniteSets

CONSTANTS
  MaxSids,  \* bound: how many session ids are minted
  MaxResets \* bound: how many times the password is set anew

ASSUME SessionsAssumption == MaxSids \in Nat /\ MaxResets \in Nat

VARIABLES
  password, \* the account's password hash
  rows,     \* the table "session": session id -> credential
  minted,   \* how many session ids have been minted
  ended     \* history: the sessions that were ended

sessionVars == <<password, rows, minted, ended>>

NoSid == 0
Live == DOMAIN rows
Without(sids) == [s \in Live \ sids |-> rows[s]]
Upsert(sid, cred) == [s \in Live \cup {sid} |-> IF s = sid THEN cred ELSE rows[s]]

(* set() as the library does it. *)
Set_Upserts(sid, cred, persisted) == Upsert(sid, cred)
(* set(): a session that has had a row is only ever updated. *)
Set(sid, cred, persisted) ==
  IF persisted /\ sid \notin Live THEN rows ELSE Upsert(sid, cred)

(* destroy(), by whoever means the session to end. *)
Destroy(sid) ==
  /\ rows' = Without({sid})
  /\ ended' = ended \cup ({sid} \cap Live)

(* A session left idle for its seven days: no longer read, and pruned. *)
Expires ==
  /\ \E sid \in Live : Destroy(sid)
  /\ UNCHANGED <<password, minted>>

(* User.upsertAdmin: the new password and the end of every session of the  *)
(* account, in one statement.                                              *)
Reset ==
  /\ password <= MaxResets
  /\ password' = password + 1
  /\ rows' = Without(Live)
  /\ ended' = ended \cup Live
  /\ UNCHANGED minted

(* Only that the session has a credential is looked at. *)
HoldsCredential_Any(cred) == cred > 0
HoldsCredential(cred) == cred = password

SessionsInit ==
  /\ password = 1 /\ minted = 0
  /\ rows = [s \in {} |-> 0] /\ ended = {}
=============================================================================
