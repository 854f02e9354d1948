------------------------------ MODULE TtlCache ------------------------------
(***************************************************************************)
(* The time-to-live cache of utils/cache.ts: get, its load, the timers, and *)
(* delete, clear and clearAllCaches.  An entry is known by the load that    *)
(* fills it, as in the code, where the map holds the entry object itself;  *)
(* a load goes on after its entry has been dropped.                         *)
(***************************************************************************)
EXTENDS Naturals

CONSTANTS
  Keys,
  Loads,       (* loads that can be about at once; a name is used again    *)
               (* when nothing refers to it any more                       *)
  Remembered,  (* keys whose rejections are kept for a while: those asked  *)
               (* for with failureTtlMs > 0                                *)
  MaxVersion   (* bound on the writes TLC explores                         *)

ASSUME RememberedAssumption == Remembered \subseteq Keys
ASSUME BoundAssumption == MaxVersion \in Nat

VARIABLES
  entries,  (* #entries: the load a key holds, or Nothing                  *)
  phase,    (* phase[l]: unused, asked, ran, resolved or rejected          *)
  key,      (* key[l]: the key it was started for                          *)
  data,     (* data[l]: the version its query saw                          *)
  timers,   (* loads whose entry's expiry timer is armed                   *)
  version   (* number of writes committed                                  *)

ttlVars == <<entries, phase, key, data, timers, version>>

Nothing == "nothing"
ASSUME LoadsAssumption == Nothing \notin Loads

InFlight(l) == phase[l] \in {"asked", "ran"}
Settled(l)  == phase[l] \in {"resolved", "rejected"}
Current(l)  == entries[key[l]] = l

TtlInit ==
  /\ entries = [k \in Keys |-> Nothing]
  /\ phase = [l \in Loads |-> "unused"]
  /\ key \in [Loads -> Keys]
  /\ data = [l \in Loads |-> 0]
  /\ timers = {}
  /\ version = 0

(* get on a key that is not held; one that is hands out what is there.     *)
Get(k, l) ==
  /\ entries[k] = Nothing
  /\ ~InFlight(l) /\ l \notin timers /\ ~(phase[l] # "unused" /\ Current(l))
  /\ entries' = [entries EXCEPT ![k] = l]
  /\ phase' = [phase EXCEPT ![l] = "asked"]
  /\ key' = [key EXCEPT ![l] = k]
  /\ data' = [data EXCEPT ![l] = 0]
  /\ UNCHANGED <<timers, version>>

(* The load's query runs.                                                  *)
Run(l) ==
  /\ phase[l] = "asked"
  /\ phase' = [phase EXCEPT ![l] = "ran"]
  /\ data' = [data EXCEPT ![l] = version]
  /\ UNCHANGED <<entries, key, timers, version>>

(* The load resolves: its lifetime starts, if it is still what the key      *)
(* holds.                                                                   *)
Resolve_Reinserts(l) ==
  /\ phase[l] = "ran"
  /\ phase' = [phase EXCEPT ![l] = "resolved"]
  /\ entries' = IF entries[key[l]] = Nothing THEN [entries EXCEPT ![key[l]] = l]
                                             ELSE entries
  /\ timers' = IF entries[key[l]] \in {Nothing, l} THEN timers \cup {l} ELSE timers
  /\ UNCHANGED <<key, data, version>>
Resolve_Unguarded(l) ==
  /\ phase[l] = "ran"
  /\ phase' = [phase EXCEPT ![l] = "resolved"]
  /\ timers' = timers \cup {l}
  /\ UNCHANGED <<entries, key, data, version>>
Resolve(l) ==
  /\ phase[l] = "ran"
  /\ phase' = [phase EXCEPT ![l] = "resolved"]
  /\ timers' = IF Current(l) THEN timers \cup {l} ELSE timers
  /\ UNCHANGED <<entries, key, data, version>>

(* #evict: the key is emptied only while it still holds that entry.        *)
Evict(l) ==
  entries' = IF Current(l) THEN [entries EXCEPT ![key[l]] = Nothing] ELSE entries

(* The load rejects: forgotten at once, or kept for the failure's own time. *)
Reject(l) ==
  /\ InFlight(l)
  /\ phase' = [phase EXCEPT ![l] = "rejected"]
  /\ IF key[l] \in Remembered
     THEN /\ timers' = IF Current(l) THEN timers \cup {l} ELSE timers
          /\ UNCHANGED entries
     ELSE Evict(l) /\ UNCHANGED timers
  /\ UNCHANGED <<key, data, version>>

Expire(l) ==
  /\ l \in timers
  /\ timers' = timers \ {l}
  /\ Evict(l)
  /\ UNCHANGED <<phase, key, data, version>>

Dropped(K) ==
  /\ entries' = [k \in Keys |-> IF k \in K THEN Nothing ELSE entries[k]]
  /\ timers' = {l \in timers : ~(key[l] \in K /\ Current(l))}
  /\ UNCHANGED <<phase, key, data, version>>

(* delete(key); clear(), which clearAllCaches calls on every cache.        *)
Delete_LeavesTimer(k) ==
  /\ entries[k] # Nothing
  /\ entries' = [entries EXCEPT ![k] = Nothing]
  /\ UNCHANGED <<phase, key, data, timers, version>>
Delete(k) == entries[k] # Nothing /\ Dropped({k})
Clear == Dropped(Keys)

Write ==
  /\ version < MaxVersion
  /\ version' = version + 1
  /\ UNCHANGED <<entries, phase, key, data, timers>>

LoadStep(l) == Run(l) \/ Resolve(l) \/ Reject(l) \/ Expire(l)
TtlNext ==
  \/ \E k \in Keys : Delete(k) \/ \E l \in Loads : Get(k, l)
  \/ \E l \in Loads : LoadStep(l)
  \/ Clear \/ Write

TtlSpec == TtlInit /\ [][TtlNext]_ttlVars

-----------------------------------------------------------------------------
(* The variables keep their types: a key holds a load or nothing at all.    *)
TtlTypeOK ==
  /\ entries \in [Keys -> Loads \cup {Nothing}]
  /\ phase \in [Loads -> {"unused", "asked", "ran", "resolved", "rejected"}]
  /\ key \in [Loads -> Keys]
  /\ data \in [Loads -> Nat] /\ version \in Nat
  /\ timers \subseteq Loads

(* A timer is armed exactly for the entries whose load has settled: no      *)
(* entry is held for ever, no timer outlives its entry, and none runs while *)
(* the load it would evict is still under way.                              *)
TimersMatch ==
  \A l \in Loads :
    l \in timers <=> phase[l] # "unused" /\ Settled(l) /\ Current(l)

(* The cache is a read-through cache: what a key holds, from the moment its *)
(* query has run, is an answer of that moment.                              *)
Cells == INSTANCE ReadThrough WITH
  cell <- [k \in Keys |->
             IF entries[k] # Nothing /\ phase[entries[k]] \in {"ran", "resolved"}
             THEN [held |-> TRUE, data |-> data[entries[k]]]
             ELSE [held |-> FALSE, data |-> 0]]
IsReadThrough == Cells!Spec

=============================================================================
