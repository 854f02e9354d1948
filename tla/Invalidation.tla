---------------------------- MODULE Invalidation ----------------------------
(***************************************************************************)
(* What the site promises of its per-process caches, without saying how:   *)
(* every machine keeps a copy of the answers it has computed, learns of    *)
(* committed writes in some order, and from the moment it has learnt of a  *)
(* write it holds no answer that the write made stale.  CacheEpoch.tla is  *)
(* the mechanism of utils/cache-epoch.ts and is checked to implement this. *)
(***************************************************************************)

CONSTANTS
  Machines,   (* the processes that serve the site                         *)
  Writes,     (* identities of the writes that may commit                  *)
  Keys,       (* keys of the in-memory caches                              *)
  Touched(_)  (* the keys a write makes stale                              *)

VARIABLES
  written,    (* writes committed in the database                          *)
  told,       (* told[m]: writes machine m has learnt of                   *)
  cell        (* cell[m][k]: what machine m holds under key k              *)

vars == <<written, told, cell>>

Empty == [st |-> "absent", data |-> {}]

Init ==
  /\ written = {}
  /\ told = [m \in Machines |-> {}]
  /\ cell = [m \in Machines |-> [k \in Keys |-> Empty]]

Write ==
  /\ \E w \in Writes \ written : written' = written \cup {w}
  /\ UNCHANGED <<told, cell>>

(* An answer is computed from everything committed by then.                *)
Load(m, k) ==
  /\ cell[m][k].st = "absent"
  /\ cell' = [cell EXCEPT ![m][k] = [st |-> "held", data |-> written]]
  /\ UNCHANGED <<written, told>>

Lacking(m, W) ==
  {k \in Keys : cell[m][k].st = "held"
                  /\ \E w \in W : k \in Touched(w) /\ w \notin cell[m][k].data}

(* Learning of writes drops at least every answer one of them made stale   *)
(* and touches no other machine.                                           *)
Learn(m) ==
  /\ \E W \in SUBSET written, D \in SUBSET Keys :
       /\ Lacking(m, W \ told[m]) \subseteq D
       /\ told' = [told EXCEPT ![m] = @ \cup W]
       /\ cell' = [cell EXCEPT ![m] = [k \in Keys |-> IF k \in D THEN Empty
                                                                 ELSE @[k]]]
  /\ UNCHANGED written

(* A new process starts with nothing cached and may have to learn again.   *)
Restart(m) ==
  /\ \E W \in SUBSET written : told' = [told EXCEPT ![m] = W]
  /\ cell' = [cell EXCEPT ![m] = [k \in Keys |-> Empty]]
  /\ UNCHANGED written

Next ==
  \/ Write
  \/ \E m \in Machines : Learn(m) \/ Restart(m)
  \/ \E m \in Machines, k \in Keys : Load(m, k)

Spec == Init /\ [][Next]_vars

=============================================================================
