---------------------------- MODULE ReadThrough ----------------------------
(***************************************************************************)
(* What a read-through cache promises of one process's copies: a key holds  *)
(* nothing, or an answer computed from everything committed when its query  *)
(* ran; an answer may be dropped at any time and is never changed.  The     *)
(* cells of CacheEpoch.tla behave like this; TtlCache.tla implements it.    *)
(***************************************************************************)
EXTENDS Naturals

CONSTANT Keys

VARIABLES
  version,  (* number of writes committed                                  *)
  cell      (* cell[k]: NoAnswer, or the version its answer reflects       *)

vars == <<version, cell>>

NoAnswer == [held |-> FALSE, data |-> 0]

Init == version = 0 /\ cell = [k \in Keys |-> NoAnswer]

Write == version' = version + 1 /\ UNCHANGED cell

Answer(k) ==
  /\ cell[k] = NoAnswer
  /\ cell' = [cell EXCEPT ![k] = [held |-> TRUE, data |-> version]]
  /\ UNCHANGED version

Drop ==
  /\ \E K \in SUBSET Keys :
       cell' = [k \in Keys |-> IF k \in K THEN NoAnswer ELSE cell[k]]
  /\ UNCHANGED version

Next == Write \/ Drop \/ \E k \in Keys : Answer(k)

Spec == Init /\ [][Next]_vars

=============================================================================
