--------------------------- MODULE MCCacheEpoch ----------------------------
(* Instances of CacheEpoch for TLC.                                        *)
EXTENDS CacheEpoch, TLC

CONSTANTS sitemap, widget, m1, m2, w1, w2, w3

(* A game write drops both keys, a news write the sitemap and a comment the *)
(* "Latest comments" widget.                                                *)
MCLocalDrop == [game    |-> {sitemap, widget} \cap Keys,
                news    |-> {sitemap} \cap Keys,
                comment |-> {widget} \cap Keys]

(* Two game writes on one machine and a news write on the other: one scope, *)
(* and the second machine drops less of its own than the first.             *)
GapOwners == w1 :> m1 @@ w2 :> m1 @@ w3 :> m2
GapKinds  == w1 :> "game" @@ w2 :> "game" @@ w3 :> "news"

(* A behaviour has at most two of the three writes: two of one machine,     *)
(* whose retries coalesce, or one of each, with a gap between their numbers. *)
(* A retry that failed is tried again only in behaviours of the first kind. *)
(* w1 and w2 are alike, so which of them comes is a symmetry.               *)
AnyTwo == \E w \in Writes : stage[w] = "idle"
SecondTries == \A m \in Machines, s \in Scopes :
                 pending[m][s].attempt > 0 => stage[w3] = "idle"
AnyTwoSpec == Init /\ [][Next /\ AnyTwo' /\ SecondTries']_vars
Alike == Permutations({w1, w2})

(* One write, on the first machine.                                         *)
OneKind  == [w \in Writes |-> "comment"]
OneOwner == [w \in Writes |-> m1]
=============================================================================
