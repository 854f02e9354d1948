---------------------------- MODULE MCMigrations ----------------------------
(* Instances of Migrations for TLC: a release, the next one, a build from a *)
(* branch that edited file 3 and never saw file 2, and one with a file 4    *)
(* that planMigration refuses.  9 is a row no runner wrote.                 *)
EXTENDS Migrations, TLC

CONSTANTS r1, r2, r3, r4

MCFiles == r1 :> {1, 2} @@ r2 :> {1, 2, 3} @@ r3 :> {1, 3} @@ r4 :> {1, 2, 4}
MCSum   == r1 :> [m \in Names |-> 2] @@ r2 :> [m \in Names |-> 2]
             @@ r3 :> [m \in Names |-> IF m = 3 THEN 3 ELSE 2] @@ r4 :> [m \in Names |-> 2]
MCKind  == [m \in Names |-> CASE m = 2 -> "concurrent" [] m = 3 -> "outside"
                                [] OTHER -> "transaction"]

(* New, from before checksums, meddled with, edited.                        *)
Rows(f) == [m \in Names |-> IF m \in DOMAIN f THEN f[m] ELSE Absent]
MCInitially == {Rows(<<>>), Rows(<<Legacy>>), Rows(1 :> 2 @@ 9 :> 2), Rows(1 :> 3)}
=============================================================================
