--------------------------- MODULE MCCommentPage ---------------------------
(* A few comments for TLC; every second one comes from one address.  The   *)
(* game starts with one thread of a root, its reply and a reply to that    *)
(* reply, one reply more than a page shows; two more comments may come.    *)
EXTENDS CommentPage
MCSourceOf == [i \in Ids |-> IF i % 2 = 0 THEN "flood" ELSE "visitor"]
MCTables == {<<0, 1, 2>>}
=============================================================================
