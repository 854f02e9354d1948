------------------------------ MODULE Comments ------------------------------
(***************************************************************************)
(* The comments of one game as the database holds them, the queries that   *)
(* read them in bounded pages and the statements that add and remove them. *)
(* A comment is its id; ids grow in the order of the inserts, which is     *)
(* what every cursor relies on.                                            *)
(***************************************************************************)
EXTENDS Integers, FiniteSets, FiniteSetsExt

CONSTANTS
  MaxId,      \* bound: ids 1..MaxId are handed out
  PageSize,   \* COMMENTS_PAGE_SIZE
  Window,     \* REPLIES_PER_ROOT
  SourceOf,   \* the address behind each comment, by id
  Tables,     \* what the game may already hold when the page is asked for
  MaxRemovals \* bound: how many times moderation acts

ASSUME CommentsAssumption ==
  /\ MaxId \in Nat /\ PageSize \in Nat \ {0} /\ Window \in Nat \ {0}
  /\ 1..MaxId \subseteq DOMAIN SourceOf

VARIABLES
  rows,    \* the stored comments: id -> "parentId", 0 for NULL
  nextId,  \* the sequence
  removals \* how often moderation has acted

commentVars == <<rows, nextId, removals>>

Ids == 1..MaxId
Stored == DOMAIN rows

(* "parentId" is a foreign key, and an answer comes after what it answers. *)
Tree(t) ==
  /\ DOMAIN t \subseteq Ids
  /\ \A i \in DOMAIN t : t[i] = 0 \/ (t[i] \in DOMAIN t /\ t[i] < i)

ASSUME TablesAssumption == \A t \in Tables : Tree(t)

RootOf(c) == LET up[i \in Stored] == IF rows[i] = 0 THEN i ELSE up[rows[i]]
             IN up[c]
Roots == {i \in Stored : rows[i] = 0}
Thread(r) == {i \in Stored : i # r /\ RootOf(i) = r}

(* ORDER BY "id" DESC LIMIT n *)
Newest(S, n) == {i \in S : Cardinality({j \in S : j > i}) < n}
MaxOr0(S) == IF S = {} THEN 0 ELSE Max(S)
MinOr0(S) == IF S = {} THEN 0 ELSE Min(S)

(***************************************************************************)
(* Reads.  A view of a thread carries what its markup says: the replies,   *)
(* the cursor of the ordinary page and whether older ones are hidden.      *)
(***************************************************************************)
View(r, extra) ==
  LET page == Newest(Thread(r), Window)
  IN [root |-> r, replies |-> page \cup extra, cursor |-> MinOr0(page),
      more |-> Thread(r) # page]

(* The newest roots, or those before the cursor, each with its thread. *)
FindByGameId(before) ==
  LET older == {r \in Roots : before = 0 \/ r < before}
      page == Newest(older, PageSize)
  IN [views |-> {View(r, {}) : r \in page}, oldest |-> MinOr0(page),
      remaining |-> Cardinality({r \in Roots : r < MinOr0(page)})]

FindReplies(r, before, after) ==
  LET range == {i \in Thread(r) : i < before /\ i > after}
      page == Newest(range, Window)
  IN [page |-> page, oldest |-> MinOr0(page),
      remaining |-> Cardinality(range) - Cardinality(page)]

(* One thread with the comment a link names, wherever it lies in it. *)
FindThreadByComment(c) ==
  LET r == RootOf(c) IN View(r, IF c = r THEN {} ELSE {c})

CountRoots == Cardinality(Roots)

(***************************************************************************)
(* Writes.                                                                 *)
(***************************************************************************)
(* The foreign key refuses a reply to a comment that has gone. *)
CanInsert(parent) == nextId \in Ids /\ parent \in Stored \cup {0}

Insert(parent) ==
  /\ CanInsert(parent)
  /\ rows' = [i \in Stored \cup {nextId} |-> IF i = nextId THEN parent ELSE rows[i]]
  /\ nextId' = nextId + 1
  /\ UNCHANGED removals

(* "parentId" cascades: what goes takes every answer below it along. *)
Doomed(S) ==
  LET under[i \in Stored] == i \in S \/ (rows[i] # 0 /\ under[rows[i]])
  IN {i \in Stored : under[i]}

Remove(S) ==
  /\ removals < MaxRemovals
  /\ removals' = removals + 1
  /\ rows' = [i \in Stored \ Doomed(S) |-> rows[i]]
  /\ UNCHANGED nextId

Delete(c) == c \in Stored /\ Remove({c})

(* Everything the source of c has posted by now. *)
DeleteSameSource(c) ==
  c \in Stored /\ Remove({i \in Stored : SourceOf[i] = SourceOf[c]})

(* Deleting the game cascades to all of its comments. *)
DeleteGame == Stored # {} /\ Remove(Stored)

Moderate ==
  \/ \E c \in Stored : Delete(c) \/ DeleteSameSource(c)
  \/ DeleteGame

CommentsInit ==
  /\ rows \in Tables /\ nextId = MaxOr0(Stored) + 1
  /\ removals = 0

CommentsTypeOK ==
  /\ Tree(rows) /\ nextId \in 1..(MaxId + 1)
  /\ removals \in 0..MaxRemovals
=============================================================================
