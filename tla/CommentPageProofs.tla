-------------------------- MODULE CommentPageProofs --------------------------
(***************************************************************************)
(* Proofs about CommentPage.tla, for any comments, sizes of page, windows  *)
(* and numbers of requests and removals.                                   *)
(*                                                                         *)
(* The answers that are out are part of the invariant (AnswersRight): what *)
(* the page makes of one rests on what its snapshot said, and that stays   *)
(* true of the comments that are still there, while new ones are newer     *)
(* than anything a snapshot speaks of (Grows, StillRight).  A thread or a  *)
(* window leaves out only what is older than all it shows, with a cursor   *)
(* that leads there (ViewRight, RepliesRight, BatchRight); NewestRight     *)
(* says that the page's own idea of the newest reply is what the reads     *)
(* have delivered, from which a gap is always noticed (Merges).            *)
(***************************************************************************)
EXTENDS CommentPage, FiniteSetTheorems, WellFoundedInduction, TLAPS

----------------------------------------------------------------------------
(* Least and greatest ids *)

LEMMA SmallestSet ==
  ASSUME NEW V, IsFiniteSet(V), NEW T \in SUBSET SUBSET V, T # {}
  PROVE  \E s \in T : \A u \in T : u \subseteq s => u = s
<1>1. FiniteSubsetsOf(V) = SUBSET V BY FS_FiniteSubsetsOfFinite
<1>2. IsWellFoundedOn(StrictSubsetOrdering(V), SUBSET V)
  BY <1>1, FS_StrictSubsetOrderingWellFounded
<1>3. PICK s \in T : \A u \in T : <<u, s>> \notin StrictSubsetOrdering(V)
  <2> HIDE DEF StrictSubsetOrdering
  <2>1. T \subseteq SUBSET V OBVIOUS
  <2>. QED BY <1>2, <2>1, WFMin, Zenon
<1>. QED BY <1>3 DEF StrictSubsetOrdering

LEMMA Lowest ==
  ASSUME NEW N \in Nat, NEW S \in SUBSET (1..N), S # {}
  PROVE  \E n \in S : \A m \in S : n <= m
<1> DEFINE V == 1..N
           W == {{m \in V : m <= n} : n \in S}
<1>1. IsFiniteSet(V) BY FS_Interval
<1>2. W \in SUBSET SUBSET V /\ W # {} OBVIOUS
<1>3. PICK u \in W : \A v \in W : v \subseteq u => v = u
  <2> HIDE DEF V, W
  <2>. QED BY <1>1, <1>2, SmallestSet
<1>4. PICK n \in S : u = {m \in V : m <= n} OBVIOUS
<1>5. ASSUME NEW m \in S, ~(n <= m) PROVE FALSE
  <2>1. m \in Nat /\ n \in Nat /\ m < n /\ n \in V BY <1>5
  <2>2. {i \in V : i <= m} \in W OBVIOUS
  <2>3. \A i \in V : i <= m => i <= n BY <2>1
  <2>4. n \in u /\ n \notin {i \in V : i <= m} BY <1>4, <2>1
  <2>. QED BY <1>3, <1>4, <2>2, <2>3, <2>4
<1>. QED BY <1>4, <1>5

LEMMA Highest ==
  ASSUME NEW N \in Nat, NEW S \in SUBSET (1..N), S # {}
  PROVE  \E n \in S : \A m \in S : m <= n
<1> DEFINE T == {N + 1 - k : k \in S}
<1>1. T \in SUBSET (1..N) /\ T # {}
  <2>1. \A k \in S : N + 1 - k \in 1..N OBVIOUS
  <2>2. T \subseteq 1..N BY <2>1
  <2>. QED BY <2>2
<1>2. PICK n \in T : \A m \in T : n <= m
  <2> HIDE DEF T
  <2>. QED BY <1>1, Lowest
<1>3. PICK k \in S : n = N + 1 - k OBVIOUS
<1>4. \A m \in S : N + 1 - k <= N + 1 - m BY <1>2, <1>3
<1>. QED BY <1>3, <1>4

LEMMA IdsAre == MaxId \in Nat /\ Ids = 1..MaxId /\ Ids \subseteq Nat \ {0} /\ IsFiniteSet(Ids)
  BY CommentsAssumption, FS_Interval DEF Ids

----------------------------------------------------------------------------
(* Tables of comments: an answer's parent is older. *)

(* f is what b says at roots and in K, and elsewhere what it is for the parent. *)
Inherits(f, t, b, K) ==
  /\ f = [i \in DOMAIN t |-> f[i]]
  /\ \A i \in DOMAIN t : f[i] = IF t[i] = 0 \/ i \in K THEN b[i] ELSE f[t[i]]

LEMMA Solvable == ASSUME NEW t, Tree(t), NEW b, NEW K PROVE \E f : Inherits(f, t, b, K)
<1> DEFINE Below(n) == {i \in DOMAIN t : i <= n}
           Solves(f, n) == \A i \in Below(n) :
                             f[i] = IF t[i] = 0 \/ i \in K THEN b[i] ELSE f[t[i]]
           Bad == {n \in Ids : ~\E f : Solves(f, n)}
<1>1. Bad = {}
  <2> SUFFICES ASSUME Bad # {} PROVE FALSE
    OBVIOUS
  <2>1. Bad \in SUBSET (1..MaxId) BY IdsAre
  <2>2. PICK n \in Bad : \A m \in Bad : n <= m
    <3> HIDE DEF Bad
    <3>. QED BY <2>1, IdsAre, Lowest
  <2>3. n \in Nat /\ n >= 1 /\ n <= MaxId /\ MaxId \in Nat BY IdsAre
  <2>4. PICK f : Solves(f, n - 1)
    <3>1. CASE n = 1
      <4>1. Below(n - 1) = {} BY <3>1, IdsAre DEF Tree
      <4>. QED BY <4>1
    <3>2. CASE n # 1
      <4>1. n - 1 \in Ids BY <2>3, <3>2, IdsAre
      <4>2. ~(n <= n - 1) BY <2>3
      <4>3. n - 1 \notin Bad BY <2>2, <4>2
      <4>. QED BY <4>1, <4>3
    <3>. QED BY <3>1, <3>2
  <2> DEFINE g == [i \in Below(n) |-> IF i = n
                     THEN IF t[n] = 0 \/ n \in K THEN b[n] ELSE f[t[n]] ELSE f[i]]
  <2>5. \A i \in Below(n) : i = n \/ i \in Below(n - 1) BY <2>3, IdsAre DEF Tree
  <2>6. \A i \in Below(n - 1) : i \in Below(n) /\ i # n BY <2>3, IdsAre DEF Tree
  <2>7. \A i \in Below(n) : t[i] # 0 => t[i] \in Below(n - 1)
    BY <2>3, IdsAre DEF Tree
  <2> HIDE DEF Below
  <2>8. \A i \in Below(n) : t[i] # 0 => g[t[i]] = f[t[i]] BY <2>6, <2>7
  <2>9. Solves(g, n)
    <3>1. ASSUME NEW i \in Below(n)
          PROVE  g[i] = IF t[i] = 0 \/ i \in K THEN b[i] ELSE g[t[i]]
      <4>1. CASE i = n BY <2>8, <4>1
      <4>2. CASE i # n
        <5>1. i \in Below(n - 1) BY <2>5, <4>2
        <5>2. g[i] = f[i] BY <4>2
        <5>. QED BY <2>4, <2>8, <5>1, <5>2
      <4>. QED BY <4>1, <4>2
    <3>. QED BY <3>1
  <2>. QED BY <2>9
<1>2. \E f : Solves(f, MaxId)
  <2>1. CASE MaxId = 0
    <3>1. Below(MaxId) = {} BY <2>1, IdsAre DEF Tree
    <3>. QED BY <3>1
  <2>2. CASE MaxId # 0
    <3>1. MaxId \in Ids BY <2>2, IdsAre
    <3>. QED BY <1>1, <3>1
  <2>. QED BY <2>1, <2>2
<1>3. PICK f : Solves(f, MaxId) BY <1>2
<1>4. Below(MaxId) = DOMAIN t BY IdsAre DEF Tree
<1> DEFINE h == [i \in DOMAIN t |-> f[i]]
<1>5. \A i \in DOMAIN t : h[i] = IF t[i] = 0 \/ i \in K THEN b[i] ELSE h[t[i]]
  <2>1. \A i \in DOMAIN t : t[i] # 0 => t[i] \in DOMAIN t BY DEF Tree
  <2> HIDE DEF Below
  <2>. QED BY <1>3, <1>4, <2>1
<1>6. h = [i \in DOMAIN t |-> h[i]] OBVIOUS
<1>. QED BY <1>5, <1>6 DEF Inherits

(* The root of a comment, and the thread a page shows it in. *)
RootIn(t, c) == LET up[i \in DOMAIN t] == IF t[i] = 0 THEN i ELSE up[t[i]] IN up[c]
Home(t, c) == IF t[c] = 0 THEN 0 ELSE RootIn(t, c)

LEMMA RootIs ==
  ASSUME NEW t, Tree(t), NEW c \in DOMAIN t
  PROVE  RootIn(t, c) = IF t[c] = 0 THEN c ELSE RootIn(t, t[c])
<1> DEFINE Solves(f) == f = [i \in DOMAIN t |-> IF t[i] = 0 THEN i ELSE f[t[i]]]
           up == CHOOSE f : Solves(f)
<1>1. \E f : Solves(f)
  <2> DEFINE b == [i \in DOMAIN t |-> i]
  <2>1. PICK f : Inherits(f, t, b, {})
    <3> HIDE DEF b
    <3>. QED BY Solvable
  <2>2. /\ f = [i \in DOMAIN t |-> f[i]]
        /\ \A i \in DOMAIN t : f[i] = IF t[i] = 0 THEN i ELSE f[t[i]]
    BY <2>1 DEF Inherits
  <2>3. f = [i \in DOMAIN t |-> IF t[i] = 0 THEN i ELSE f[t[i]]] BY <2>2
  <2>. QED BY <2>3
<1>2. Solves(up) BY <1>1
<1>3. t[c] # 0 => t[c] \in DOMAIN t BY DEF Tree
<1>4. \A d : RootIn(t, d) = up[d] BY DEF RootIn
<1> HIDE DEF up
<1>5. up[c] = IF t[c] = 0 THEN c ELSE up[t[c]] BY <1>2
<1>. QED BY <1>4, <1>5

LEMMA NoLowestCounterexample ==
  ASSUME NEW t, Tree(t), NEW B \in SUBSET DOMAIN t, B # {}
  PROVE  \E c \in B : t[c] = 0 \/ (t[c] \in DOMAIN t \ B)
<1>1. B \in SUBSET (1..MaxId) BY IdsAre DEF Tree
<1>2. PICK c \in B : \A d \in B : c <= d BY <1>1, IdsAre, Lowest
<1>3. c \in Nat /\ (t[c] = 0 \/ (t[c] \in DOMAIN t /\ t[c] < c)) BY IdsAre DEF Tree
<1>4. t[c] # 0 => t[c] \notin B
  <2>1. ASSUME t[c] # 0, t[c] \in B PROVE FALSE
    <3>1. t[c] \in Nat /\ c \in Nat /\ t[c] < c /\ c <= t[c] BY <1>2, <1>3, <2>1, IdsAre DEF Tree
    <3>. QED BY <3>1
  <2>. QED BY <2>1
<1>. QED BY <1>3, <1>4

LEMMA RootsAreRoots ==
  ASSUME NEW t, Tree(t)
  PROVE  \A c \in DOMAIN t : /\ RootIn(t, c) \in DOMAIN t /\ t[RootIn(t, c)] = 0
                             /\ RootIn(t, c) <= c
                             /\ RootIn(t, c) = c <=> t[c] = 0
<1> DEFINE Right(c) == RootIn(t, c) \in DOMAIN t /\ t[RootIn(t, c)] = 0 /\ RootIn(t, c) <= c
           B == {c \in DOMAIN t : ~Right(c)}
<1>0. DOMAIN t \subseteq Nat BY IdsAre DEF Tree
<1>1. B = {}
  <2> SUFFICES ASSUME B # {} PROVE FALSE
    OBVIOUS
  <2>1. PICK c \in B : t[c] = 0 \/ t[c] \in DOMAIN t \ B
    <3> HIDE DEF B
    <3>1. B \in SUBSET DOMAIN t BY DEF B
    <3>. QED BY <3>1, NoLowestCounterexample
  <2>2. RootIn(t, c) = IF t[c] = 0 THEN c ELSE RootIn(t, t[c]) BY RootIs
  <2>3. CASE t[c] = 0 BY <1>0, <2>2, <2>3
  <2>4. CASE t[c] # 0
    <3>1. Right(t[c]) /\ t[c] < c /\ t[c] \in Nat BY <1>0, <2>1, <2>4 DEF Tree
    <3>. QED BY <1>0, <2>2, <2>4, <3>1
  <2>. QED BY <2>3, <2>4
<1>2. ASSUME NEW c \in DOMAIN t PROVE Right(c) /\ (RootIn(t, c) = c <=> t[c] = 0)
  <2>1. Right(c) BY <1>1
  <2>2. t[c] = 0 => RootIn(t, c) = c BY RootIs
  <2>. QED BY <2>1, <2>2
<1>. QED BY <1>2

(* Two tables that agree on the comments they share place them alike. *)
LEMMA SameRoots ==
  ASSUME NEW t, NEW u, Tree(t), Tree(u), \A i \in DOMAIN t \cap DOMAIN u : t[i] = u[i]
  PROVE  \A c \in DOMAIN t \cap DOMAIN u : RootIn(t, c) = RootIn(u, c)
<1> DEFINE B == {c \in DOMAIN t \cap DOMAIN u : RootIn(t, c) # RootIn(u, c)}
<1> SUFFICES ASSUME B # {} PROVE FALSE
  OBVIOUS
<1>1. B \in SUBSET DOMAIN t OBVIOUS
<1>2. PICK c \in B : t[c] = 0 \/ t[c] \in DOMAIN t \ B
  <2> HIDE DEF B
  <2>. QED BY <1>1, NoLowestCounterexample
<1>3. RootIn(t, c) = IF t[c] = 0 THEN c ELSE RootIn(t, t[c]) BY RootIs
<1>4. RootIn(u, c) = IF t[c] = 0 THEN c ELSE RootIn(u, t[c]) BY RootIs
<1>5. t[c] # 0 => t[c] \in DOMAIN u BY DEF Tree
<1>. QED BY <1>2, <1>3, <1>4, <1>5

(* Removing a comment removes what is below it. *)
LEMMA DoomedIs ==
  ASSUME Tree(rows), NEW S, NEW i \in Stored
  PROVE  i \in Doomed(S) <=> i \in S \/ (rows[i] # 0 /\ rows[i] \in Doomed(S))
<1> DEFINE Solves(f) == f = [k \in Stored |-> k \in S \/ (rows[k] # 0 /\ f[rows[k]])]
           under == CHOOSE f : Solves(f)
<1>0. \A k \in Stored : rows[k] # 0 => rows[k] \in Stored BY DEF Tree, Stored
<1>1. \E f : Solves(f)
  <2> DEFINE b == [k \in Stored |-> IF k \in S THEN TRUE ELSE FALSE]
  <2>1. PICK f : Inherits(f, rows, b, S)
    <3> HIDE DEF b
    <3>. QED BY Solvable
  <2>2. \A k \in Stored : f[k] = IF rows[k] = 0 \/ k \in S THEN b[k] ELSE f[rows[k]]
    BY <2>1 DEF Inherits, Stored
  <2> DEFINE g == [k \in Stored |-> f[k] = TRUE]
  <2>3. ASSUME NEW k \in Stored
        PROVE  g[k] = (k \in S \/ (rows[k] # 0 /\ g[rows[k]]))
    <3>1. b[k] = IF k \in S THEN TRUE ELSE FALSE OBVIOUS
    <3>2. CASE k \in S
      <4>1. f[k] = TRUE BY <2>2, <3>1, <3>2
      <4>. QED BY <3>2, <4>1
    <3>3. CASE k \notin S /\ rows[k] = 0
      <4>1. f[k] = FALSE BY <2>2, <3>1, <3>3
      <4>. QED BY <3>3, <4>1
    <3>4. CASE k \notin S /\ rows[k] # 0
      <4>1. f[k] = f[rows[k]] BY <2>2, <3>4
      <4>. QED BY <1>0, <3>4, <4>1
    <3>. QED BY <3>2, <3>3, <3>4
  <2>4. Solves(g) BY <2>3
  <2>. QED BY <2>4
<1>2. Solves(under) BY <1>1
<1>3. Doomed(S) = {k \in Stored : under[k]} BY DEF Doomed
<1> HIDE DEF under
<1>4. under[i] = (i \in S \/ (rows[i] # 0 /\ under[rows[i]])) BY <1>2
<1>. QED BY <1>0, <1>3, <1>4

----------------------------------------------------------------------------
(* The invariant *)

(* The ids the sequence has handed out; nobody gets one of them again. *)
Handed == {c \in Ids : c < nextId}
Table ==
  /\ Tree(rows) /\ nextId \in 1..(MaxId + 1)
  /\ Stored \subseteq Handed

(* What a markup says of comments stays true of those that are still there. *)
PlacesRight(m) ==
  DOMAIN m \subseteq Handed /\ \A c \in DOMAIN m \cap Stored : m[c] = Home(rows, c)

(* A view of a thread: where its replies end, its cursor goes on. *)
ViewRight(v) ==
  /\ v.root \in Handed /\ v.replies \subseteq Handed /\ v.cursor \in Nat
  /\ v.root \in Stored => rows[v.root] = 0
  /\ \A c \in v.replies \cap Stored : Home(rows, c) = v.root
  /\ v.more => v.cursor \in v.replies
  /\ \A c \in Stored \ v.replies, d \in v.replies :
       Home(rows, c) = v.root /\ c <= d => v.more /\ c < v.cursor
ViewsRight(views) ==
  /\ \A v \in views : ViewRight(v)
  /\ \A v, w \in views : v.root = w.root => v = w

(* A page of what lies between two cursors: what it leaves out is older    *)
(* than all of it, and there is something left to ask for.                 *)
LeavesOlder(b, c) == b.oldest # 0 /\ c < b.oldest /\ b.remaining > 0

BatchRight(a) ==
  /\ ViewsRight(a.batch.views) /\ rootMore
  /\ a.batch.oldest \in Nat /\ a.batch.oldest < rootCursor
  /\ \A c \in Roots : c < rootCursor =>
       (\E v \in a.batch.views : v.root = c) \/ LeavesOlder(a.batch, c)

RepliesRight(a) ==
  \E p \in pagers :
    /\ p.root = a.root /\ p.after = a.after /\ p.open
    /\ a.batch.page \subseteq Handed /\ a.batch.oldest \in Nat
    /\ a.batch.oldest # 0 => a.batch.oldest < p.before
    /\ \A c \in a.batch.page \cap Stored : Home(rows, c) = a.root
    /\ \A c \in Stored : Home(rows, c) = a.root /\ p.after < c /\ c < p.before =>
         c \in a.batch.page \/ LeavesOlder(a.batch, c)

AnswerRight(a) ==
  \/ a.kind = "batch" /\ BatchRight(a)
  \/ a.kind = "replies" /\ RepliesRight(a)
  \/ a.kind = "link" /\ ViewRight(a.view)
AnswersRight ==
  /\ \A a \in answers : AnswerRight(a)
  /\ \A a, b \in Asked("batch") : a = b
  /\ \A a, b \in Asked("replies") : a.root = b.root /\ a.after = b.after => a = b

(* The form is at the foot of the page or under a root. *)
Answerable(r) == r = 0 \/ (r \in OnPage /\ shown[r] = 0)
FormRight ==
  /\ post \in [stage : {"none", "sent", "stored"}, parent : Ids \cup {0},
               moved : BOOLEAN, id : Ids \cup {0}]
  /\ Answerable(reply) /\ Answerable(post.parent)
  /\ post.stage = "stored" =>
       post.id \in Handed /\ (post.id \in Stored => Home(rows, post.id) = post.parent)

ShownRight ==
  /\ PlacesRight(shown)
  /\ \A c \in OnPage : shown[c] = 0 \/ shown[c] \in OnPage

(* Buttons; unless the reader opened the thread, data-newest-reply is what *)
(* the reads have delivered.                                               *)
PagersRight ==
  /\ pagers \subseteq [root : OnPage, after : Nat, before : Nat, open : BOOLEAN]
  /\ \A p, q \in pagers : p.root = q.root /\ p.after = q.after => p = q
  /\ \A p \in pagers : p.before < nextId
  /\ \A p \in pagers : p.root \in opened \/ p.after < given[p.root]
NewestRight ==
  /\ newest \in [Ids -> Nat \cup {Unset}]
  /\ given \in [Ids \cup {0} -> Nat] /\ \A r \in Ids \cup {0} : given[r] < nextId
  /\ \A r \in Ids \ OnPage : given[r] = 0 /\ newest[r] = Unset
  /\ \A r \in Ids \ opened :
       IF newest[r] = Unset THEN Children(r) = {} /\ given[r] = 0 ELSE newest[r] = given[r]

ThreadsReach ==
  \A r \in OnPage \ opened : \A c \in Stored :
    Home(rows, c) = r /\ c <= given[r] =>
      c \in OnPage \/ \E p \in PagersOf(r) : p.open /\ p.after < c /\ c < p.before
RootsReach ==
  /\ rootCursor \in Nat /\ rootCursor < nextId /\ rootMore \in BOOLEAN
  /\ load = "shown" => drifted \/ \A c \in Roots : c <= given[0] =>
                         c \in OnPage \/ (rootMore /\ c < rootCursor)

Blank ==
  load # "shown" =>
    /\ OnPage = {} /\ answers = {} /\ pagers = {} /\ reply = 0 /\ post = NoPost
    /\ newest = [r \in Ids |-> Unset] /\ opened = {}

PageInv ==
  /\ Table /\ AnswersRight /\ FormRight /\ ShownRight /\ PagersRight /\ NewestRight
  /\ ThreadsReach /\ RootsReach /\ Blank

----------------------------------------------------------------------------
(* What a change of the table leaves alone *)

(* Comments that stay keep their thread, and new ones are newer than all   *)
(* that any markup speaks of.                                              *)
Grows ==
  /\ Table' /\ Handed \subseteq Handed' /\ nextId <= nextId'
  /\ \A c \in Stored' : \/ c \in Stored /\ rows'[c] = rows[c] /\ Home(rows', c) = Home(rows, c)
                        \/ nextId <= c
  /\ \A c \in Stored' \cap Handed : c \in Stored

LEMMA TableGrows ==
  ASSUME Table, Tree(rows'), nextId' \in 1..(MaxId + 1), nextId <= nextId',
         \A c \in Stored' : (c \in Stored /\ rows'[c] = rows[c])
       \/ (nextId <= c /\ c < nextId' /\ c \in Ids)
  PROVE  Grows
<1>0. nextId \in Nat /\ nextId' \in Nat /\ MaxId \in Nat /\ \A c \in Ids : c \in Nat
  BY IdsAre DEF Table
<1>1. Handed \subseteq Handed' BY <1>0 DEF Handed, Ids
<1>2. Ids' = Ids BY DEF Ids
<1>3. Stored' \subseteq Handed' BY <1>0, <1>2 DEF Table, Handed
<1>4. \A c \in Stored' \cap Stored : rows'[c] = rows[c] BY <1>0 DEF Table, Handed
<1>5. \A c \in Stored' \cap Stored : RootIn(rows', c) = RootIn(rows, c)
  BY <1>4, SameRoots DEF Stored, Table
<1>6. \A c \in Stored' \cap Stored : Home(rows', c) = Home(rows, c) BY <1>4, <1>5 DEF Home
<1>7. Table' BY <1>3 DEF Table, Ids
<1>8. \A c \in Stored' \cap Handed : c \in Stored BY <1>0 DEF Handed
<1>. QED BY <1>1, <1>4, <1>6, <1>7, <1>8 DEF Grows

LEMMA InsertGrows ==
  ASSUME Table, NEW parent, Insert(parent)
  PROVE  Grows /\ nextId \in Handed' /\ rows'[nextId] = parent /\ parent \in Stored \cup {0}
<1>0. nextId \in Nat /\ MaxId \in Nat /\ nextId \in Ids /\ nextId' = nextId + 1
  BY IdsAre DEF Insert, CanInsert
<1>1. /\ Stored' = Stored \cup {nextId} /\ rows'[nextId] = parent
      /\ \A i \in Stored : rows'[i] = rows[i]
  <2>1. nextId \notin Stored BY <1>0 DEF Table, Handed
  <2>. QED BY <2>1 DEF Insert, Stored
<1>2. parent \in Stored \cup {0} BY DEF Insert, CanInsert
<1>3. \A i \in Stored : i \in Ids /\ i \in Nat /\ i < nextId BY IdsAre DEF Table, Handed
<1>4. Tree(rows')
  <2>1. ASSUME NEW i \in Stored'
        PROVE  i \in Ids /\ (rows'[i] = 0 \/ (rows'[i] \in Stored' /\ rows'[i] < i))
    BY <1>0, <1>1, <1>2, <1>3 DEF Table, Tree, Stored
  <2>. QED BY <2>1 DEF Tree, Stored
<1>5. nextId' \in 1..(MaxId + 1) BY <1>0, IdsAre
<1>6. nextId <= nextId' BY <1>0
<1>7. \A c \in Stored' : (c \in Stored /\ rows'[c] = rows[c])
       \/ (nextId <= c /\ c < nextId' /\ c \in Ids)
  <2>1. nextId <= nextId /\ nextId < nextId' BY <1>0
  <2>. QED BY <1>0, <1>1, <2>1
<1>8. Grows BY <1>4, <1>5, <1>6, <1>7, TableGrows
<1>. QED BY <1>0, <1>1, <1>2, <1>8 DEF Handed, Ids

LEMMA ModerateGrows == Table /\ Moderate => Grows
<1>1. ASSUME Table, NEW S, Remove(S) PROVE Grows
  <2>1. /\ nextId' = nextId /\ Stored' = Stored \ Doomed(S)
        /\ \A i \in Stored' : rows'[i] = rows[i]
    BY <1>1 DEF Remove, Stored
  <2>2. Tree(rows')
    <3>1. \A i \in Stored' : rows[i] # 0 => rows[i] \in Stored' /\ rows[i] < i
      BY <1>1, <2>1, DoomedIs DEF Table, Tree, Stored
    <3>. QED BY <1>1, <2>1, <3>1 DEF Tree, Table, Stored
  <2>3. nextId \in Nat /\ nextId' \in 1..(MaxId + 1) BY <1>1, <2>1, IdsAre DEF Table
  <2>4. nextId <= nextId' BY <2>1, <2>3
  <2>5. \A c \in Stored' : (c \in Stored /\ rows'[c] = rows[c])
       \/ (nextId <= c /\ c < nextId' /\ c \in Ids)
    BY <2>1
  <2>. QED BY <1>1, <2>2, <2>3, <2>4, <2>5, TableGrows
<1>. QED BY <1>1 DEF Moderate, Delete, DeleteSameSource, DeleteGame

LEMMA StaysGrows == Table /\ UNCHANGED commentVars => Grows
<1> SUFFICES ASSUME Table, UNCHANGED commentVars PROVE Grows
  OBVIOUS
<1>1. rows' = rows /\ nextId' = nextId BY DEF commentVars
<1>2. nextId \in Nat BY IdsAre DEF Table
<1>3. Tree(rows') /\ nextId' \in 1..(MaxId + 1) /\ nextId <= nextId' BY <1>1, <1>2 DEF Table
<1>4. \A c \in Stored' : (c \in Stored /\ rows'[c] = rows[c])
       \/ (nextId <= c /\ c < nextId' /\ c \in Ids)
  BY <1>1 DEF Stored
<1>. QED BY <1>3, <1>4, TableGrows

(* Everything the page and the answers say goes on being right. *)
LEMMA StillRight ==
  ASSUME Table, Grows
  PROVE  /\ \A m : PlacesRight(m) => PlacesRight(m)'
         /\ \A v : ViewRight(v) => ViewRight(v)'
         /\ \A views : ViewsRight(views) => ViewsRight(views)'
<1>0. /\ nextId \in Nat /\ \A c \in Ids : c \in Nat
      /\ \A c \in Handed : c \in Nat /\ c < nextId
  BY IdsAre DEF Table, Handed
<1>1. ASSUME NEW m, PlacesRight(m) PROVE PlacesRight(m)'
  BY <1>0, <1>1 DEF PlacesRight, Grows
<1>2. ASSUME NEW v, ViewRight(v) PROVE ViewRight(v)'
  <2>1. \A c \in Stored' : (\E d \in v.replies : c <= d) => c \in Handed /\ c \in Stored
    BY <1>0, <1>2 DEF ViewRight, Grows, Table, Handed
  <2>2. \A c \in Handed : c \in Stored' => rows'[c] = rows[c] /\ Home(rows', c) = Home(rows, c)
    BY <1>0 DEF Grows
  <2>. QED BY <1>2, <2>1, <2>2 DEF ViewRight, Grows
<1>3. \A views : ViewsRight(views) => ViewsRight(views)' BY <1>2 DEF ViewsRight
<1>. QED BY <1>1, <1>2, <1>3

----------------------------------------------------------------------------
(* What the queries answer *)

LEMMA MaxIn ==
  ASSUME NEW N \in Nat, NEW S \in SUBSET (0..N), S # {}
  PROVE  Max(S) \in S /\ \A c \in S : c <= Max(S)
<1> DEFINE T == {k + 1 : k \in S}
<1>1. T \in SUBSET (1..(N + 1)) /\ T # {}
  <2>1. \A k \in S : k + 1 \in 1..(N + 1) OBVIOUS
  <2>. QED BY <2>1
<1>2. PICK n \in T : \A m \in T : m <= n
  <2>1. N + 1 \in Nat OBVIOUS
  <2> HIDE DEF T
  <2>. QED BY <1>1, <2>1, Highest
<1>3. PICK k \in S : n = k + 1 OBVIOUS
<1>4. \A m \in S : m + 1 <= n BY <1>2
<1>5. \A m \in S : k >= m BY <1>3, <1>4
<1>6. Max(S) \in S /\ \A m \in S : Max(S) >= m BY <1>5 DEF Max
<1>. QED BY <1>6

LEMMA MinMax ==
  ASSUME NEW S \in SUBSET Ids
  PROVE  /\ MaxOr0(S) \in Nat /\ MinOr0(S) \in Nat
         /\ S = {} => MaxOr0(S) = 0 /\ MinOr0(S) = 0
         /\ S # {} => MaxOr0(S) \in S /\ MinOr0(S) \in S
         /\ \A c \in S : c <= MaxOr0(S) /\ MinOr0(S) <= c
<1>1. CASE S = {} BY <1>1 DEF MaxOr0, MinOr0
<1>2. CASE S # {}
  <2>1. S \in SUBSET (0..MaxId) /\ S \in SUBSET (1..MaxId) /\ MaxId \in Nat BY IdsAre
  <2>2. Max(S) \in S /\ \A c \in S : c <= Max(S) BY <1>2, <2>1, MaxIn
  <2>3. PICK n \in S : \A m \in S : n <= m BY <1>2, <2>1, Lowest
  <2>4. Min(S) \in S /\ \A c \in S : Min(S) <= c BY <2>3 DEF Min
  <2>. QED BY <1>2, <2>2, <2>4, IdsAre DEF MaxOr0, MinOr0
<1>. QED BY <1>1, <1>2

(* The newest few: whatever is left out is older than all of them. *)
LEMMA NewestIs ==
  ASSUME NEW S \in SUBSET Ids, NEW n \in Nat \ {0}
  PROVE  /\ Newest(S, n) \subseteq S
         /\ S # {} => \E d \in Newest(S, n) : \A c \in S : c <= d
         /\ \A c \in S \ Newest(S, n), d \in Newest(S, n) : c < d
<1> DEFINE Above(i) == {j \in S : j > i}
<1>0. /\ S \subseteq Nat /\ IsFiniteSet(S)
      /\ \A i \in S : IsFiniteSet(Above(i)) /\ Cardinality(Above(i)) \in Nat
  <2>1. S \subseteq Nat /\ IsFiniteSet(S) BY IdsAre, FS_Subset
  <2>2. \A i \in S : Above(i) \in SUBSET S OBVIOUS
  <2> HIDE DEF Above
  <2>3. \A i \in S : IsFiniteSet(Above(i)) BY <2>1, <2>2, FS_Subset
  <2>. QED BY <2>1, <2>3, FS_CardinalityType
<1>1. Newest(S, n) \subseteq S BY DEF Newest
<1>2. ASSUME S # {} PROVE \E d \in Newest(S, n) : \A c \in S : c <= d
  <2>1. S \in SUBSET (1..MaxId) /\ MaxId \in Nat BY IdsAre
  <2>2. PICK d \in S : \A c \in S : c <= d BY <1>2, <2>1, Highest
  <2>3. Above(d) = {}
    <3>1. \A c \in S : c \in Nat /\ d \in Nat /\ c <= d BY <1>0, <2>2
    <3>2. \A c \in S : ~(c > d) BY <3>1
    <3>. QED BY <3>2
  <2>4. Cardinality(Above(d)) < n BY <2>3, FS_EmptySet
  <2>. QED BY <2>2, <2>4 DEF Newest
<1>3. ASSUME NEW c \in S \ Newest(S, n), NEW d \in Newest(S, n), ~(c < d) PROVE FALSE
  <2>1. d \in S /\ Cardinality(Above(d)) < n BY <1>3 DEF Newest
  <2>2. ~(Cardinality(Above(c)) < n) BY <1>3 DEF Newest
  <2>3. Above(c) \in SUBSET Above(d)
    <3>1. c \in Nat /\ d \in Nat /\ d <= c BY <1>0, <1>3, <2>1
    <3>2. \A j \in S : j > c => j > d BY <1>0, <3>1
    <3>. QED BY <3>2
  <2> HIDE DEF Above
  <2>4. Cardinality(Above(c)) <= Cardinality(Above(d)) BY <1>0, <2>1, <2>3, FS_Subset
  <2>. QED BY <1>0, <1>3, <2>1, <2>2, <2>4
<1>. QED BY <1>1, <1>2, <1>3

(* The newest few with the cursor that goes on from them. *)
LEMMA PageIs ==
  ASSUME NEW S \in SUBSET Ids, NEW n \in Nat \ {0}
  PROVE  LET page == Newest(S, n) IN
         /\ page \subseteq S /\ MinOr0(page) \in Nat
         /\ MinOr0(page) # 0 => MinOr0(page) \in page
         /\ \A c \in S : \E d \in page : c <= d
         /\ \A c \in S \ page : MinOr0(page) # 0 /\ c < MinOr0(page)
<1> DEFINE page == Newest(S, n)
<1>1. page \subseteq S /\ page \in SUBSET Ids BY NewestIs
<1>2. \A c \in S : \E d \in page : c <= d BY NewestIs
<1>3. \A c \in S \ page, d \in page : c < d BY NewestIs
<1> HIDE DEF page
<1>4. MinOr0(page) \in Nat /\ (MinOr0(page) # 0 => MinOr0(page) \in page)
  BY <1>1, MinMax
<1>5. ASSUME NEW c \in S \ page PROVE MinOr0(page) # 0 /\ c < MinOr0(page)
  <2>1. page # {} BY <1>2
  <2>2. MinOr0(page) \in page BY <1>1, <2>1, MinMax
  <2>3. MinOr0(page) \in Ids BY <1>1, <2>2
  <2>. QED BY <1>3, <2>2, <2>3, IdsAre
<1>. QED BY <1>1, <1>2, <1>4, <1>5 DEF page

LEMMA TableFacts ==
  ASSUME Table
  PROVE  /\ Stored \subseteq Ids /\ Stored \subseteq Handed
         /\ \A c \in Stored : rows[c] = 0 => Home(rows, c) = 0
         /\ \A c \in Stored : rows[c] # 0 => Home(rows, c) = RootOf(c) /\ RootOf(c) \in Roots
         /\ \A c \in Stored : RootOf(c) \in Roots /\ (RootOf(c) = c <=> rows[c] = 0)
         /\ \A r \in Roots : Thread(r) = {c \in Stored : Home(rows, c) = r}
         /\ Roots \subseteq Stored /\ 0 \notin Ids
<1>0. Stored \subseteq Ids /\ Stored \subseteq Handed /\ 0 \notin Ids
  BY IdsAre DEF Table, Handed
<1>1. \A c : RootOf(c) = RootIn(rows, c) BY DEF RootOf, RootIn, Stored
<1>2. \A c \in Stored : RootOf(c) \in Roots /\ (RootOf(c) = c <=> rows[c] = 0)
  BY <1>1, RootsAreRoots DEF Table, Stored, Roots
<1>3. \A c \in Stored : Home(rows, c) = IF rows[c] = 0 THEN 0 ELSE RootOf(c)
  BY <1>1 DEF Home
<1>4. ASSUME NEW r \in Roots PROVE Thread(r) = {c \in Stored : Home(rows, c) = r}
  <2>1. r \in Stored /\ rows[r] = 0 /\ r # 0 BY <1>0 DEF Roots
  <2>2. ASSUME NEW c \in Stored PROVE (c # r /\ RootOf(c) = r) <=> Home(rows, c) = r
    <3>1. CASE rows[c] = 0 BY <1>2, <1>3, <2>1, <3>1
    <3>2. CASE rows[c] # 0
      <4>1. Home(rows, c) = RootOf(c) BY <1>3, <3>2
      <4>2. c # r BY <2>1, <3>2
      <4>. QED BY <4>1, <4>2
    <3>. QED BY <3>1, <3>2
  <2>. QED BY <2>2 DEF Thread
<1>5. Roots \subseteq Stored BY DEF Roots
<1>. QED BY <1>0, <1>2, <1>3, <1>4, <1>5

LEMMA ViewIs ==
  ASSUME Table, NEW r \in Roots, NEW extra \in SUBSET Thread(r)
  PROVE  ViewRight(View(r, extra)) /\ View(r, extra).root = r
<1> DEFINE page == Newest(Thread(r), Window)
           v == View(r, extra)
<1>1. /\ v.root = r /\ v.replies = page \cup extra /\ v.cursor = MinOr0(page)
      /\ v.more <=> Thread(r) # page
  BY DEF View
<1>2. r \in Stored /\ rows[r] = 0 /\ r \in Handed BY TableFacts DEF Roots
<1>3. Thread(r) = {c \in Stored : Home(rows, c) = r} /\ Thread(r) \in SUBSET Ids
      /\ Thread(r) \subseteq Handed
  BY TableFacts
<1>4. /\ page \subseteq Thread(r) /\ MinOr0(page) \in Nat
      /\ MinOr0(page) # 0 => MinOr0(page) \in page
      /\ \A c \in Thread(r) \ page : MinOr0(page) # 0 /\ c < MinOr0(page)
  BY <1>3, CommentsAssumption, PageIs
<1> HIDE DEF page, v
<1>5. v.more => v.cursor \in v.replies BY <1>1, <1>4
<1>. QED BY <1>1, <1>2, <1>3, <1>4, <1>5 DEF ViewRight, v

LEMMA BatchIs ==
  ASSUME Table, NEW before \in Nat
  PROVE  LET b == FindByGameId(before) IN
         /\ ViewsRight(b.views) /\ b.oldest \in Nat
         /\ before # 0 => b.oldest < before
         /\ \A c \in Roots : before = 0 \/ c < before =>
              (\E v \in b.views : v.root = c) \/ LeavesOlder(b, c)
         /\ \A v \in b.views : v.root \in Roots
         /\ b.oldest < nextId
         /\ CountRoots \in Nat /\ Cardinality(b.views) \in Nat
         /\ before = 0 => Cardinality(b.views) <= CountRoots
         /\ \A c \in Roots : before = 0 /\ (~\E v \in b.views : v.root = c) =>
              Cardinality(b.views) < CountRoots
<1> DEFINE older == {r \in Roots : before = 0 \/ r < before}
           page == Newest(older, PageSize)
           b == FindByGameId(before)
           rest == {r \in Roots : r < MinOr0(page)}
<1>1. /\ b.views = {View(r, {}) : r \in page} /\ b.oldest = MinOr0(page)
      /\ b.remaining = Cardinality(rest)
  BY DEF FindByGameId
<1>2. /\ Roots \in SUBSET Ids /\ older \in SUBSET Ids /\ older \subseteq Roots /\ Roots \subseteq Handed
      /\ rest \in SUBSET Ids /\ before = 0 => older = Roots
      /\ \A r \in older : before # 0 => r < before
  BY TableFacts
<1>3. /\ page \subseteq older /\ MinOr0(page) \in Nat
      /\ MinOr0(page) # 0 => MinOr0(page) \in page
      /\ \A c \in older \ page : MinOr0(page) # 0 /\ c < MinOr0(page)
  BY <1>2, CommentsAssumption, PageIs
<1>4. \A r \in page : ViewRight(View(r, {})) /\ View(r, {}).root = r
  BY <1>2, <1>3, ViewIs
<1>5. IsFiniteSet(Roots) /\ IsFiniteSet(rest) /\ IsFiniteSet(page)
  BY <1>2, <1>3, IdsAre, FS_Subset
<1>6. /\ Cardinality(Roots) \in Nat /\ Cardinality(rest) \in Nat
      /\ rest # {} => Cardinality(rest) > 0
  BY <1>5, FS_CardinalityType, FS_EmptySet
<1>7. IsFiniteSet(b.views) /\ Cardinality(b.views) <= Cardinality(page)
      /\ Cardinality(b.views) \in Nat
  <2> DEFINE f == [r \in page |-> View(r, {})]
  <2>1. f \in Surjection(page, b.views) BY <1>1 DEF Surjection
  <2> HIDE DEF f, page, b
  <2>2. IsFiniteSet(b.views) /\ Cardinality(b.views) <= Cardinality(page)
    BY <1>5, <2>1, FS_Surjection
  <2>. QED BY <2>2, FS_CardinalityType
<1> HIDE DEF page, older, rest, b
<1>8. page \in SUBSET Roots BY <1>2, <1>3
<1>9. Cardinality(page) <= Cardinality(Roots) /\ Cardinality(page) \in Nat
      /\ (Cardinality(page) = Cardinality(Roots) => page = Roots)
  BY <1>5, <1>8, FS_Subset, FS_CardinalityType
<1>10. ASSUME NEW c \in Roots, before = 0 \/ c < before, c \notin page PROVE LeavesOlder(b, c)
  <2>1. c \in older \ page BY <1>10 DEF older
  <2>2. c \in rest BY <1>3, <2>1 DEF rest
  <2>. QED BY <1>1, <1>3, <1>6, <2>1, <2>2 DEF LeavesOlder
<1>11. \A c \in page : \E v \in b.views : v.root = c BY <1>1, <1>4
<1>12. ViewsRight(b.views) /\ \A v \in b.views : v.root \in page BY <1>1, <1>4 DEF ViewsRight
<1>13. /\ before # 0 => b.oldest < before
       /\ b.oldest < nextId
  <2>1. nextId \in Nat /\ nextId > 0 BY IdsAre DEF Table
  <2>2. CASE MinOr0(page) = 0 BY <1>1, <2>1, <2>2
  <2>3. CASE MinOr0(page) # 0
    <3>1. MinOr0(page) \in older BY <1>3, <2>3
    <3>. QED BY <1>1, <1>2, <3>1 DEF Handed
  <2>. QED BY <2>2, <2>3
<1>14. ASSUME NEW c \in Roots, before = 0, ~\E v \in b.views : v.root = c
       PROVE  Cardinality(b.views) < CountRoots
  <2>1. page # Roots BY <1>11, <1>14
  <2>. QED BY <1>6, <1>7, <1>9, <2>1 DEF CountRoots
<1>15. \A c \in Roots : before = 0 \/ c < before =>
              (\E v \in b.views : v.root = c) \/ LeavesOlder(b, c)
  BY <1>10, <1>11
<1>. QED BY <1>1, <1>3, <1>6, <1>7, <1>8, <1>9, <1>12, <1>13, <1>14, <1>15 DEF CountRoots, b

LEMMA RepliesIs ==
  ASSUME Table, NEW r \in Roots, NEW before \in Nat, NEW after \in Nat
  PROVE  LET b == FindReplies(r, before, after) IN
         /\ b.page \subseteq Thread(r) /\ b.oldest \in Nat
         /\ b.oldest # 0 => b.oldest < before
         /\ \A c \in Thread(r) : after < c /\ c < before =>
              c \in b.page \/ LeavesOlder(b, c)
<1> DEFINE range == {i \in Thread(r) : i < before /\ i > after}
           page == Newest(range, Window)
           b == FindReplies(r, before, after)
<1>1. /\ b.page = page /\ b.oldest = MinOr0(page)
      /\ b.remaining = Cardinality(range) - Cardinality(page)
  BY DEF FindReplies
<1>2. Thread(r) \subseteq Ids /\ range \in SUBSET Ids /\ range \subseteq Thread(r)
      /\ \A i \in range : i < before
  BY TableFacts
<1>3. /\ page \subseteq range /\ MinOr0(page) \in Nat
      /\ MinOr0(page) # 0 => MinOr0(page) \in page
      /\ \A c \in range \ page : MinOr0(page) # 0 /\ c < MinOr0(page)
  BY <1>2, CommentsAssumption, PageIs
<1> HIDE DEF page, b
<1>4. \A i \in Thread(r) : i < before /\ after < i => i \in range BY <1>2, IdsAre
<1> HIDE DEF range
<1>5. IsFiniteSet(range) BY <1>2, IdsAre, FS_Subset
<1>6. /\ IsFiniteSet(page) /\ Cardinality(page) <= Cardinality(range)
      /\ Cardinality(range) = Cardinality(page) => range = page
      /\ Cardinality(range) \in Nat /\ Cardinality(page) \in Nat
  <2>1. page \in SUBSET range BY <1>3
  <2>. QED BY <1>5, <2>1, FS_Subset, FS_CardinalityType
<1>7. ASSUME NEW c \in Thread(r), after < c, c < before, c \notin page PROVE LeavesOlder(b, c)
  <2>1. c \in range \ page BY <1>4, <1>7
  <2>2. range # page BY <2>1
  <2>. QED BY <1>1, <1>3, <1>6, <2>1, <2>2 DEF LeavesOlder
<1>. QED BY <1>1, <1>2, <1>3, <1>7 DEF b

----------------------------------------------------------------------------
(* What a step that touches one part leaves of the others *)

LEMMA GrowsKeeps ==
  ASSUME Table, Grows
  PROVE  /\ nextId \in Nat /\ \A c \in Ids : c \in Nat /\ c # 0
         /\ \A c \in Handed : c \in Ids /\ c \in Nat /\ c < nextId /\ c \in Handed'
         /\ \A c \in Stored' : c \in Handed' /\ c \in Nat
         /\ \A c \in Stored' : c < nextId => c \in Handed
         /\ \A c \in Stored' \cap Handed : /\ c \in Stored /\ rows'[c] = rows[c]
                                           /\ Home(rows', c) = Home(rows, c)
         /\ Stored \subseteq Handed /\ Ids' = Ids
         /\ Roots' \cap Handed \subseteq Roots
<1>1. nextId \in Nat /\ \A c \in Ids : c \in Nat /\ c # 0 BY IdsAre DEF Table
<1>2. Ids' = Ids BY DEF Ids
<1>3. \A c \in Stored' : c \in Handed' /\ c \in Ids BY <1>2 DEF Grows, Table, Handed
<1>4. \A c \in Handed : c \in Ids /\ c \in Nat /\ c < nextId /\ c \in Handed'
  BY <1>1 DEF Grows, Handed
<1>5. \A c \in Stored' \cap Handed : c \in Stored /\ rows'[c] = rows[c] /\ Home(rows', c) = Home(rows, c)
  BY <1>1, <1>4 DEF Grows
<1>6. Stored \subseteq Handed BY DEF Table
<1>7. \A c \in Stored' : c < nextId => c \in Handed BY <1>3 DEF Handed
<1>8. Roots' \cap Handed \subseteq Roots BY <1>5 DEF Roots
<1>. QED BY <1>1, <1>2, <1>3, <1>4, <1>5, <1>6, <1>7, <1>8

LEMMA AnswerStays ==
  ASSUME Table, Grows, RootsReach, PagersRight, NEW a, AnswerRight(a),
         a.kind = "batch" => rootMore' = rootMore /\ rootCursor' = rootCursor,
         \A p \in pagers :
           a.kind = "replies" /\ p.root = a.root /\ p.after = a.after => p \in pagers'
  PROVE  AnswerRight(a)'
<1>1. ASSUME a.kind = "batch", BatchRight(a) PROVE BatchRight(a)'
  <2>1. ViewsRight(a.batch.views)' BY <1>1, StillRight DEF BatchRight
  <2>2. \A c \in Roots' : c < rootCursor => c \in Roots
    <3>1. rootCursor \in Nat /\ rootCursor < nextId BY DEF RootsReach
    <3>2. ASSUME NEW c \in Roots', c < rootCursor PROVE c \in Roots
      <4>1. c \in Stored' BY DEF Roots
      <4>2. c \in Nat /\ nextId \in Nat BY <4>1, GrowsKeeps
      <4>3. c \in Handed BY <3>1, <3>2, <4>1, <4>2, GrowsKeeps
      <4>. QED BY <4>3, GrowsKeeps
    <3>. QED BY <3>2
  <2>3. rootMore' = rootMore /\ rootCursor' = rootCursor BY <1>1
  <2>. QED BY <1>1, <2>1, <2>2, <2>3 DEF BatchRight, LeavesOlder
<1>2. ASSUME a.kind = "replies", RepliesRight(a) PROVE RepliesRight(a)'
  <2>1. PICK p \in pagers :
    /\ p.root = a.root /\ p.after = a.after /\ p.open
    /\ a.batch.page \subseteq Handed /\ a.batch.oldest \in Nat
    /\ a.batch.oldest # 0 => a.batch.oldest < p.before
    /\ \A c \in a.batch.page \cap Stored : Home(rows, c) = a.root
    /\ \A c \in Stored : Home(rows, c) = a.root /\ p.after < c /\ c < p.before =>
         c \in a.batch.page \/ LeavesOlder(a.batch, c)
    BY <1>2 DEF RepliesRight
  <2>2. p \in pagers' BY <1>2, <2>1
  <2>3. a.batch.page \subseteq Handed' BY <2>1, GrowsKeeps
  <2>4. \A c \in a.batch.page \cap Stored' : Home(rows', c) = a.root BY <2>1, GrowsKeeps
  <2>5. ASSUME NEW c \in Stored', Home(rows', c) = a.root, p.after < c, c < p.before
        PROVE  c \in a.batch.page \/ LeavesOlder(a.batch, c)
    <3>1. p.before \in Nat /\ p.before < nextId /\ c \in Nat /\ nextId \in Nat
      BY GrowsKeeps DEF PagersRight
    <3>2. c \in Handed BY <2>5, <3>1, GrowsKeeps
    <3>3. c \in Stored /\ Home(rows, c) = a.root BY <2>5, <3>2, GrowsKeeps
    <3>. QED BY <2>1, <2>5, <3>3
  <2>. QED BY <2>1, <2>2, <2>3, <2>4, <2>5 DEF RepliesRight, LeavesOlder
<1>3. \A v : ViewRight(v) => ViewRight(v)' BY StillRight
<1>. QED BY <1>1, <1>2, <1>3 DEF AnswerRight

LEMMA AnswersStay ==
  ASSUME Table, Grows, RootsReach, PagersRight, AnswersRight, answers' \subseteq answers,
         \A a \in answers' : a.kind = "batch" => rootMore' = rootMore /\ rootCursor' = rootCursor,
         \A a \in answers', p \in pagers :
           a.kind = "replies" /\ p.root = a.root /\ p.after = a.after => p \in pagers'
  PROVE  AnswersRight'
<1>1. \A a \in answers' : AnswerRight(a)' BY AnswerStays DEF AnswersRight
<1>. QED BY <1>1 DEF AnswersRight, Asked

(* The parent of an answer stays on the page. *)
GoesOnShowing == OnPage \subseteq OnPage' /\ \A c \in OnPage : shown'[c] = shown[c]

LEMMA FormStays ==
  ASSUME Table, Grows, FormRight, GoesOnShowing, reply' \in {reply, 0}, post' \in {post, NoPost}
  PROVE  FormRight'
<1>1. \A r : Answerable(r) => Answerable(r)' BY DEF GoesOnShowing, Answerable, OnPage
<1>2. Answerable(0)' BY DEF Answerable
<1>3. NoPost \in [stage : {"none", "sent", "stored"}, parent : Ids \cup {0},
                  moved : BOOLEAN, id : Ids \cup {0}]
      /\ NoPost.stage = "none" /\ NoPost.parent = 0
  BY DEF NoPost
<1>4. Ids' = Ids BY DEF Ids
<1>5. CASE post' = post
  <2>1. post.stage = "stored" => post.id \in Handed' /\
           (post.id \in Stored' => Home(rows', post.id) = post.parent)
    BY GrowsKeeps DEF FormRight
  <2>. QED BY <1>1, <1>2, <1>4, <1>5, <2>1 DEF FormRight
<1>6. CASE post' = NoPost BY <1>1, <1>2, <1>3, <1>4, <1>6 DEF FormRight
<1>. QED BY <1>5, <1>6

LEMMA ShownStays ==
  ASSUME Table, Grows, ShownRight, shown' = shown
  PROVE  ShownRight' /\ GoesOnShowing
<1>1. PlacesRight(shown)' BY StillRight DEF ShownRight, PlacesRight
<1>. QED BY <1>1 DEF ShownRight, GoesOnShowing, OnPage

LEMMA ThreadsStay ==
  ASSUME Table, Grows, ThreadsReach, NewestRight, ShownRight, PagersRight, shown' = shown,
         UNCHANGED <<pagers, newest, opened, given>>
  PROVE  PagersRight' /\ NewestRight' /\ ThreadsReach'
<1>1. OnPage' = OnPage /\ Ids' = Ids /\ (\A r : Children(r)' = Children(r))
      /\ \A r : PagersOf(r)' = PagersOf(r)
  BY DEF OnPage, Children, Ids, PagersOf
<1>2. \A r \in Ids \cup {0} : given[r] < nextId'
  BY IdsAre DEF NewestRight, Grows, Table
<1>3. PagersRight'
  <2>1. \A p \in pagers : p.before < nextId'
    BY IdsAre DEF PagersRight, Grows, Table
  <2>. QED BY <1>1, <2>1 DEF PagersRight
<1>4. NewestRight' BY <1>1, <1>2 DEF NewestRight
<1>5. ThreadsReach'
  <2> SUFFICES ASSUME NEW r \in OnPage \ opened, NEW c \in Stored',
                      Home(rows', c) = r, c <= given[r]
               PROVE  c \in OnPage \/ \E p \in PagersOf(r) : p.open /\ p.after < c /\ c < p.before
    BY <1>1 DEF ThreadsReach
  <2>1. r \in Ids BY GrowsKeeps DEF ShownRight, PlacesRight, OnPage
  <2>2. given[r] \in Nat /\ given[r] < nextId BY <2>1 DEF NewestRight
  <2>3. c \in Handed BY <2>2, GrowsKeeps
  <2>4. c \in Stored /\ Home(rows, c) = r BY <2>3, GrowsKeeps
  <2>. QED BY <2>4 DEF ThreadsReach
<1>. QED BY <1>3, <1>4, <1>5

LEMMA RootsStay ==
  ASSUME Table, Grows, RootsReach, NewestRight, OnPage \subseteq OnPage', given'[0] = given[0],
         UNCHANGED <<rootCursor, rootMore, drifted>>, load' = "shown" => load = "shown"
  PROVE  RootsReach'
<1>1. given[0] \in Nat /\ given[0] < nextId BY DEF NewestRight
<1>2. \A c \in Roots' : c <= given[0] => c \in Roots
  <2>1. \A c \in Roots' : c \in Stored' BY DEF Roots
  <2>. QED BY <1>1, <2>1, GrowsKeeps
<1>3. rootCursor < nextId' BY IdsAre DEF RootsReach, Grows, Table
<1>. QED BY <1>2, <1>3 DEF RootsReach

----------------------------------------------------------------------------
(* What an answer adds to the page *)

LEMMA AddIs ==
  ASSUME NEW old, NEW more
  PROVE  /\ DOMAIN Add(old, more) = DOMAIN old \cup DOMAIN more
         /\ \A c \in DOMAIN old : Add(old, more)[c] = old[c]
         /\ \A c \in DOMAIN more \ DOMAIN old : Add(old, more)[c] = more[c]
  BY DEF Add

LEMMA ShownAdds ==
  ASSUME Table, Grows, ShownRight, NEW more, PlacesRight(more), shown' = Add(shown, more),
         \A c \in DOMAIN more : more[c] = 0 \/ more[c] \in OnPage \cup DOMAIN more
  PROVE  /\ ShownRight' /\ GoesOnShowing /\ OnPage' = OnPage \cup DOMAIN more
         /\ \A c \in OnPage' \ OnPage : shown'[c] = more[c]
<1>1. /\ OnPage' = OnPage \cup DOMAIN more
      /\ \A c \in OnPage : shown'[c] = shown[c]
      /\ \A c \in OnPage' \ OnPage : shown'[c] = more[c]
  <2>1. /\ DOMAIN shown' = OnPage \cup DOMAIN more
        /\ \A c \in OnPage : shown'[c] = shown[c]
        /\ \A c \in DOMAIN more \ OnPage : shown'[c] = more[c]
    <3>1. /\ DOMAIN Add(shown, more) = DOMAIN shown \cup DOMAIN more
          /\ \A c \in DOMAIN shown : Add(shown, more)[c] = shown[c]
          /\ \A c \in DOMAIN more \ DOMAIN shown : Add(shown, more)[c] = more[c]
      BY AddIs
    <3>. QED BY <3>1 DEF OnPage
  <2>2. OnPage' = DOMAIN shown' BY DEF OnPage
  <2>. QED BY <2>1, <2>2
<1>2. PlacesRight(shown') /\ PlacesRight(shown)
  BY <1>1 DEF PlacesRight, ShownRight, OnPage
<1>3. PlacesRight(shown)'
  <2>1. ASSUME NEW m, PlacesRight(m)
        PROVE  DOMAIN m \subseteq Handed' /\ \A c \in DOMAIN m \cap Stored' : m[c] = Home(rows', c)
    BY <2>1, GrowsKeeps DEF PlacesRight
  <2>. QED BY <1>2, <2>1 DEF PlacesRight
<1>4. \A c \in OnPage' : shown'[c] = 0 \/ shown'[c] \in OnPage' BY <1>1 DEF ShownRight
<1>. QED BY <1>1, <1>3, <1>4 DEF ShownRight, GoesOnShowing

LEMMA NodesAre ==
  ASSUME NEW views, ViewsRight(views)
  PROVE  /\ PlacesRight(Nodes(views))
         /\ \A v \in views : v.root \in DOMAIN Nodes(views) /\ v.replies \subseteq DOMAIN Nodes(views)
         /\ \A c \in DOMAIN Nodes(views) :
              Nodes(views)[c] = 0 \/ \E v \in views : v.root = Nodes(views)[c] /\ c \in v.replies
<1> DEFINE D == UNION {{v.root} \cup v.replies : v \in views}
           m == Nodes(views)
<1>1. DOMAIN m = D /\ \A c \in D : m[c] = IF \E v \in views : v.root = c THEN 0
                                          ELSE (CHOOSE v \in views : c \in v.replies).root
  BY DEF Nodes
<1>2. \A c \in D : \E v \in views : v.root = c \/ c \in v.replies OBVIOUS
<1>3. \A v \in views : v.root \in D /\ v.replies \subseteq D OBVIOUS
<1> HIDE DEF D, m
<1>4. ASSUME NEW c \in D
      PROVE  \/ m[c] = 0 /\ \E v \in views : v.root = c
             \/ \E v \in views : v.root = m[c] /\ c \in v.replies
  <2>1. CASE \E v \in views : v.root = c BY <1>1, <2>1
  <2>2. CASE ~\E v \in views : v.root = c
    <3>1. \E v \in views : c \in v.replies BY <1>2, <2>2
    <3>. QED BY <1>1, <2>2, <3>1
  <2>. QED BY <2>1, <2>2
<1>5. D \subseteq Handed BY <1>2 DEF ViewsRight, ViewRight
<1>6. ASSUME NEW c \in D \cap Stored PROVE m[c] = Home(rows, c)
  <2>1. CASE m[c] = 0 /\ \E v \in views : v.root = c
    BY <1>6, <2>1 DEF ViewsRight, ViewRight, Home
  <2>2. CASE \E v \in views : v.root = m[c] /\ c \in v.replies
    BY <1>6, <2>2 DEF ViewsRight, ViewRight
  <2>. QED BY <1>4, <2>1, <2>2
<1>. QED BY <1>1, <1>3, <1>4, <1>5, <1>6 DEF PlacesRight, m

(* Merging views of threads: the cursors of a thread and what the reads of *)
(* it have delivered move together.                                        *)
LEMMA Merges ==
  ASSUME Table, ShownRight, PagersRight, NewestRight, ThreadsReach,
         NEW views, ViewsRight(views), MergeNodes(views), UNCHANGED <<commentVars, opened>>
  PROVE  /\ ShownRight' /\ GoesOnShowing /\ PagersRight' /\ NewestRight' /\ ThreadsReach'
         /\ pagers \subseteq pagers' /\ given'[0] = given[0]
         /\ \A v \in views : v.root \in OnPage'
<1> DEFINE G(r) == {given[r]} \cup UNION {v.replies : v \in ViewsOn(views, r)}
<1>1. Grows BY StaysGrows
<1>2. /\ shown' = Add(shown, Nodes(views)) /\ pagers' = pagers \cup NewPagers(views)
      /\ newest' = [r \in Ids |-> IF ViewsOn(views, r) = {} THEN newest[r]
                                  ELSE MergedNewest(r, CHOOSE v \in views : v.root = r)]
      /\ given' = [r \in Ids \cup {0} |-> Max(G(r))]
  BY DEF MergeNodes
<1>3. /\ nextId \in Nat /\ nextId' = nextId /\ Stored' = Stored /\ rows' = rows /\ Ids' = Ids
      /\ \A c \in Ids : c \in Nat /\ c # 0 /\ c > 0
      /\ \A c \in Handed : c \in Ids /\ c < nextId
      /\ Handed \subseteq Ids /\ Stored \subseteq Ids /\ Handed' = Handed
  BY IdsAre DEF Table, commentVars, Stored, Handed, Ids
<1>4. \A v \in views : ViewRight(v) /\ v.root \in Ids /\ v.replies \subseteq Ids
  BY <1>3 DEF ViewsRight, ViewRight
<1>5. /\ ShownRight' /\ GoesOnShowing /\ OnPage \subseteq OnPage'
      /\ \A v \in views : v.root \in OnPage' /\ v.replies \subseteq OnPage'
      /\ \A c \in OnPage' \ OnPage :
           shown'[c] = 0 \/ \E v \in views : v.root = shown'[c] /\ c \in v.replies
  <2>1. \A c \in DOMAIN Nodes(views) : Nodes(views)[c] = 0 \/ Nodes(views)[c] \in DOMAIN Nodes(views)
    BY NodesAre
  <2>2. PlacesRight(Nodes(views)) BY NodesAre
  <2>3. /\ ShownRight' /\ GoesOnShowing /\ OnPage' = OnPage \cup DOMAIN Nodes(views)
        /\ \A c \in OnPage' \ OnPage : shown'[c] = Nodes(views)[c]
    BY <1>1, <1>2, <2>1, <2>2, ShownAdds
  <2>. QED BY <2>3, NodesAre
<1>6. \A r : /\ ViewsOn(views, r) = {} <=> ~\E v \in views : v.root = r
             /\ \A v \in views : v.root = r => ViewsOn(views, r) = {v}
  BY DEF ViewsOn, ViewsRight
(* what the reads have delivered *)
<1>7. ASSUME NEW r \in Ids \cup {0}
      PROVE  /\ given'[r] \in Nat /\ given[r] \in Nat /\ given[r] <= given'[r] /\ given'[r] < nextId
             /\ (~\E v \in views : v.root = r) => given'[r] = given[r]
             /\ \A v \in views : v.root = r =>
                  /\ \A c \in v.replies : c <= given'[r]
                  /\ given'[r] = given[r] \/ given'[r] \in v.replies
  <2>1. given[r] \in Nat /\ given[r] < nextId /\ given[r] \in 0..MaxId
    BY <1>3, IdsAre DEF NewestRight, Table
  <2>2. G(r) \in SUBSET (0..MaxId) /\ G(r) # {} /\ given[r] \in G(r)
    <3>1. \A v \in ViewsOn(views, r) : v.replies \subseteq 0..MaxId BY <1>4, IdsAre DEF ViewsOn
    <3>. QED BY <2>1, <3>1
  <2>3. Max(G(r)) \in G(r) /\ \A c \in G(r) : c <= Max(G(r))
    <3> HIDE DEF G
    <3>. QED BY <2>2, IdsAre, MaxIn
  <2>4. given'[r] = Max(G(r)) BY <1>2
  <2>5. \A v \in views : v.root = r => G(r) = {given[r]} \cup v.replies BY <1>6
  <2>6. (~\E v \in views : v.root = r) => G(r) = {given[r]} BY <1>6
  <2>7. \A c \in G(r) : c < nextId
    <3>1. \A v \in views : \A c \in v.replies : c < nextId BY <1>3, <1>4 DEF ViewRight
    <3>. QED BY <2>1, <3>1 DEF ViewsOn
  <2> HIDE DEF G
  <2>8. given'[r] \in G(r) /\ given'[r] \in Nat /\ \A c \in G(r) : c <= given'[r]
    BY <2>2, <2>3, <2>4
  <2>. QED BY <2>1, <2>2, <2>5, <2>6, <2>7, <2>8
(* data-newest-reply *)
<1>8. \A r \in Ids : /\ NewestReply(r) \in Nat
                     /\ r \notin opened => NewestReply(r) = given[r]
  <2>1. ASSUME NEW r \in Ids
        PROVE  NewestReply(r) \in Nat /\ (r \notin opened => NewestReply(r) = given[r])
    <3>1. Children(r) \in SUBSET Ids BY <1>3 DEF Children, ShownRight, PlacesRight, OnPage
    <3>2. MaxOr0(Children(r)) \in Nat /\ (Children(r) = {} => MaxOr0(Children(r)) = 0)
      BY <3>1, MinMax
    <3>. QED BY <3>2 DEF NewestReply, NewestRight
  <2>. QED BY <2>1
<1>9. ASSUME NEW v \in views
      PROVE  /\ newest'[v.root] = MergedNewest(v.root, v)
             /\ newest'[v.root] \in Nat \cup {Unset}
             /\ v.root \in opened \/ newest'[v.root] = given'[v.root]
                  \/ (newest'[v.root] = Unset /\ v.replies = {} /\ v.root \notin OnPage)
  <2> DEFINE r == v.root
  <2>1. newest'[r] = MergedNewest(r, v)
    <3>1. (CHOOSE w \in views : w.root = r) = v BY DEF ViewsRight
    <3>2. ViewsOn(views, r) # {} BY <1>6
    <3>. QED BY <1>2, <1>4, <3>1, <3>2
  <2>2. /\ r \in Ids /\ given'[r] \in Nat /\ given[r] \in Nat /\ given[r] <= given'[r]
        /\ \A c \in v.replies : c <= given'[r] /\ c \in Nat
        /\ given'[r] = given[r] \/ given'[r] \in v.replies
    BY <1>3, <1>4, <1>7
  <2>3. v.replies \in SUBSET Ids BY <1>4
  <2> HIDE DEF r
  <2>4. CASE r \in OnPage
    <3> DEFINE m == MaxOr0(v.replies)
               T == {NewestReply(r), m}
    <3>1. m \in Nat /\ (v.replies = {} => m = 0) /\ (v.replies # {} => m \in v.replies)
          /\ \A c \in v.replies : c <= m
      BY <2>3, MinMax
    <3>2. newest'[r] = Max(T) BY <2>1, <2>4 DEF MergedNewest
    <3>3. NewestReply(r) \in Nat BY <1>8, <2>2
    <3>4. Max(T) \in T /\ \A c \in T : c <= Max(T)
      <4> DEFINE n == NewestReply(r) + m
      <4>1. n \in Nat /\ T \in SUBSET (0..n) /\ T # {} BY <3>1, <3>3
      <4> HIDE DEF T, n
      <4>. QED BY <4>1, MaxIn
    <3> HIDE DEF m
    <3>5. newest'[r] \in Nat /\ newest'[r] \in {NewestReply(r), m}
          /\ NewestReply(r) <= newest'[r] /\ m <= newest'[r]
      BY <3>1, <3>2, <3>3, <3>4
    <3>6. ASSUME r \notin opened PROVE newest'[r] = given'[r]
      <4>1. NewestReply(r) = given[r] BY <1>8, <2>2, <3>6
      <4>2. newest'[r] <= given'[r]
        <5>1. m <= given'[r] BY <2>2, <3>1
        <5>. QED BY <2>2, <3>1, <3>5, <4>1, <5>1
      <4>3. given'[r] <= newest'[r] BY <2>2, <3>1, <3>5, <4>1
      <4>. QED BY <2>2, <3>5, <4>2, <4>3
    <3>. QED BY <2>1, <3>5, <3>6 DEF r
  <2>5. CASE r \notin OnPage
    <3>1. newest'[r] = EndOf(v) /\ given[r] = 0 BY <2>1, <2>2, <2>5 DEF MergedNewest, NewestRight
    <3>2. CASE v.replies = {} BY <2>1, <2>5, <3>1, <3>2 DEF EndOf, r
    <3>3. CASE v.replies # {}
      <4>1. newest'[r] = Max(v.replies) BY <3>1, <3>3 DEF EndOf
      <4>2. Max(v.replies) \in v.replies /\ \A c \in v.replies : c <= Max(v.replies)
        <5>1. v.replies \in SUBSET (0..MaxId) /\ MaxId \in Nat BY <2>3, IdsAre
        <5>. QED BY <3>3, <5>1, MaxIn
      <4>3. newest'[r] \in Nat /\ newest'[r] <= given'[r] /\ newest'[r] \in Ids BY <2>2, <2>3, <4>1, <4>2
      <4>4. newest'[r] > 0 BY <1>3, <4>3
      <4>5. given'[r] <= newest'[r] BY <2>2, <3>1, <4>1, <4>2, <4>3, <4>4
      <4>6. newest'[r] = given'[r] BY <2>2, <4>3, <4>5
      <4>. QED BY <2>1, <4>3, <4>6 DEF r
    <3>. QED BY <3>2, <3>3
  <2>. QED BY <2>4, <2>5
<1>10. NewestRight'
  <2>1. ASSUME NEW r \in Ids
        PROVE  /\ newest'[r] \in Nat \cup {Unset}
               /\ r \notin OnPage' => given'[r] = 0 /\ newest'[r] = Unset
               /\ r \notin opened =>
                    IF newest'[r] = Unset THEN Children(r)' = {} /\ given'[r] = 0
                    ELSE newest'[r] = given'[r]
    <3>0. Children(r)' = {c \in OnPage' : shown'[c] = r} BY DEF Children
    <3>1. CASE \E v \in views : v.root = r
      <4>1. PICK v \in views : v.root = r BY <3>1
      <4>2. newest'[r] \in Nat \cup {Unset} BY <1>9, <4>1
      <4>3. r \in OnPage' BY <1>5, <4>1
      <4>4. ASSUME r \notin opened, newest'[r] = Unset PROVE Children(r)' = {} /\ given'[r] = 0
        <5>1. given'[r] \in Nat /\ Unset \notin Nat BY <1>7 DEF Unset
        <5>2. v.replies = {} /\ r \notin OnPage BY <1>9, <4>1, <4>4, <5>1
        <5>3. given[r] = 0 BY <5>2 DEF NewestRight
        <5>4. given'[r] = 0 BY <1>7, <4>1, <5>2, <5>3
        <5>5. \A c \in OnPage : shown'[c] # r
          BY <1>3, <1>5, <5>2 DEF ShownRight, GoesOnShowing
        <5>6. \A c \in OnPage' \ OnPage : shown'[c] # r
          BY <1>3, <1>5, <4>1, <5>2 DEF ViewsRight
        <5>. QED BY <3>0, <5>4, <5>5, <5>6
      <4>5. ASSUME r \notin opened, newest'[r] # Unset PROVE newest'[r] = given'[r]
        BY <1>9, <4>1, <4>5
      <4>. QED BY <4>2, <4>3, <4>4, <4>5
    <3>2. CASE ~\E v \in views : v.root = r
      <4>1. newest'[r] = newest[r] /\ given'[r] = given[r]
        BY <1>2, <1>6, <1>7, <3>2
      <4>2. Children(r)' = Children(r)
        <5>1. \A c \in OnPage' \ OnPage : shown'[c] # r BY <1>3, <1>5, <3>2
        <5>2. \A c \in OnPage : shown'[c] = shown[c] /\ c \in OnPage' BY <1>5 DEF GoesOnShowing
        <5>. QED BY <3>0, <5>1, <5>2 DEF Children
      <4>3. newest[r] \in Nat \cup {Unset} /\ (r \notin OnPage => given[r] = 0 /\ newest[r] = Unset)
            /\ (r \notin opened => IF newest[r] = Unset THEN Children(r) = {} /\ given[r] = 0
                                   ELSE newest[r] = given[r])
        BY DEF NewestRight
      <4>. QED BY <1>5, <4>1, <4>2, <4>3
    <3>. QED BY <3>1, <3>2
  <2>2. newest' \in [Ids -> Nat \cup {Unset}] BY <1>2, <2>1
  <2>3. given' \in [Ids \cup {0} -> Nat] BY <1>2, <1>7
  <2>. QED BY <1>3, <1>7, <2>1, <2>2, <2>3 DEF NewestRight
(* the new buttons *)
<1> DEFINE Gap(v) == /\ v.root \in OnPage /\ PagersOf(v.root) # {}
                     /\ NewestReply(v.root) > 0 /\ v.cursor > NewestReply(v.root)
           Button(v) == [root |-> v.root, after |-> IF Gap(v) THEN NewestReply(v.root) ELSE 0,
                         before |-> v.cursor, open |-> TRUE]
<1>11. \A v : IncomingPager(v) = Button(v)
  <2>1. ASSUME NEW r, NEW b, NEW o, NEW a
        PROVE  [[root |-> r, after |-> 0, before |-> b, open |-> o] EXCEPT !.after = a]
                 = [root |-> r, after |-> a, before |-> b, open |-> o]
    OBVIOUS
  <2>. QED BY <2>1 DEF IncomingPager, PagerOf
<1>12. \A p : p \in NewPagers(views) <=>
         /\ \E v \in views : v.more /\ p = Button(v)
         /\ ~\E q \in PagersOf(p.root) : q.after = p.after
  <2> HIDE DEF Button
  <2>. QED BY <1>11 DEF NewPagers
<1>13. ASSUME NEW v \in views, v.more
       PROVE  /\ v.root \in Ids /\ v.root \in OnPage' /\ v.cursor \in Nat /\ v.cursor > 0
              /\ v.cursor \in v.replies /\ v.cursor < nextId /\ v.cursor <= given'[v.root]
  <2>1. v.cursor \in v.replies /\ v.cursor \in Ids BY <1>4, <1>13 DEF ViewRight
  <2>. QED BY <1>3, <1>4, <1>5, <1>7, <1>13, <2>1 DEF ViewRight
<1>14. PagersRight'
  <2>1. ASSUME NEW p \in NewPagers(views)
        PROVE  /\ p \in [root : OnPage', after : Nat, before : Nat, open : BOOLEAN]
               /\ p.before < nextId
               /\ p.root \in opened \/ p.after < given'[p.root]
    <3>1. PICK v \in views : v.more /\ p = Button(v) BY <1>12
    <3>2. NewestReply(v.root) \in Nat BY <1>8, <1>13, <3>1
    <3>3. given'[v.root] \in Nat BY <1>7, <1>13, <3>1
    <3>. QED BY <1>13, <3>1, <3>2, <3>3
  <2>2. ASSUME NEW p \in NewPagers(views), NEW q \in NewPagers(views), p.root = q.root
        PROVE  p = q
    <3>1. PICK v \in views : p = Button(v) BY <1>12
    <3>2. PICK w \in views : q = Button(w) BY <1>12
    <3>3. v.root = w.root BY <2>2, <3>1, <3>2
    <3>4. v = w BY <3>3 DEF ViewsRight
    <3>. QED BY <3>1, <3>2, <3>4
  <2>3. \A p \in NewPagers(views), q \in pagers : ~(p.root = q.root /\ p.after = q.after)
    BY <1>12 DEF PagersOf
  <2>4. \A p \in pagers : /\ p \in [root : OnPage', after : Nat, before : Nat, open : BOOLEAN]
                          /\ p.before < nextId
    BY <1>5 DEF PagersRight
  <2>5. \A p \in pagers : p.root \in opened \/ p.after < given'[p.root]
    <3>1. ASSUME NEW p \in pagers, p.root \notin opened PROVE p.after < given'[p.root]
      <4>1. p.root \in Ids /\ p.after \in Nat /\ p.after < given[p.root]
        BY <1>3, <3>1 DEF PagersRight, ShownRight, PlacesRight, OnPage
      <4>. QED BY <1>7, <4>1
    <3>. QED BY <3>1
  <2>6. \A p, q \in pagers' : p.root = q.root /\ p.after = q.after => p = q
    BY <1>2, <2>2, <2>3 DEF PagersRight
  <2>7. \A p \in pagers' : /\ p \in [root : OnPage', after : Nat, before : Nat, open : BOOLEAN]
                           /\ p.before < nextId
    BY <1>2, <2>1, <2>4
  <2>8. \A p \in pagers' : p.root \in opened \/ p.after < given'[p.root] BY <1>2, <2>1, <2>5
  <2>. QED BY <1>3, <2>6, <2>7, <2>8 DEF PagersRight
<1>15. ThreadsReach'
  <2> SUFFICES ASSUME NEW r \in OnPage', r \notin opened, NEW c \in Stored,
                      Home(rows, c) = r, c <= given'[r], c \notin OnPage'
               PROVE  \E p \in pagers' : p.root = r /\ p.open /\ p.after < c /\ c < p.before
    BY <1>3 DEF ThreadsReach, PagersOf
  <2>0. r \in Ids /\ c \in Nat /\ c > 0 /\ given[r] \in Nat
    BY <1>3, <1>5, <1>7 DEF ShownRight, PlacesRight, OnPage
  <2>1. CASE c <= given[r]
    <3>1. r \in OnPage BY <2>0, <2>1 DEF NewestRight
    <3>2. c \notin OnPage BY <1>5
    <3>. QED BY <1>2, <2>1, <3>1, <3>2 DEF ThreadsReach, PagersOf
  <2>2. CASE ~(c <= given[r])
    <3>1. PICK v \in views : v.root = r BY <1>7, <2>0, <2>2
    <3>2. given'[r] \in v.replies BY <1>7, <2>0, <2>2, <3>1
    <3>3. c \notin v.replies BY <1>5
    <3>4. v.more /\ c < v.cursor BY <1>4, <3>1, <3>2, <3>3 DEF ViewRight
    <3>5. NewestReply(r) = given[r] BY <1>8, <2>0
    <3>6. v.cursor \in Nat BY <3>1, <3>4, <1>13
    <3>7. Button(v).after < c BY <2>0, <2>2, <3>1, <3>5
    <3>8. Button(v) \in NewPagers(views)
      <4> SUFFICES ASSUME NEW q \in PagersOf(r), q.after = Button(v).after PROVE FALSE
        BY <1>12, <3>1, <3>4
      <4>1. q \in pagers /\ q.root = r /\ r \in OnPage /\ q.after \in Nat /\ q.after < given[r]
        BY DEF PagersOf, PagersRight
      <4>2. given[r] > 0 BY <2>0, <4>1
      <4>3. CASE Gap(v) BY <2>0, <3>1, <3>5, <4>1, <4>3
      <4>4. CASE ~Gap(v)
        <5>1. ~(v.cursor > given[r]) BY <3>1, <3>5, <4>1, <4>2, <4>4
        <5>. QED BY <2>0, <2>2, <3>4, <3>6, <5>1
      <4>. QED BY <4>3, <4>4
    <3>. QED BY <1>2, <3>1, <3>4, <3>7, <3>8
  <2>. QED BY <2>1, <2>2
<1>16. pagers \subseteq pagers' BY <1>2
<1>17. given'[0] = given[0]
  <2>1. ~\E v \in views : v.root = 0 BY <1>3, <1>4
  <2>. QED BY <1>7, <2>1
<1>. QED BY <1>5, <1>10, <1>14, <1>15, <1>16, <1>17
----------------------------------------------------------------------------
(* Every step keeps the invariant. *)

LEMMA PartsStay ==
  ASSUME PageInv, Grows, load' = "shown" => load = "shown",
         UNCHANGED <<shown, rootCursor, rootMore, newest, pagers, given, drifted, opened>>
  PROVE  /\ Table' /\ ShownRight' /\ GoesOnShowing /\ PagersRight' /\ NewestRight'
         /\ ThreadsReach' /\ RootsReach'
<1>1. Table' BY DEF Grows
<1>2. ShownRight' /\ GoesOnShowing BY ShownStays DEF PageInv
<1>3. PagersRight' /\ NewestRight' /\ ThreadsReach' BY ThreadsStay DEF PageInv
<1>4. OnPage \subseteq OnPage' /\ given'[0] = given[0] BY <1>2 DEF GoesOnShowing
<1>5. RootsReach' BY <1>4, RootsStay DEF PageInv
<1>. QED BY <1>1, <1>2, <1>3, <1>5

(* The steps that leave the page as it is: others post and delete, answers *)
(* are lost, the reader's own post fails.                                  *)
LEMMA Quiet ==
  ASSUME PageInv, Grows, load' = "shown" <=> load = "shown",
         UNCHANGED <<shown, rootCursor, rootMore, newest, pagers, given, drifted, opened>>,
         answers' \subseteq answers, reply' \in {reply, 0}, post' \in {post, NoPost}
  PROVE  PageInv'
<1>1. /\ Table' /\ ShownRight' /\ GoesOnShowing /\ PagersRight' /\ NewestRight'
      /\ ThreadsReach' /\ RootsReach'
  BY PartsStay
<1>2. FormRight' BY <1>1, FormStays DEF PageInv
<1>3. AnswersRight' BY AnswersStay DEF PageInv
<1>4. Blank' BY DEF PageInv, Blank, OnPage, Ids
<1>. QED BY <1>1, <1>2, <1>3, <1>4 DEF PageInv

LEMMA QuietSteps ==
  ASSUME PageInv,
         \/ Count \/ (\E a \in answers : Fail(a)) \/ PostFails \/ OtherPosts \/ Moderation
         \/ UNCHANGED vars
  PROVE  PageInv'
<1>0. Table BY DEF PageInv
<1>1. CASE Count BY <1>0, <1>1, StaysGrows, Quiet DEF Count, history
<1>2. CASE \E a \in answers : Fail(a) BY <1>0, <1>2, StaysGrows, Quiet DEF Fail, history
<1>3. CASE PostFails BY <1>0, <1>3, StaysGrows, Quiet DEF PostFails, history
<1>4. CASE OtherPosts BY <1>0, <1>4, InsertGrows, Quiet DEF OtherPosts, pageVars
<1>5. CASE Moderation BY <1>0, <1>5, ModerateGrows, Quiet DEF Moderation, pageVars
<1>6. CASE UNCHANGED vars BY <1>0, <1>6, StaysGrows, Quiet DEF vars, pageVars
<1>. QED BY <1>1, <1>2, <1>3, <1>4, <1>5, <1>6

(* A request is answered from the comments of that moment. *)
LEMMA Asks ==
  ASSUME PageInv, NEW a, AnswerRight(a), answers' = answers \cup {a},
         a.kind = "batch" => Asked("batch") = {},
         a.kind = "replies" => ~\E b \in Asked("replies") : b.root = a.root /\ b.after = a.after,
         load = "shown",
         UNCHANGED <<commentVars, load, shown, rootCursor, rootMore, newest, pagers, reply, post,
                     given, drifted, opened>>
  PROVE  PageInv'
<1>1. Grows BY StaysGrows DEF PageInv
<1>2. /\ Table' /\ ShownRight' /\ GoesOnShowing /\ PagersRight' /\ NewestRight'
      /\ ThreadsReach' /\ RootsReach'
  BY <1>1, PartsStay
<1>3. FormRight' BY <1>1, <1>2, FormStays DEF PageInv
<1>4. AnswersRight'
  <2>1. ASSUME NEW b \in answers' PROVE AnswerRight(b)'
    <3>1. AnswerRight(b) BY DEF PageInv, AnswersRight
    <3>. QED BY <1>1, <3>1, AnswerStays DEF PageInv
  <2>2. \A b, c \in answers' : b.kind = "batch" /\ c.kind = "batch" => b = c
    BY DEF PageInv, AnswersRight, Asked
  <2>3. \A b, c \in answers' : b.kind = "replies" /\ c.kind = "replies" /\ b.root = c.root
                                 /\ b.after = c.after => b = c
    BY DEF PageInv, AnswersRight, Asked
  <2>. QED BY <2>1, <2>2, <2>3 DEF AnswersRight, Asked
<1>5. Blank' BY DEF Blank
<1>. QED BY <1>2, <1>3, <1>4, <1>5 DEF PageInv

LEMMA AskEarlierKeeps == PageInv /\ AskEarlier => PageInv'
<1> SUFFICES ASSUME PageInv, AskEarlier PROVE PageInv'
  OBVIOUS
<1> DEFINE b == FindByGameId(rootCursor)
           a == [kind |-> "batch", batch |-> b]
<1>1. rootMore /\ rootCursor # 0 /\ Asked("batch") = {} /\ Ask(a) BY DEF AskEarlier
<1>2. Table /\ rootCursor \in Nat BY DEF PageInv, RootsReach
<1>3. /\ ViewsRight(b.views) /\ b.oldest \in Nat /\ b.oldest < rootCursor
      /\ \A c \in Roots : c < rootCursor => (\E v \in b.views : v.root = c) \/ LeavesOlder(b, c)
  BY <1>1, <1>2, BatchIs
<1>4. a.kind = "batch" /\ a.batch = b OBVIOUS
<1> HIDE DEF b, a
<1>5. AnswerRight(a) BY <1>1, <1>3, <1>4 DEF AnswerRight, BatchRight
<1>. QED BY <1>1, <1>4, <1>5, Asks DEF Ask, history

LEMMA AskRepliesKeeps == ASSUME PageInv, NEW p \in pagers, AskReplies(p) PROVE PageInv'
<1> DEFINE b == FindReplies(p.root, p.before, p.after)
           a == [kind |-> "replies", root |-> p.root, after |-> p.after, batch |-> b]
<1>1. /\ p.open /\ p.root \in Roots /\ Ask(a)
      /\ ~\E c \in Asked("replies") : c.root = p.root /\ c.after = p.after
  BY DEF AskReplies
<1>2. Table /\ p.before \in Nat /\ p.after \in Nat BY DEF PageInv, PagersRight
<1>3. /\ b.page \subseteq Thread(p.root) /\ b.oldest \in Nat
      /\ b.oldest # 0 => b.oldest < p.before
      /\ \A c \in Thread(p.root) : p.after < c /\ c < p.before => c \in b.page \/ LeavesOlder(b, c)
  BY <1>1, <1>2, RepliesIs
<1>4. a.kind = "replies" /\ a.root = p.root /\ a.after = p.after /\ a.batch = b OBVIOUS
<1> HIDE DEF b, a
<1>5. Thread(p.root) = {c \in Stored : Home(rows, c) = p.root} /\ Stored \subseteq Handed
  BY <1>1, <1>2, TableFacts
<1>6. RepliesRight(a) BY <1>1, <1>3, <1>4, <1>5 DEF RepliesRight
<1>7. AnswerRight(a) BY <1>4, <1>6 DEF AnswerRight
<1>. QED BY <1>1, <1>4, <1>7, Asks DEF Ask, history

LEMMA FollowLinkKeeps == ASSUME PageInv, NEW c \in Ids, FollowLink(c) PROVE PageInv'
<1>1. Grows BY StaysGrows DEF PageInv, FollowLink
<1>2. CASE answers' = answers BY <1>1, <1>2, Quiet DEF FollowLink, history
<1>3. CASE answers' # answers
  <2> DEFINE v == FindThreadByComment(c)
             a == [kind |-> "link", target |-> c, view |-> v]
  <2>1. answers' = answers \cup {a} /\ c \in Stored BY <1>3 DEF FollowLink
  <2>2. ViewRight(v)
    <3> DEFINE r == RootOf(c)
               extra == IF c = r THEN {} ELSE {c}
    <3>1. r \in Roots /\ (c # r => c \in Thread(r))
      BY <2>1, TableFacts DEF PageInv, Thread
    <3>2. extra \in SUBSET Thread(r) BY <3>1
    <3>3. v = View(r, extra) BY DEF FindThreadByComment
    <3> HIDE DEF v, r, extra
    <3>. QED BY <3>1, <3>2, <3>3, ViewIs DEF PageInv
  <2>3. a.kind = "link" /\ a.view = v OBVIOUS
  <2> HIDE DEF v, a
  <2>4. AnswerRight(a) BY <2>2, <2>3 DEF AnswerRight
  <2>. QED BY <2>1, <2>3, <2>4, Asks DEF FollowLink, history
<1>. QED BY <1>2, <1>3
(* The form: moving it, submitting it, and the row that is stored. *)
LEMMA FormSteps ==
  ASSUME PageInv, Grows, FormRight', load = "shown",
         UNCHANGED <<load, shown, rootCursor, rootMore, newest, pagers, given, drifted, opened, answers>>
  PROVE  PageInv'
<1>1. /\ Table' /\ ShownRight' /\ GoesOnShowing /\ PagersRight' /\ NewestRight'
      /\ ThreadsReach' /\ RootsReach'
  BY PartsStay
<1>2. AnswersRight' BY AnswersStay DEF PageInv
<1>3. Blank' BY DEF Blank
<1>. QED BY <1>1, <1>2, <1>3 DEF PageInv

LEMMA MoveFormKeeps == ASSUME PageInv, NEW r \in Ids \cup {0}, MoveForm(r) PROVE PageInv'
<1>1. Grows BY StaysGrows DEF PageInv, MoveForm
<1>2. FormRight'
  <2>1. /\ post' \in [stage : {"none", "sent", "stored"}, parent : Ids \cup {0},
                      moved : BOOLEAN, id : Ids \cup {0}]
        /\ post'.stage = post.stage /\ post'.parent = post.parent /\ post'.id = post.id
    BY DEF MoveForm, PageInv, FormRight
  <2>2. Answerable(r)' BY DEF MoveForm, Answerable, ShownRoots, OnPage
  <2>3. Answerable(post.parent)' BY <2>1 DEF MoveForm, PageInv, FormRight, Answerable, OnPage
  <2>4. rows' = rows /\ Handed' = Handed /\ Ids' = Ids /\ Stored' = Stored
    BY DEF MoveForm, commentVars, Handed, Ids, Stored
  <2>5. reply' = r BY DEF MoveForm
  <2>. QED BY <2>1, <2>2, <2>3, <2>4, <2>5 DEF PageInv, FormRight, Answerable
<1>. QED BY <1>1, <1>2, FormSteps DEF MoveForm, history

LEMMA SubmitKeeps == PageInv /\ Submit => PageInv'
<1> SUFFICES ASSUME PageInv, Submit PROVE PageInv'
  OBVIOUS
<1>1. Grows BY StaysGrows DEF PageInv, Submit
<1>2. FormRight'
  <2>1. reply \in Ids \cup {0} /\ Answerable(reply)
    BY DEF PageInv, FormRight, Answerable, ShownRight, PlacesRight, OnPage, Handed
  <2>2. /\ post' \in [stage : {"none", "sent", "stored"}, parent : Ids \cup {0},
                      moved : BOOLEAN, id : Ids \cup {0}]
        /\ post'.stage = "sent" /\ post'.parent = reply /\ reply' = reply
    BY <2>1 DEF Submit
  <2>3. Answerable(reply') /\ shown' = shown /\ Ids' = Ids BY <2>1 DEF Submit, Ids
  <2>. QED BY <2>2, <2>3 DEF FormRight, Answerable, OnPage
<1>. QED BY <1>1, <1>2, FormSteps DEF Submit, history

LEMMA StoreKeeps == PageInv /\ Store => PageInv'
<1> SUFFICES ASSUME PageInv, Store PROVE PageInv'
  OBVIOUS
<1>1. /\ post.stage = "sent" /\ Insert(post.parent)
      /\ post' = [post EXCEPT !.stage = "stored", !.id = nextId]
      /\ UNCHANGED <<load, shown, rootCursor, rootMore, newest, pagers, given, drifted, opened, answers, reply>>
  BY DEF Store, history
<1>2. Grows /\ nextId \in Handed' /\ rows'[nextId] = post.parent /\ post.parent \in Stored \cup {0}
  BY <1>1, InsertGrows DEF PageInv
<1>3. load = "shown" BY <1>1 DEF PageInv, Blank, NoPost
<1>4. nextId \in Stored' /\ Tree(rows') BY <1>1, <1>2 DEF Insert, Stored, Grows, Table
<1>5. Home(rows', nextId) = post.parent
  <2>1. CASE post.parent = 0 BY <1>2, <2>1 DEF Home
  <2>2. CASE post.parent # 0
    <3>1. post.parent \in Stored /\ post.parent \in OnPage /\ shown[post.parent] = 0
      BY <1>2, <2>2 DEF PageInv, FormRight, Answerable
    <3>2. Home(rows, post.parent) = 0 BY <3>1 DEF PageInv, ShownRight, PlacesRight, OnPage
    <3>3. rows[post.parent] = 0
      <4>1. RootOf(post.parent) \in Ids /\ 0 \notin Ids BY <3>1, TableFacts DEF PageInv
      <4>. QED BY <3>1, <3>2, <4>1, TableFacts DEF PageInv
    <3>4. post.parent \in Stored' /\ rows'[post.parent] = 0
      <4>1. post.parent \in Stored' BY <1>1, <3>1 DEF Insert, Stored
      <4>2. post.parent \in Handed BY <3>1 DEF PageInv, Table
      <4>. QED BY <1>2, <3>3, <4>1, <4>2, GrowsKeeps DEF PageInv
    <3>5. RootIn(rows', post.parent) = post.parent BY <1>4, <3>4, RootIs DEF Stored
    <3>6. RootIn(rows', nextId) = RootIn(rows', post.parent) BY <1>2, <1>4, <2>2, RootIs DEF Stored
    <3>. QED BY <1>2, <2>2, <3>5, <3>6 DEF Home
  <2>. QED BY <2>1, <2>2
<1>6. FormRight'
  <2>1. /\ post' \in [stage : {"none", "sent", "stored"}, parent : Ids \cup {0},
                      moved : BOOLEAN, id : Ids \cup {0}]
        /\ post'.parent = post.parent /\ post'.id = nextId
    <3>1. nextId \in Ids BY <1>1 DEF Insert, CanInsert
    <3>. QED BY <1>1, <3>1 DEF PageInv, FormRight
  <2>2. Answerable(reply') /\ Answerable(post'.parent) BY <1>1, <2>1 DEF PageInv, FormRight
  <2>3. Ids' = Ids /\ shown' = shown BY <1>1 DEF Ids
  <2>. QED BY <1>2, <1>5, <2>1, <2>2, <2>3 DEF FormRight, Answerable, OnPage
<1>. QED BY <1>1, <1>2, <1>3, <1>6, FormSteps

(* Answers that land. *)
LEMMA EarlierLandsKeeps == ASSUME PageInv, NEW a \in answers, EarlierLands(a) PROVE PageInv'
<1>1. /\ a.kind = "batch" /\ answers' = answers \ {a} /\ MergeNodes(a.batch.views)
      /\ rootCursor' = IF a.batch.oldest = 0 THEN rootCursor ELSE a.batch.oldest
      /\ rootMore' = (a.batch.remaining > 0)
      /\ UNCHANGED <<commentVars, load, reply, post, drifted, opened>>
  BY DEF EarlierLands
<1>2. BatchRight(a) BY <1>1 DEF PageInv, AnswersRight, AnswerRight
<1>3. Grows BY <1>1, StaysGrows DEF PageInv
<1>4. load = "shown" BY DEF PageInv, Blank
<1>5. /\ ShownRight' /\ GoesOnShowing /\ PagersRight' /\ NewestRight' /\ ThreadsReach'
      /\ pagers \subseteq pagers' /\ given'[0] = given[0]
      /\ \A v \in a.batch.views : v.root \in OnPage'
  BY <1>1, <1>2, Merges DEF PageInv, BatchRight
<1>6. AnswersRight'
  <2>1. \A b \in answers' : b.kind # "batch" BY <1>1 DEF PageInv, AnswersRight, Asked
  <2>. QED BY <1>1, <1>3, <1>5, <2>1, AnswersStay DEF PageInv
<1>7. FormRight' BY <1>1, <1>3, <1>5, FormStays DEF PageInv
<1>8. RootsReach'
  <2>1. /\ a.batch.oldest \in Nat /\ a.batch.oldest < rootCursor /\ rootCursor \in Nat
        /\ rootCursor < nextId /\ nextId' = nextId /\ Roots' = Roots /\ nextId \in Nat
    BY <1>1, <1>2, IdsAre DEF BatchRight, PageInv, RootsReach, commentVars, Roots, Stored, Table
  <2>2. rootCursor' \in Nat /\ rootCursor' < nextId' /\ rootMore' \in BOOLEAN
    <3>1. rootMore' \in BOOLEAN BY <1>1
    <3>2. rootCursor' \in {rootCursor, a.batch.oldest} BY <1>1
    <3>. QED BY <2>1, <3>1, <3>2
  <2>3. ASSUME ~drifted, NEW c \in Roots, c <= given[0]
        PROVE  c \in OnPage' \/ (rootMore' /\ c < rootCursor')
    <3>1. CASE c \in OnPage BY <1>5, <3>1 DEF GoesOnShowing
    <3>2. CASE c \notin OnPage
      <4>1. c < rootCursor BY <1>4, <2>3, <3>2 DEF PageInv, RootsReach
      <4>2. (\E v \in a.batch.views : v.root = c) \/ LeavesOlder(a.batch, c)
        BY <1>2, <4>1 DEF BatchRight
      <4>. QED BY <1>1, <1>5, <4>2 DEF LeavesOlder
    <3>. QED BY <3>1, <3>2
  <2>. QED BY <1>1, <1>5, <2>1, <2>2, <2>3 DEF RootsReach
<1>9. Blank' BY <1>1, <1>4 DEF Blank
<1>. QED BY <1>3, <1>5, <1>6, <1>7, <1>8, <1>9 DEF PageInv, Grows

LEMMA LinkLandsKeeps == ASSUME PageInv, NEW a \in answers, LinkLands(a) PROVE PageInv'
<1>1. /\ a.kind = "link" /\ answers' = answers \ {a} /\ MergeNodes({a.view})
      /\ UNCHANGED <<commentVars, load, rootCursor, rootMore, reply, post, drifted, opened>>
  BY DEF LinkLands
<1>2. ViewsRight({a.view})
  <2>1. ViewRight(a.view) BY <1>1 DEF PageInv, AnswersRight, AnswerRight
  <2>. QED BY <2>1 DEF ViewsRight
<1>3. Grows BY <1>1, StaysGrows DEF PageInv
<1>4. load = "shown" BY DEF PageInv, Blank
<1>5. /\ ShownRight' /\ GoesOnShowing /\ PagersRight' /\ NewestRight' /\ ThreadsReach'
      /\ pagers \subseteq pagers' /\ given'[0] = given[0]
  BY <1>1, <1>2, Merges DEF PageInv
<1>6. AnswersRight' BY <1>1, <1>3, <1>5, AnswersStay DEF PageInv
<1>7. FormRight' BY <1>1, <1>3, <1>5, FormStays DEF PageInv
<1>8. RootsReach' BY <1>1, <1>3, <1>4, <1>5, RootsStay DEF PageInv, GoesOnShowing
<1>9. Blank' BY <1>1, <1>4 DEF Blank
<1>. QED BY <1>3, <1>5, <1>6, <1>7, <1>8, <1>9 DEF PageInv, Grows
(* A page of replies moves the cursor of its own button. *)
Moves(a, p, p2) ==
  /\ p.root = a.root /\ p.after = a.after /\ p.open
  /\ pagers' = (pagers \ {p}) \cup {p2}
  /\ p2 \in [root : OnPage, after : Nat, before : Nat, open : BOOLEAN]
  /\ p2.root = p.root /\ p2.after = p.after /\ p2.before <= p.before
  /\ \A c \in Stored : Home(rows, c) = a.root /\ p.after < c /\ c < p.before =>
       c \in a.batch.page \/ (p2.open /\ c < p2.before)

LEMMA RepliesMove ==
  ASSUME PageInv, NEW a \in answers, RepliesLand(a)
  PROVE  \E p \in pagers : \E p2 : Moves(a, p, p2)
<1>1. a.kind = "replies" BY DEF RepliesLand
<1>2. RepliesRight(a) BY <1>1 DEF PageInv, AnswersRight, AnswerRight
<1>3. PICK p \in pagers :
    /\ p.root = a.root /\ p.after = a.after /\ p.open
    /\ a.batch.oldest \in Nat
    /\ a.batch.oldest # 0 => a.batch.oldest < p.before
    /\ \A c \in Stored : Home(rows, c) = a.root /\ p.after < c /\ c < p.before =>
         c \in a.batch.page \/ LeavesOlder(a.batch, c)
  BY <1>2 DEF RepliesRight
<1>4. (CHOOSE q \in PagersOf(a.root) : q.after = a.after) = p
  BY <1>3 DEF PageInv, PagersRight, PagersOf
<1> DEFINE before == IF a.batch.oldest = 0 THEN p.before ELSE a.batch.oldest
           open == a.batch.remaining > 0
           p2 == [p EXCEPT !.before = before, !.open = open]
<1>5. pagers' = (pagers \ {p}) \cup {p2}
  <2> DEFINE c == CHOOSE q \in PagersOf(a.root) : q.after = a.after
  <2>1. pagers' = (pagers \ {c}) \cup
          {[c EXCEPT !.before = IF a.batch.oldest = 0 THEN c.before ELSE a.batch.oldest,
                     !.open = a.batch.remaining > 0]}
    BY Zenon DEF RepliesLand
  <2>2. c = p BY <1>4
  <2> HIDE DEF c
  <2>. QED BY <2>1, <2>2, Zenon
<1>6. p \in [root : OnPage, after : Nat, before : Nat, open : BOOLEAN] BY DEF PageInv, PagersRight
<1>7. before \in Nat /\ before <= p.before /\ open \in BOOLEAN BY <1>3, <1>6
<1>8. ASSUME NEW b \in Nat, NEW o \in BOOLEAN
      PROVE  LET q == [p EXCEPT !.before = b, !.open = o] IN
             /\ q \in [root : OnPage, after : Nat, before : Nat, open : BOOLEAN]
             /\ q.root = p.root /\ q.after = p.after /\ q.before = b /\ q.open = o
  BY <1>6
<1> HIDE DEF before, open
<1>9. /\ p2 \in [root : OnPage, after : Nat, before : Nat, open : BOOLEAN]
      /\ p2.root = p.root /\ p2.after = p.after /\ p2.before = before /\ p2.open = open
  BY <1>7, <1>8
<1>10. \A c : LeavesOlder(a.batch, c) => open /\ c < before BY DEF LeavesOlder, before, open
<1>11. Moves(a, p, p2) BY <1>3, <1>5, <1>7, <1>9, <1>10 DEF Moves
<1>. QED BY <1>11

LEMMA RepliesLandKeeps == ASSUME PageInv, NEW a \in answers, RepliesLand(a) PROVE PageInv'
<1> DEFINE more == [c \in a.batch.page |-> a.root]
<1>1. /\ a.kind = "replies" /\ answers' = answers \ {a} /\ shown' = Add(shown, more)
      /\ UNCHANGED <<commentVars, load, rootCursor, rootMore, newest, reply, post, given, drifted, opened>>
  BY DEF RepliesLand, history
<1>0. PICK p \in pagers : \E p2 : Moves(a, p, p2) BY RepliesMove
<1>00. PICK p2 : Moves(a, p, p2) BY <1>0
<1>2. /\ p.root = a.root /\ p.after = a.after /\ p.open
      /\ pagers' = (pagers \ {p}) \cup {p2}
      /\ p2 \in [root : OnPage, after : Nat, before : Nat, open : BOOLEAN]
      /\ p2.root = p.root /\ p2.after = p.after /\ p2.before <= p.before
      /\ \A c \in Stored : Home(rows, c) = a.root /\ p.after < c /\ c < p.before =>
           c \in a.batch.page \/ (p2.open /\ c < p2.before)
  BY <1>00 DEF Moves
<1>3. /\ p.root \in OnPage /\ p.after \in Nat /\ p.before \in Nat /\ p.before < nextId
      /\ p.root \in opened \/ p.after < given[p.root]
      /\ \A q, r \in pagers : q.root = r.root /\ q.after = r.after => q = r
      /\ pagers \subseteq [root : OnPage, after : Nat, before : Nat, open : BOOLEAN]
  BY DEF PageInv, PagersRight
<1>4. load = "shown" BY DEF PageInv, Blank
<1>5. /\ Grows /\ Table
      /\ rows' = rows /\ nextId' = nextId /\ nextId \in Nat /\ Stored' = Stored /\ Ids' = Ids
      /\ \A c \in Ids : c \in Nat /\ c > 0
      /\ Stored \subseteq Ids /\ OnPage \subseteq Ids
  <2>1. Grows BY <1>1, StaysGrows DEF PageInv
  <2>. QED BY <1>1, <2>1, IdsAre
         DEF PageInv, Table, Handed, ShownRight, PlacesRight, OnPage, commentVars, Stored, Ids
<1>6. DOMAIN more = a.batch.page /\ \A c \in a.batch.page : more[c] = a.root OBVIOUS
<1> HIDE DEF more
<1>7. PlacesRight(more)
  <2>1. RepliesRight(a) BY <1>1 DEF PageInv, AnswersRight, AnswerRight
  <2>. QED BY <1>6, <2>1 DEF RepliesRight, PlacesRight
<1>8. /\ ShownRight' /\ GoesOnShowing /\ OnPage' = OnPage \cup a.batch.page
      /\ \A c \in OnPage' \ OnPage : shown'[c] = a.root
  <2>1. \A c \in DOMAIN more : more[c] = 0 \/ more[c] \in OnPage \cup DOMAIN more
    BY <1>2, <1>3, <1>6
  <2>2. /\ ShownRight' /\ GoesOnShowing /\ OnPage' = OnPage \cup DOMAIN more
        /\ \A c \in OnPage' \ OnPage : shown'[c] = more[c]
    BY <1>1, <1>5, <1>7, <2>1, ShownAdds DEF PageInv
  <2>. QED BY <1>6, <2>2
<1>9. PagersRight'
  <2>1. \A q \in pagers' : /\ q \in [root : OnPage', after : Nat, before : Nat, open : BOOLEAN]
                           /\ q.before < nextId
                           /\ q.root \in opened \/ q.after < given[q.root]
    <3>1. p2.before < nextId
      <4>1. p2.before \in Nat BY <1>2
      <4>. QED BY <1>2, <1>3, <1>5, <4>1
    <3>2. p2 \in [root : OnPage', after : Nat, before : Nat, open : BOOLEAN] BY <1>2, <1>8
    <3>3. p2.root \in opened \/ p2.after < given[p2.root] BY <1>2, <1>3
    <3>4. \A q \in pagers : /\ q \in [root : OnPage', after : Nat, before : Nat, open : BOOLEAN]
                            /\ q.before < nextId
                            /\ q.root \in opened \/ q.after < given[q.root]
      BY <1>8 DEF PageInv, PagersRight
    <3>. QED BY <1>2, <3>1, <3>2, <3>3, <3>4
  <2>2. \A q, r \in pagers' : q.root = r.root /\ q.after = r.after => q = r
    <3>1. \A q \in pagers' : q = p2 \/ (q \in pagers /\ q # p) BY <1>2
    <3>2. \A q \in pagers : q # p => ~(q.root = p2.root /\ q.after = p2.after) BY <1>2, <1>3
    <3>. QED BY <1>3, <3>1, <3>2
  <2>3. pagers' \subseteq [root : OnPage', after : Nat, before : Nat, open : BOOLEAN] BY <2>1
  <2>. QED BY <1>1, <1>5, <2>1, <2>2, <2>3 DEF PagersRight
<1>10. NewestRight'
  <2>1. ASSUME NEW r \in Ids
        PROVE  /\ r \notin OnPage' => given[r] = 0 /\ newest[r] = Unset
               /\ r \notin opened => IF newest[r] = Unset THEN Children(r)' = {} /\ given[r] = 0
                                      ELSE newest[r] = given[r]
    <3>1. r \notin OnPage' => given[r] = 0 /\ newest[r] = Unset
      BY <1>8 DEF PageInv, NewestRight
    <3>2. ASSUME r \notin opened, newest[r] = Unset PROVE Children(r)' = {} /\ given[r] = 0
      <4>1. Children(r) = {} /\ given[r] = 0 BY <3>2 DEF PageInv, NewestRight
      <4>2. r # a.root BY <1>2, <1>3, <3>2, <4>1
      <4>3. \A c \in OnPage' : shown'[c] # r BY <1>8, <4>1, <4>2 DEF GoesOnShowing, Children
      <4>. QED BY <4>1, <4>3 DEF Children
    <3>3. r \notin opened /\ newest[r] # Unset => newest[r] = given[r] BY DEF PageInv, NewestRight
    <3>. QED BY <3>1, <3>2, <3>3
  <2>2. /\ newest \in [Ids -> Nat \cup {Unset}] /\ given \in [Ids \cup {0} -> Nat]
        /\ \A r \in Ids \cup {0} : given[r] < nextId
    BY DEF PageInv, NewestRight
  <2>. QED BY <1>1, <1>5, <2>1, <2>2 DEF NewestRight
<1>11. ThreadsReach'
  <2> SUFFICES ASSUME NEW r \in OnPage', r \notin opened, NEW c \in Stored,
                      Home(rows, c) = r, c <= given[r], c \notin OnPage'
               PROVE  \E q \in pagers' : q.root = r /\ q.open /\ q.after < c /\ c < q.before
    BY <1>1, <1>5 DEF ThreadsReach, PagersOf
  <2>1. r \in Ids /\ c \in Nat /\ c > 0
    BY <1>5, <1>8 DEF ShownRight, PlacesRight, OnPage, Handed
  <2>2. r \in OnPage BY <2>1 DEF PageInv, NewestRight
  <2>3. PICK q \in pagers : q.root = r /\ q.open /\ q.after < c /\ c < q.before
    BY <1>8, <2>2 DEF PageInv, ThreadsReach, PagersOf
  <2>4. CASE q # p BY <1>2, <2>3, <2>4
  <2>5. CASE q = p BY <1>2, <1>8, <2>3, <2>5
  <2>. QED BY <2>4, <2>5
<1>12. RootsReach' BY <1>1, <1>4, <1>5, <1>8, RootsStay DEF PageInv, GoesOnShowing
<1>13. FormRight' BY <1>1, <1>5, <1>8, FormStays DEF PageInv
<1>14. AnswersRight'
  <2>1. ASSUME NEW b \in answers', NEW q \in pagers, b.kind = "replies",
               q.root = b.root, q.after = b.after
        PROVE  q \in pagers'
    <3>1. q # p
      <4>1. b # a /\ a \in answers /\ b \in answers BY <1>1
      <4>. QED BY <1>1, <1>2, <2>1, <4>1 DEF PageInv, AnswersRight, Asked
    <3>. QED BY <1>2, <3>1
  <2>. QED BY <1>1, <1>5, <2>1, AnswersStay DEF PageInv
<1>15. Blank' BY <1>1, <1>4 DEF Blank
<1>. QED BY <1>5, <1>8, <1>9, <1>10, <1>11, <1>12, <1>13, <1>14, <1>15 DEF PageInv, Grows

(* The reader's own comment goes where it was posted. *)
LEMMA PostLandsKeeps == PageInv /\ PostLands => PageInv'
<1> SUFFICES ASSUME PageInv, PostLands PROVE PageInv'
  OBVIOUS
<1> DEFINE more == [c \in {post.id} |-> post.parent]
<1>1. /\ post.stage = "stored" /\ shown' = Add(shown, more) /\ post' = NoPost /\ reply' \in {reply, 0}
      /\ opened' = IF post.parent = 0 \/ NewestReply(post.parent) > 0 THEN opened
                   ELSE opened \cup {post.parent}
      /\ UNCHANGED <<commentVars, load, rootCursor, rootMore, newest, pagers, answers, given, drifted>>
  BY DEF PostLands
<1>2. load = "shown" BY <1>1 DEF PageInv, Blank, NoPost
<1>3. /\ Grows /\ Table
      /\ rows' = rows /\ nextId' = nextId /\ nextId \in Nat /\ Stored' = Stored /\ Ids' = Ids
      /\ \A c \in Ids : c \in Nat /\ c > 0
      /\ Stored \subseteq Ids /\ OnPage \subseteq Ids
  <2>1. Grows BY <1>1, StaysGrows DEF PageInv
  <2>. QED BY <1>1, <2>1, IdsAre
         DEF PageInv, Table, Handed, ShownRight, PlacesRight, OnPage, commentVars, Stored, Ids
<1>4. DOMAIN more = {post.id} /\ more[post.id] = post.parent OBVIOUS
<1> HIDE DEF more
<1>5. PlacesRight(more) BY <1>1, <1>4 DEF PageInv, FormRight, PlacesRight
<1>6. post.parent \in Ids \cup {0} /\ (post.parent = 0 \/ post.parent \in OnPage)
  BY DEF PageInv, FormRight, Answerable
<1>7. /\ ShownRight' /\ GoesOnShowing /\ OnPage' = OnPage \cup {post.id}
      /\ \A c \in OnPage' \ OnPage : shown'[c] = post.parent
  <2>1. \A c \in DOMAIN more : more[c] = 0 \/ more[c] \in OnPage \cup DOMAIN more BY <1>4, <1>6
  <2>2. /\ ShownRight' /\ GoesOnShowing /\ OnPage' = OnPage \cup DOMAIN more
        /\ \A c \in OnPage' \ OnPage : shown'[c] = more[c]
    BY <1>1, <1>3, <1>5, <2>1, ShownAdds DEF PageInv
  <2>. QED BY <1>4, <2>2
<1>8. opened \subseteq opened' BY <1>1
<1>9. PagersRight' BY <1>1, <1>3, <1>7, <1>8 DEF PageInv, PagersRight
<1>10. NewestRight'
  <2>1. ASSUME NEW r \in Ids
        PROVE  /\ r \notin OnPage' => given[r] = 0 /\ newest[r] = Unset
               /\ r \notin opened' => IF newest[r] = Unset THEN Children(r)' = {} /\ given[r] = 0
                                       ELSE newest[r] = given[r]
    <3>1. r \notin OnPage' => given[r] = 0 /\ newest[r] = Unset
      BY <1>7 DEF PageInv, NewestRight
    <3>2. ASSUME r \notin opened', newest[r] = Unset PROVE Children(r)' = {} /\ given[r] = 0
      <4>1. Children(r) = {} /\ given[r] = 0 BY <1>8, <3>2 DEF PageInv, NewestRight
      <4>2. r # post.parent
        <5>1. ASSUME r = post.parent PROVE FALSE
          <6>1. NewestReply(r) > 0 /\ r # 0 BY <1>1, <1>3, <3>2, <5>1
          <6>2. NewestReply(r) = 0 BY <3>2, <4>1 DEF NewestReply, MaxOr0
          <6>. QED BY <6>1, <6>2
        <5>. QED BY <5>1
      <4>3. \A c \in OnPage' : shown'[c] # r BY <1>7, <4>1, <4>2 DEF GoesOnShowing, Children
      <4>. QED BY <4>1, <4>3 DEF Children
    <3>3. r \notin opened' /\ newest[r] # Unset => newest[r] = given[r]
      BY <1>8 DEF PageInv, NewestRight
    <3>. QED BY <3>1, <3>2, <3>3
  <2>2. /\ newest \in [Ids -> Nat \cup {Unset}] /\ given \in [Ids \cup {0} -> Nat]
        /\ \A r \in Ids \cup {0} : given[r] < nextId
    BY DEF PageInv, NewestRight
  <2>. QED BY <1>1, <1>3, <2>1, <2>2 DEF NewestRight
<1>11. ThreadsReach'
  <2> SUFFICES ASSUME NEW r \in OnPage', r \notin opened, NEW c \in Stored,
                      Home(rows, c) = r, c <= given[r], c \notin OnPage'
               PROVE  \E q \in pagers : q.root = r /\ q.open /\ q.after < c /\ c < q.before
    BY <1>1, <1>3, <1>8 DEF ThreadsReach, PagersOf
  <2>1. r \in Ids /\ c \in Nat /\ c > 0
    BY <1>3, <1>7 DEF ShownRight, PlacesRight, OnPage, Handed
  <2>2. r \in OnPage BY <2>1 DEF PageInv, NewestRight
  <2>. QED BY <1>7, <2>2 DEF PageInv, ThreadsReach, PagersOf
<1>12. RootsReach' BY <1>1, <1>2, <1>3, <1>7, RootsStay DEF PageInv, GoesOnShowing
<1>13. FormRight' BY <1>1, <1>3, <1>7, FormStays DEF PageInv
<1>14. AnswersRight' BY <1>1, <1>3, AnswersStay DEF PageInv
<1>15. Blank' BY <1>1, <1>2 DEF Blank
<1>. QED BY <1>3, <1>7, <1>9, <1>10, <1>11, <1>12, <1>13, <1>14, <1>15 DEF PageInv, Grows
(* The first page. *)
LEMMA RenderKeeps == PageInv /\ Render => PageInv'
<1> SUFFICES ASSUME PageInv, Render PROVE PageInv'
  OBVIOUS
<1> DEFINE b == FindByGameId(0)
           Heard(r) == IF r = 0 THEN {v.root : v \in b.views}
                       ELSE UNION {v.replies : v \in ViewsOn(b.views, r)}
<1>1. /\ load = "counted" /\ shown' = Nodes(b.views) /\ rootCursor' = b.oldest
      /\ rootMore' = (counted > Cardinality(b.views))
      /\ newest' = [r \in Ids |-> IF ViewsOn(b.views, r) = {} THEN Unset
                                  ELSE EndOf(CHOOSE v \in b.views : v.root = r)]
      /\ pagers' = {PagerOf(v) : v \in {w \in b.views : w.more}}
      /\ \A r \in Ids \cup {0} : given'[r] = MaxOr0(Heard(r))
      /\ given' = [r \in Ids \cup {0} |-> given'[r]]
      /\ drifted' = (counted # CountRoots) /\ load' = "shown"
      /\ UNCHANGED <<commentVars, answers, reply, post, opened>>
  BY DEF Render
<1>2. /\ Table /\ OnPage = {} /\ answers = {} /\ reply = 0 /\ post = NoPost /\ opened = {}
  BY <1>1 DEF PageInv, Blank
<1>3. /\ ViewsRight(b.views) /\ b.oldest \in Nat
      /\ \A c \in Roots : (\E v \in b.views : v.root = c) \/ LeavesOlder(b, c)
      /\ b.oldest < nextId /\ CountRoots \in Nat /\ Cardinality(b.views) \in Nat
      /\ \A c \in Roots : (~\E v \in b.views : v.root = c) => Cardinality(b.views) < CountRoots
  BY <1>2, BatchIs
<1> HIDE DEF b
<1>4. /\ Grows /\ rows' = rows /\ nextId' = nextId /\ nextId \in Nat /\ Stored' = Stored /\ Ids' = Ids
      /\ Handed' = Handed /\ Roots' = Roots
      /\ \A c \in Ids : c \in Nat /\ c > 0 /\ c # 0
      /\ Stored \subseteq Ids /\ \A c \in Handed : c \in Ids /\ c < nextId
  <2>1. Grows BY <1>1, <1>2, StaysGrows
  <2>. QED BY <1>1, <1>2, <2>1, IdsAre DEF Table, Handed, commentVars, Stored, Ids, Roots
<1>5. \A v \in b.views : ViewRight(v) /\ v.root \in Ids /\ v.replies \subseteq Handed
                        /\ v.replies \subseteq Ids
  BY <1>3, <1>4 DEF ViewsRight, ViewRight
<1>6. \A r : /\ ViewsOn(b.views, r) = {} <=> ~\E v \in b.views : v.root = r
             /\ \A v \in b.views : v.root = r => ViewsOn(b.views, r) = {v}
  BY <1>3 DEF ViewsOn, ViewsRight
(* what is on the page *)
<1>7. /\ OnPage' = DOMAIN Nodes(b.views)
      /\ \A v \in b.views : v.root \in OnPage' /\ v.replies \subseteq OnPage'
      /\ \A c \in OnPage' : shown'[c] = 0 \/ \E v \in b.views : v.root = shown'[c] /\ c \in v.replies
  <2>1. OnPage' = DOMAIN Nodes(b.views) BY <1>1 DEF OnPage
  <2>. QED BY <1>1, <1>3, <2>1, NodesAre
<1>8. ShownRight' /\ GoesOnShowing
  <2>1. PlacesRight(shown') BY <1>1, <1>3, NodesAre
  <2>2. PlacesRight(shown)' BY <1>4, <2>1 DEF PlacesRight, Home, RootIn
  <2>. QED BY <1>2, <1>7, <2>2 DEF ShownRight, GoesOnShowing
(* what the first page has delivered *)
<1>9. ASSUME NEW r \in Ids \cup {0}
      PROVE  /\ given'[r] \in Nat /\ given'[r] < nextId /\ \A c \in Heard(r) : c <= given'[r]
             /\ given'[r] = 0 \/ given'[r] \in Heard(r)
  <2>1. \A c \in Heard(r) : c \in Handed /\ c \in Ids
    BY <1>3, <1>4, <1>5 DEF ViewsRight, ViewRight, ViewsOn
  <2>2. Heard(r) \in SUBSET Ids BY <2>1
  <2>3. given'[r] = MaxOr0(Heard(r)) BY <1>1
  <2> HIDE DEF Heard
  <2>4. /\ given'[r] \in Nat /\ \A c \in Heard(r) : c <= given'[r]
        /\ Heard(r) = {} => given'[r] = 0
        /\ Heard(r) # {} => given'[r] \in Heard(r)
    BY <2>2, <2>3, MinMax
  <2>5. nextId > 0 BY <1>2, IdsAre DEF Table
  <2>6. given'[r] < nextId BY <1>4, <2>1, <2>4, <2>5
  <2>. QED BY <2>4, <2>6
<1>10. \A r \in Ids : /\ \A v \in b.views : v.root = r => Heard(r) = v.replies
                      /\ (~\E v \in b.views : v.root = r) => Heard(r) = {}
  <2>1. ASSUME NEW r \in Ids PROVE Heard(r) = UNION {v.replies : v \in ViewsOn(b.views, r)}
    BY <1>4
  <2> HIDE DEF Heard
  <2>2. ASSUME NEW v, NEW r, ViewsOn(b.views, r) = {v}
        PROVE  UNION {w.replies : w \in ViewsOn(b.views, r)} = v.replies
    BY <2>2
  <2>3. ASSUME NEW r, ViewsOn(b.views, r) = {}
        PROVE  UNION {w.replies : w \in ViewsOn(b.views, r)} = {}
    BY <2>3
  <2>. QED BY <1>6, <2>1, <2>2, <2>3
<1> HIDE DEF Heard
<1>11. ASSUME NEW r \in Ids
       PROVE  /\ (~\E v \in b.views : v.root = r) => given'[r] = 0 /\ newest'[r] = Unset
              /\ \A v \in b.views : v.root = r =>
                   /\ \A c \in v.replies : c <= given'[r]
                   /\ v.replies = {} => given'[r] = 0 /\ newest'[r] = Unset
                   /\ v.replies # {} => given'[r] \in v.replies /\ newest'[r] = given'[r]
  <2>1. CASE ~\E v \in b.views : v.root = r BY <1>1, <1>6, <1>9, <1>10, <2>1
  <2>2. ASSUME NEW v \in b.views, v.root = r
        PROVE  /\ \A c \in v.replies : c <= given'[r]
               /\ v.replies = {} => given'[r] = 0 /\ newest'[r] = Unset
               /\ v.replies # {} => given'[r] \in v.replies /\ newest'[r] = given'[r]
    <3>1. newest'[r] = EndOf(v)
      <4>1. (CHOOSE w \in b.views : w.root = r) = v BY <1>3, <2>2 DEF ViewsRight
      <4>2. ViewsOn(b.views, r) # {} BY <1>6, <2>2
      <4>. QED BY <1>1, <4>1, <4>2
    <3>2. Heard(r) = v.replies BY <1>10, <2>2
    <3>3. given'[r] = MaxOr0(v.replies) BY <1>1, <3>2
    <3>4. \A c \in v.replies : c <= given'[r] BY <1>9, <3>2
    <3>5. CASE v.replies = {} BY <3>1, <3>3, <3>4, <3>5 DEF EndOf, MaxOr0
    <3>6. CASE v.replies # {}
      <4>1. newest'[r] = given'[r] BY <3>1, <3>3, <3>6 DEF EndOf, MaxOr0
      <4>2. given'[r] \in v.replies
        <5>1. v.replies \in SUBSET Ids BY <1>5
        <5>. QED BY <3>3, <3>6, <5>1, MinMax
      <4>. QED BY <3>4, <3>6, <4>1, <4>2
    <3>. QED BY <3>5, <3>6
  <2>. QED BY <2>1, <2>2
<1>12. NewestRight'
  <2>1. ASSUME NEW r \in Ids
        PROVE  /\ newest'[r] \in Nat \cup {Unset}
               /\ r \notin OnPage' => given'[r] = 0 /\ newest'[r] = Unset
               /\ IF newest'[r] = Unset THEN Children(r)' = {} /\ given'[r] = 0
                  ELSE newest'[r] = given'[r]
    <3>1. Children(r)' = {c \in OnPage' : shown'[c] = r} BY DEF Children
    <3>2. given'[r] \in Nat /\ Unset \notin Nat BY <1>9 DEF Unset
    <3>3. CASE ~\E v \in b.views : v.root = r
      <4>1. given'[r] = 0 /\ newest'[r] = Unset BY <1>11, <3>3
      <4>2. Children(r)' = {} BY <1>4, <1>7, <3>1, <3>3
      <4>. QED BY <4>1, <4>2
    <3>4. ASSUME NEW v \in b.views, v.root = r
          PROVE  /\ newest'[r] \in Nat \cup {Unset} /\ r \in OnPage'
                 /\ IF newest'[r] = Unset THEN Children(r)' = {} /\ given'[r] = 0
                    ELSE newest'[r] = given'[r]
      <4>1. r \in OnPage' BY <1>7, <3>4
      <4>2. CASE v.replies = {}
        <5>1. given'[r] = 0 /\ newest'[r] = Unset BY <1>11, <3>4, <4>2
        <5>2. \A c \in OnPage' : shown'[c] # r
          BY <1>3, <1>4, <1>7, <3>4, <4>2 DEF ViewsRight
        <5>. QED BY <3>1, <4>1, <5>1, <5>2
      <4>3. CASE v.replies # {} BY <1>11, <3>2, <3>4, <4>1, <4>3
      <4>. QED BY <4>2, <4>3
    <3>. QED BY <3>3, <3>4
  <2>2. newest' \in [Ids -> Nat \cup {Unset}] BY <1>1, <2>1
  <2>3. given' \in [Ids \cup {0} -> Nat] BY <1>1, <1>9
  <2>. QED BY <1>4, <1>9, <2>1, <2>2, <2>3 DEF NewestRight
(* the buttons *)
<1>13. PagersRight'
  <2>1. ASSUME NEW p \in pagers'
        PROVE  /\ p \in [root : OnPage', after : Nat, before : Nat, open : BOOLEAN]
               /\ p.before < nextId /\ p.after < given'[p.root]
    <3>1. PICK v \in b.views : v.more /\ p = PagerOf(v) BY <1>1
    <3>2. v.cursor \in v.replies /\ v.cursor \in Ids /\ v.cursor < nextId
      BY <1>4, <1>5, <3>1 DEF ViewRight
    <3>3. p = [root |-> v.root, after |-> 0, before |-> v.cursor, open |-> TRUE] BY <3>1 DEF PagerOf
    <3>4. v.cursor <= given'[v.root] /\ given'[v.root] \in Nat BY <1>5, <1>9, <1>11, <3>2
    <3>. QED BY <1>4, <1>7, <3>2, <3>3, <3>4
  <2>2. \A p, q \in pagers' : p.root = q.root => p = q
    <3>1. ASSUME NEW p \in pagers', NEW q \in pagers', p.root = q.root PROVE p = q
      <4>1. PICK v \in b.views : p = PagerOf(v) BY <1>1
      <4>2. PICK w \in b.views : q = PagerOf(w) BY <1>1
      <4>3. v.root = w.root BY <3>1, <4>1, <4>2 DEF PagerOf
      <4>4. v = w BY <1>3, <4>3 DEF ViewsRight
      <4>. QED BY <4>1, <4>2, <4>4
    <3>. QED BY <3>1
  <2>3. pagers' \subseteq [root : OnPage', after : Nat, before : Nat, open : BOOLEAN] BY <2>1
  <2>. QED BY <1>4, <2>1, <2>2, <2>3 DEF PagersRight
<1>14. ThreadsReach'
  <2> SUFFICES ASSUME NEW r \in OnPage', NEW c \in Stored,
                      Home(rows, c) = r, c <= given'[r], c \notin OnPage'
               PROVE  \E p \in pagers' : p.root = r /\ p.open /\ p.after < c /\ c < p.before
    BY <1>4 DEF ThreadsReach, PagersOf
  <2>1. r \in Ids /\ c \in Nat /\ c > 0
    BY <1>4, <1>8 DEF ShownRight, PlacesRight, OnPage
  <2>2. given'[r] # 0 /\ given'[r] \in Nat BY <1>9, <2>1
  <2>3. PICK v \in b.views : v.root = r /\ given'[r] \in v.replies BY <1>11, <2>1, <2>2
  <2>4. v.more /\ c < v.cursor BY <1>5, <1>7, <2>3 DEF ViewRight
  <2>5. PagerOf(v) \in pagers' BY <1>1, <2>4
  <2>. QED BY <2>1, <2>3, <2>4, <2>5 DEF PagerOf
<1>15. RootsReach'
  <2>1. rootCursor' \in Nat /\ rootCursor' < nextId' /\ rootMore' \in BOOLEAN BY <1>1, <1>3, <1>4
  <2>2. ASSUME counted = CountRoots, NEW c \in Roots
        PROVE  c \in OnPage' \/ (rootMore' /\ c < rootCursor')
    <3>1. CASE \E v \in b.views : v.root = c BY <1>7, <3>1
    <3>2. CASE ~\E v \in b.views : v.root = c
      <4>1. Cardinality(b.views) < CountRoots /\ LeavesOlder(b, c) BY <1>3, <3>2
      <4>2. counted > Cardinality(b.views) BY <1>3, <2>2, <4>1
      <4>. QED BY <1>1, <4>1, <4>2 DEF LeavesOlder
    <3>. QED BY <3>1, <3>2
  <2>3. drifted' \/ counted = CountRoots BY <1>1
  <2>. QED BY <1>4, <2>1, <2>2, <2>3 DEF RootsReach
<1>16. FormRight' BY <1>1, <1>2, <1>4, <1>8, FormStays DEF PageInv
<1>17. AnswersRight' BY <1>1, <1>2 DEF AnswersRight, Asked
<1>18. Blank' BY <1>1 DEF Blank
<1>. QED BY <1>4, <1>8, <1>12, <1>13, <1>14, <1>15, <1>16, <1>17, <1>18 DEF PageInv, Grows
LEMMA StepKeeps == PageInv /\ [Next]_vars => PageInv'
<1> SUFFICES ASSUME PageInv, [Next]_vars PROVE PageInv'
  OBVIOUS
<1>1. CASE Count \/ (\E a \in answers : Fail(a)) \/ PostFails \/ OtherPosts \/ Moderation
             \/ UNCHANGED vars
  BY <1>1, QuietSteps
<1>2. CASE Render BY <1>2, RenderKeeps
<1>3. CASE AskEarlier BY <1>3, AskEarlierKeeps
<1>4. CASE \E p \in pagers : AskReplies(p) BY <1>4, AskRepliesKeeps
<1>5. CASE \E c \in Ids : FollowLink(c) BY <1>5, FollowLinkKeeps
<1>6. CASE \E a \in answers : Lands(a)
  BY <1>6, EarlierLandsKeeps, RepliesLandKeeps, LinkLandsKeeps DEF Lands
<1>7. CASE \E r \in Ids \cup {0} : MoveForm(r) BY <1>7, MoveFormKeeps
<1>8. CASE Submit BY <1>8, SubmitKeeps
<1>9. CASE Store BY <1>9, StoreKeeps
<1>10. CASE PostLands BY <1>10, PostLandsKeeps
<1>. QED BY <1>1, <1>2, <1>3, <1>4, <1>5, <1>6, <1>7, <1>8, <1>9, <1>10 DEF Next

LEMMA Starts == Init => PageInv
<1> SUFFICES ASSUME Init PROVE PageInv
  OBVIOUS
<1>1. /\ rows \in Tables /\ nextId = MaxOr0(Stored) + 1
      /\ load = "asked" /\ shown = [c \in {} |-> 0] /\ rootCursor = 0 /\ rootMore = FALSE
      /\ newest = [r \in Ids |-> Unset] /\ pagers = {} /\ answers = {}
      /\ reply = 0 /\ post = NoPost /\ given = [r \in Ids \cup {0} |-> 0]
      /\ drifted = FALSE /\ opened = {}
  BY DEF Init, CommentsInit
<1>2. Tree(rows) BY <1>1, TablesAssumption
<1>3. Stored \in SUBSET Ids BY <1>2 DEF Tree, Stored
<1>4. /\ MaxOr0(Stored) \in Nat /\ (Stored = {} => MaxOr0(Stored) = 0)
      /\ (Stored # {} => MaxOr0(Stored) \in Stored) /\ \A c \in Stored : c <= MaxOr0(Stored)
  BY <1>3, MinMax
<1>5. nextId \in 1..(MaxId + 1) /\ nextId \in Nat /\ nextId > 0 BY <1>1, <1>3, <1>4, IdsAre
<1>6. Table
  <2>1. \A c \in Stored : c < nextId BY <1>1, <1>3, <1>4, IdsAre
  <2>. QED BY <1>2, <1>3, <1>5, <2>1 DEF Table, Handed
<1>7. OnPage = {} BY <1>1 DEF OnPage
<1>8. AnswersRight BY <1>1 DEF AnswersRight, Asked
<1>9. FormRight BY <1>1 DEF FormRight, Answerable, NoPost
<1>10. ShownRight BY <1>7 DEF ShownRight, PlacesRight, OnPage
<1>11. PagersRight BY <1>1 DEF PagersRight
<1>12. NewestRight BY <1>1, <1>5, <1>7 DEF NewestRight, Children
<1>13. ThreadsReach /\ RootsReach BY <1>1, <1>5, <1>7 DEF ThreadsReach, RootsReach
<1>14. Blank BY <1>1, <1>7 DEF Blank
<1>. QED BY <1>6, <1>8, <1>9, <1>10, <1>11, <1>12, <1>13, <1>14 DEF PageInv

THEOREM PageInvCorrect == Spec => []PageInv
  BY Starts, StepKeeps, PTL DEF Spec

----------------------------------------------------------------------------
(* Every comment on the page is in the thread it belongs to, whichever     *)
(* answer brought it and whatever was posted, deleted or moved meanwhile.  *)
THEOREM PlacedRightCorrect == Spec => []PlacedRight
<1>1. PageInv => PlacedRight
  <2> SUFFICES ASSUME PageInv, NEW c \in OnPage \cap Stored
               PROVE  shown[c] = IF c \in Roots THEN 0 ELSE RootOf(c)
    BY DEF PlacedRight
  <2>1. shown[c] = Home(rows, c) BY DEF PageInv, ShownRight, PlacesRight, OnPage
  <2>. QED BY <2>1, TableFacts DEF PageInv, Roots
<1>. QED BY <1>1, PageInvCorrect, PTL

(* Paging skips nothing: a comment the server has delivered past is on the *)
(* page or behind a button of it, as long as the first page's two queries  *)
(* saw the same roots and the thread was not opened by the reader's reply. *)
THEOREM NothingUnreachableCorrect == Spec => []NothingUnreachable
<1>1. PageInv => NothingUnreachable
  <2> SUFFICES ASSUME PageInv, load = "shown" PROVE NothingUnreachable
    BY DEF NothingUnreachable
  <2>1. drifted \/ \A c \in Roots : c <= given[0] => Reachable(c)
    BY DEF PageInv, RootsReach, Reachable
  <2>2. ASSUME NEW r \in (Roots \cap OnPage) \ opened, NEW c \in Thread(r), c <= given[r]
        PROVE  Reachable(c)
    <3>1. c \in Stored /\ Home(rows, c) = r /\ RootOf(c) = r /\ c # r
      BY <2>2, TableFacts DEF PageInv, Thread
    <3>2. c \notin Roots BY <3>1, TableFacts DEF PageInv, Roots
    <3>3. c \in OnPage \/ \E p \in PagersOf(r) : p.open /\ p.after < c /\ c < p.before
      BY <2>2, <3>1 DEF PageInv, ThreadsReach
    <3>. QED BY <3>1, <3>2, <3>3 DEF Reachable
  <2>. QED BY <2>1, <2>2 DEF NothingUnreachable
<1>. QED BY <1>1, PageInvCorrect, PTL

(* No answer moves a cursor forwards or brings a finished button back.     *)
THEOREM ProgressKeptCorrect == Spec => ProgressKept
<1> DEFINE Kept == load = "shown" =>
             /\ rootCursor' <= rootCursor /\ (rootMore' => rootMore)
             /\ \A p \in pagers : \E q \in pagers' :
                  /\ q.root = p.root /\ q.after = p.after
                  /\ q.before <= p.before /\ (q.open => p.open)
<1>1. ASSUME PageInv, [Next]_vars PROVE [Kept]_vars
  <2> SUFFICES ASSUME Next, load = "shown" PROVE Kept
    BY <1>1
  <2>0. rootCursor \in Nat /\ \A p \in pagers : p.before \in Nat
    BY <1>1 DEF PageInv, RootsReach, PagersRight
  <2>1. CASE UNCHANGED <<rootCursor, rootMore, pagers>> BY <2>0, <2>1
  <2>2. ASSUME NEW a \in answers, EarlierLands(a) PROVE Kept
    <3>1. a.kind = "batch" /\ rootCursor' = IF a.batch.oldest = 0 THEN rootCursor ELSE a.batch.oldest
      BY <2>2 DEF EarlierLands
    <3>2. BatchRight(a) BY <1>1, <3>1 DEF PageInv, AnswersRight, AnswerRight
    <3>3. rootCursor' <= rootCursor BY <2>0, <3>1, <3>2 DEF BatchRight
    <3>4. pagers \subseteq pagers' BY <2>2 DEF EarlierLands, MergeNodes
    <3>. QED BY <2>0, <3>2, <3>3, <3>4 DEF BatchRight
  <2>3. ASSUME NEW a \in answers, LinkLands(a) PROVE Kept
    <3>1. pagers \subseteq pagers' /\ UNCHANGED <<rootCursor, rootMore>>
      BY <2>3 DEF LinkLands, MergeNodes
    <3>. QED BY <2>0, <3>1
  <2>4. ASSUME NEW a \in answers, RepliesLand(a) PROVE Kept
    <3>1. UNCHANGED <<rootCursor, rootMore>> BY <2>4 DEF RepliesLand
    <3>0. PICK p \in pagers : \E p2 : Moves(a, p, p2) BY <1>1, <2>4, RepliesMove
    <3>00. PICK p2 : Moves(a, p, p2) BY <3>0
    <3>2. /\ p.open /\ pagers' = (pagers \ {p}) \cup {p2}
          /\ p2.root = p.root /\ p2.after = p.after /\ p2.before <= p.before
      BY <3>00 DEF Moves
    <3>3. ASSUME NEW q \in pagers
          PROVE  \E s \in pagers' : /\ s.root = q.root /\ s.after = q.after
                                    /\ s.before <= q.before /\ (s.open => q.open)
      <4>1. CASE q = p BY <3>2, <4>1
      <4>2. CASE q # p
        <5>1. q \in pagers' /\ q.before \in Nat BY <2>0, <3>2, <4>2
        <5>. QED BY <5>1
      <4>. QED BY <4>1, <4>2
    <3>. QED BY <2>0, <3>1, <3>3
  <2>5. CASE UNCHANGED pageVars BY <2>1, <2>5 DEF pageVars
  <2>. QED BY <2>1, <2>2, <2>3, <2>4, <2>5
         DEF Next, Lands, Count, Render, AskEarlier, AskReplies, FollowLink, Ask, Fail, MoveForm,
             Submit, Store, PostLands, PostFails, OtherPosts, Moderation
<1>. QED BY <1>1, PageInvCorrect, PTL DEF Spec, ProgressKept
=============================================================================
