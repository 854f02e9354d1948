----------------------------- MODULE CommentPage -----------------------------
(***************************************************************************)
(* A game's page in one browser, reading its comments a page at a time     *)
(* while others post and moderators delete: the script comments.js, the    *)
(* routes it asks and what it makes of the answers.  A request is answered *)
(* from one snapshot of the comments and its answer lands later, after     *)
(* others, or never.                                                       *)
(***************************************************************************)
EXTENDS Comments

CONSTANT MaxAsked \* bound: how many requests the reader's page sends

Unset == -1 \* data-newest-reply=""

VARIABLES
  load,       \* the page: "asked", "counted", "shown"
  counted,    \* what countRoots answered
  shown,      \* the comments on the page: id -> the thread it is in, 0 for a root
  rootCursor, \* data-before of "Load earlier comments"
  rootMore,   \* is that button on the page?
  newest,     \* data-newest-reply of each thread
  pagers,     \* the "Load earlier replies" buttons
  asked,      \* how many requests the page has sent
  answers,    \* requests that are out, with what the server answered
  wanted,     \* the comment the address names, while it is being fetched; else 0
  reply,      \* the thread the form is under, 0 for the foot of the page
  post,       \* the comment being posted
  given,      \* history: the newest comment a read has delivered, per thread
  drifted,    \* history: did the roots change between the two queries of the load?
  opened      \* history: the empty threads whose first reply is the reader's own

pageVars == <<load, counted, shown, rootCursor, rootMore, newest, pagers,
              asked, answers, wanted, reply, post, given, drifted, opened>>
history == <<given, drifted, opened>>
vars == <<commentVars, pageVars>>

OnPage == DOMAIN shown
NoPost == [stage |-> "none", parent |-> 0, moved |-> FALSE, id |-> 0]
ShownRoots == {c \in OnPage : shown[c] = 0}

(***************************************************************************)
(* The page as the server renders it: the newest roots and how many there  *)
(* are come from two queries that run side by side.                        *)
(***************************************************************************)
Add(old, more) == [c \in DOMAIN old \cup DOMAIN more |->
                     IF c \in DOMAIN old THEN old[c] ELSE more[c]]
Nodes(views) ==
  [c \in UNION {{v.root} \cup v.replies : v \in views} |->
     IF \E v \in views : v.root = c THEN 0
     ELSE (CHOOSE v \in views : c \in v.replies).root]
EndOf(v) == IF v.replies = {} THEN Unset ELSE Max(v.replies)
PagerOf(v) == [root |-> v.root, after |-> 0, before |-> v.cursor, open |-> TRUE]
ViewsOn(views, r) == {v \in views : v.root = r}

Count ==
  /\ load = "asked"
  /\ counted' = CountRoots /\ load' = "counted"
  /\ UNCHANGED <<commentVars, shown, rootCursor, rootMore, newest, pagers,
                 asked, answers, wanted, reply, post, history>>

Render ==
  /\ load = "counted"
  /\ LET batch == FindByGameId(0) IN
     /\ shown' = Nodes(batch.views)
     /\ rootCursor' = batch.oldest
     /\ rootMore' = (counted > Cardinality(batch.views))
     /\ newest' = [r \in Ids |-> IF ViewsOn(batch.views, r) = {} THEN Unset
                                 ELSE EndOf(CHOOSE v \in batch.views : v.root = r)]
     /\ pagers' = {PagerOf(v) : v \in {w \in batch.views : w.more}}
     /\ given' = [r \in Ids \cup {0} |->
                    IF r = 0 THEN MaxOr0({v.root : v \in batch.views})
                    ELSE MaxOr0(UNION {v.replies : v \in ViewsOn(batch.views, r)})]
  /\ drifted' = (counted # CountRoots)
  /\ counted' = 0
  /\ load' = "shown"
  /\ UNCHANGED <<commentVars, asked, answers, wanted, reply, post, opened>>

(***************************************************************************)
(* Merging what a request brought into what is on the page.                *)
(***************************************************************************)
Children(r) == {c \in OnPage : shown[c] = r}
NewestReply(r) == IF newest[r] # Unset THEN newest[r] ELSE MaxOr0(Children(r))
PagersOf(r) == {p \in pagers : p.root = r}

(* A gap is not noticed. *)
IncomingPager_NoGap(v) == PagerOf(v)

(* Two windows that do not overlap leave a gap, which gets a button of its *)
(* own; otherwise the button on the page keeps its place.                  *)
IncomingPager(v) ==
  LET gap == /\ v.root \in OnPage /\ PagersOf(v.root) # {}
             /\ NewestReply(v.root) > 0 /\ v.cursor > NewestReply(v.root)
  IN [PagerOf(v) EXCEPT !.after = IF gap THEN NewestReply(v.root) ELSE 0]
NewPagers(views) ==
  {p \in {IncomingPager(v) : v \in {w \in views : w.more}} :
     ~\E q \in PagersOf(p.root) : q.after = p.after}
MergedNewest(r, v) ==
  IF r \in OnPage THEN Max({NewestReply(r), MaxOr0(v.replies)}) ELSE EndOf(v)

(* A fresh snapshot replaces the pager that is on the page. *)
MergeNodes_Resets(views) ==
  LET mine == {r \in Ids : ViewsOn(views, r) # {}} IN
  /\ shown' = Add(shown, Nodes(views))
  /\ pagers' = {p \in pagers : p.root \notin mine}
                 \cup {IncomingPager(v) : v \in {w \in views : w.more}}
  /\ newest' = [r \in Ids |-> IF r \notin mine THEN newest[r]
                              ELSE MergedNewest(r, CHOOSE v \in views : v.root = r)]
  /\ given' = [r \in Ids \cup {0} |->
                 Max({given[r]} \cup UNION {v.replies : v \in ViewsOn(views, r)})]
MergeNodes(views) ==
  /\ shown' = Add(shown, Nodes(views))
  /\ pagers' = pagers \cup NewPagers(views)
  /\ newest' = [r \in Ids |-> IF ViewsOn(views, r) = {} THEN newest[r]
                              ELSE MergedNewest(r, CHOOSE v \in views : v.root = r)]
  /\ given' = [r \in Ids \cup {0} |->
                 Max({given[r]} \cup UNION {v.replies : v \in ViewsOn(views, r)})]

(***************************************************************************)
(* Requests.                                                               *)
(***************************************************************************)
Asked(kind) == {a \in answers : a.kind = kind}
Ask(a) ==
  /\ load = "shown"
  /\ asked < MaxAsked /\ asked' = asked + 1
  /\ answers' = answers \cup {a}
  /\ UNCHANGED <<commentVars, load, counted, shown, rootCursor, rootMore,
                 newest, pagers, wanted, reply, post, history>>

(* loadEarlierComments: one batch at a time. *)
AskEarlier ==
  /\ rootMore /\ rootCursor # 0 /\ Asked("batch") = {}
  /\ Ask([kind |-> "batch", batch |-> FindByGameId(rootCursor)])

(* Each reply button asks once at a time; a thread whose root has gone is  *)
(* a 404, which changes nothing.                                           *)
AskReplies(p) ==
  /\ p.open /\ p.root \in Roots
  /\ ~\E a \in Asked("replies") : a.root = p.root /\ a.after = p.after
  /\ Ask([kind |-> "replies", root |-> p.root, after |-> p.after,
          batch |-> FindReplies(p.root, p.before, p.after)])

(* The address changes to name a comment.  One on the page is only         *)
(* scrolled to; the same link asked for again shares the request that is   *)
(* out; and either supersedes the link before.                             *)
FollowLink(c) ==
  /\ load = "shown" /\ c \in OnPage \cup Stored
  /\ wanted' = IF c \in OnPage THEN 0 ELSE c
  /\ IF c \in OnPage \/ \E a \in Asked("link") : a.target = c
     THEN UNCHANGED <<asked, answers>>
     ELSE /\ asked < MaxAsked /\ asked' = asked + 1
          /\ answers' = answers \cup
               {[kind |-> "link", target |-> c, view |-> FindThreadByComment(c)]}
  /\ UNCHANGED <<commentVars, load, counted, shown, rootCursor, rootMore,
                 newest, pagers, reply, post, history>>

(* Any request may fail; the page shows a message and the button is back.  *)
(* The answer to a superseded link ends here too.                          *)
Fail(a) ==
  /\ answers' = answers \ {a}
  /\ UNCHANGED <<commentVars, load, counted, shown, rootCursor, rootMore,
                 newest, pagers, asked, wanted, reply, post, history>>

EarlierLands(a) ==
  /\ a.kind = "batch"
  /\ answers' = answers \ {a}
  /\ MergeNodes(a.batch.views)
  /\ rootCursor' = IF a.batch.oldest = 0 THEN rootCursor ELSE a.batch.oldest
  /\ rootMore' = (a.batch.remaining > 0)
  /\ UNCHANGED <<commentVars, load, counted, asked, wanted, reply, post, drifted, opened>>

RepliesLand(a) ==
  /\ a.kind = "replies"
  /\ answers' = answers \ {a}
  /\ LET p == CHOOSE q \in PagersOf(a.root) : q.after = a.after
         before == IF a.batch.oldest = 0 THEN p.before ELSE a.batch.oldest
     IN pagers' = (pagers \ {p}) \cup
          {[p EXCEPT !.before = before, !.open = a.batch.remaining > 0]}
  /\ shown' = Add(shown, [c \in a.batch.page |-> a.root])
  /\ UNCHANGED <<commentVars, load, counted, rootCursor, rootMore, newest,
                 asked, wanted, reply, post, history>>

(* A superseded answer neither inserts nor moves the reader. *)
LinkLands(a) ==
  /\ a.kind = "link" /\ a.target = wanted
  /\ answers' = answers \ {a}
  /\ wanted' = 0
  /\ MergeNodes({a.view})
  /\ UNCHANGED <<commentVars, load, counted, rootCursor, rootMore, asked,
                 reply, post, drifted, opened>>

(***************************************************************************)
(* The form.  Moving it (Reply, Cancel) while a post is out marks the post *)
(* as overtaken: replyChanges has moved on.                                *)
(***************************************************************************)
MoveForm(r) ==
  /\ load = "shown" /\ r \in ShownRoots \cup {0}
  /\ reply' = r
  /\ post' = [post EXCEPT !.moved = post.stage # "none"]
  /\ UNCHANGED <<commentVars, load, counted, shown, rootCursor, rootMore,
                 newest, pagers, asked, answers, wanted, history>>

Submit ==
  /\ load = "shown" /\ post.stage = "none"
  /\ post' = [stage |-> "sent", parent |-> reply, moved |-> FALSE, id |-> 0]
  /\ UNCHANGED <<commentVars, load, counted, shown, rootCursor, rootMore,
                 newest, pagers, asked, answers, wanted, reply, history>>

(* POST /comments: the parent is looked up, then the row is inserted. *)
Store ==
  /\ post.stage = "sent"
  /\ Insert(post.parent)
  /\ post' = [post EXCEPT !.stage = "stored", !.id = nextId]
  /\ UNCHANGED <<load, counted, shown, rootCursor, rootMore, newest, pagers,
                 asked, answers, wanted, reply, history>>

(* Refused, unreachable, or stored with the answer lost on its way. *)
PostFails ==
  /\ post.stage # "none"
  /\ post' = NoPost
  /\ UNCHANGED <<commentVars, load, counted, shown, rootCursor, rootMore,
                 newest, pagers, asked, answers, wanted, reply, history>>

(* The answer is put where the form is now. *)
PostLands_UnderForm ==
  /\ post.stage = "stored"
  /\ shown' = Add(shown, [c \in {post.id} |-> reply])
  /\ reply' = IF post.moved THEN reply ELSE 0
  /\ opened' = opened
  /\ post' = NoPost
  /\ UNCHANGED <<commentVars, load, counted, rootCursor, rootMore, newest,
                 pagers, asked, answers, wanted, given, drifted>>
PostLands ==
  /\ post.stage = "stored"
  /\ shown' = Add(shown, [c \in {post.id} |-> post.parent])
  /\ reply' = IF post.moved THEN reply ELSE 0
  /\ opened' = IF post.parent = 0 \/ NewestReply(post.parent) > 0 THEN opened
               ELSE opened \cup {post.parent}
  /\ post' = NoPost
  /\ UNCHANGED <<commentVars, load, counted, rootCursor, rootMore, newest,
                 pagers, asked, answers, wanted, given, drifted>>

(* Everybody else: other readers post, moderators delete.  The page offers *)
(* Reply on roots only; a nested answer is in the table from the start.    *)
OtherPosts ==
  /\ \E parent \in Roots \cup {0} : Insert(parent)
  /\ UNCHANGED pageVars
Moderation == Moderate /\ UNCHANGED pageVars

Init ==
  /\ CommentsInit
  /\ load = "asked" /\ counted = 0
  /\ shown = [c \in {} |-> 0]
  /\ rootCursor = 0 /\ rootMore = FALSE
  /\ newest = [r \in Ids |-> Unset]
  /\ pagers = {} /\ asked = 0 /\ answers = {} /\ wanted = 0
  /\ reply = 0 /\ post = NoPost
  /\ given = [r \in Ids \cup {0} |-> 0]
  /\ drifted = FALSE /\ opened = {}

Lands(a) == EarlierLands(a) \/ RepliesLand(a) \/ LinkLands(a)

Next ==
  \/ Count \/ Render
  \/ AskEarlier \/ (\E p \in pagers : AskReplies(p)) \/ (\E c \in Ids : FollowLink(c))
  \/ \E a \in answers : Lands(a) \/ Fail(a)
  \/ (\E r \in Ids \cup {0} : MoveForm(r)) \/ Submit \/ Store \/ PostLands \/ PostFails
  \/ OtherPosts \/ Moderation

Spec == Init /\ [][Next]_vars

TypeOK ==
  /\ CommentsTypeOK
  /\ load \in {"asked", "counted", "shown"} /\ counted \in 0..MaxId
  /\ OnPage \subseteq Ids /\ \A c \in OnPage : shown[c] \in Ids \cup {0}
  /\ rootCursor \in 0..MaxId /\ rootMore \in BOOLEAN
  /\ newest \in [Ids -> Unset..MaxId]
  /\ pagers \subseteq [root : Ids, after : 0..MaxId, before : Ids, open : BOOLEAN]
  /\ \A p, q \in pagers : p.root = q.root /\ p.after = q.after => p = q
  /\ wanted \in 0..MaxId /\ reply \in 0..MaxId /\ post.stage \in {"none", "sent", "stored"}

(* Whatever is stored and no newer than what the server has delivered of   *)
(* its thread is on the page, or a button on the page leads to it: paging  *)
(* skips nothing, however posts, deletions, links and pages interleave.    *)
(* Two cases are left out, and they are the ones where the code does lose  *)
(* comments: the first page when a root came or went between its two       *)
(* queries, and a thread whose only replies on the page were the reader's. *)
Reachable(c) ==
  \/ c \in OnPage
  \/ c \in Roots /\ rootMore /\ c < rootCursor
  \/ c \notin Roots /\ \E p \in PagersOf(RootOf(c)) :
                          p.open /\ p.after < c /\ c < p.before
NothingUnreachable ==
  load = "shown" =>
    /\ drifted \/ \A c \in Roots : c <= given[0] => Reachable(c)
    /\ \A r \in (Roots \cap OnPage) \ opened :
         \A c \in Thread(r) : c <= given[r] => Reachable(c)

(* Every comment on the page is in the thread it belongs to, answers to    *)
(* answers included, whichever request brought it and wherever the form    *)
(* was when the reader's own came back.                                    *)
PlacedRight ==
  \A c \in OnPage \cap Stored : shown[c] = IF c \in Roots THEN 0 ELSE RootOf(c)

(* The reader never loses ground: no answer, whenever it was taken, moves  *)
(* a cursor forwards or brings back a button that had reached the end.     *)
ProgressKept ==
  [][load = "shown" =>
       /\ rootCursor' <= rootCursor /\ (rootMore' => rootMore)
       /\ \A p \in pagers : \E q \in pagers' :
            /\ q.root = p.root /\ q.after = p.after
            /\ q.before <= p.before /\ (q.open => p.open)]_vars
=============================================================================
