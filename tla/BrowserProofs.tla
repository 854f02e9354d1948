--------------------------- MODULE BrowserProofs ---------------------------
(***************************************************************************)
(* Proofs about the scripts of a page and the address bar (Browser.tla and *)
(* the four modules it composes).  A step of one leaves the variables of   *)
(* the others alone, so each has an invariant of its own, and the steps of *)
(* the others are stutters to it.                                          *)
(***************************************************************************)
EXTENDS Browser, FiniteSetTheorems, SequenceTheorems, WellFoundedInduction, TLAPS

-----------------------------------------------------------------------------
(* The stars *)

Votes == Ratings \cup {0}

StarsTyped ==
  /\ row \in Votes
  /\ stars \in [Copies -> [connected : BOOLEAN, attribute : Votes, rating : Votes,
                           busy : BOOLEAN, waits : BOOLEAN]]
  /\ mine \in [state : {"unasked", "asked", "read", "here"}, vote : Votes]
  /\ posted \in Votes
  /\ pending \in BOOLEAN
  /\ posts \subseteq [n : Nat, rating : Ratings, stored : BOOLEAN]
  /\ votes \in Nat

(* A vote is out exactly while pendingRatingGames says so, and one at most. *)
OneOut ==
  /\ pending <=> posts # {}
  /\ \A p, q \in posts : p = q

(* What the copies in the document show of it.                             *)
AllShow ==
  \A c \in Interactive : /\ posted # 0 => stars[c].rating = posted
                         /\ stars[c].busy = pending

StarsInv == StarsTyped /\ OneOut /\ AllShow

LEMMA StarsBegin == StarsInit => StarsInv
<1> SUFFICES ASSUME StarsInit PROVE StarsInv
  OBVIOUS
<1>1. StarsTyped
  <2>1. PICK a \in Votes :
          stars = [c \in Copies |-> [connected |-> FALSE, attribute |-> IF c \in Readonly THEN 0 ELSE a,
                                     rating |-> 0, busy |-> FALSE, waits |-> FALSE]]
    BY DEF StarsInit, Votes
  <2>. QED BY <2>1 DEF StarsInit, StarsTyped, Votes
<1>2. OneOut /\ AllShow BY DEF StarsInit, OneOut, AllShow, Interactive, ConnectedRatings
<1>. QED BY <1>1, <1>2 DEF StarsInv

(* A copy that comes into the document shows the vote of this page.        *)
LEMMA ConnectKeeps ==
  ASSUME StarsInv, NEW c \in Copies, Connect(c)
  PROVE  StarsInv'
<1> DEFINE known == IF posted # 0 THEN posted ELSE stars[c].attribute
           asks == c \notin Readonly /\ known = 0
           told == asks /\ mine.state = "here" /\ TakesStored(known, pending)
           new == [connected |-> TRUE, attribute |-> IF c \in Readonly THEN 0 ELSE known,
                   rating |-> IF c \in Readonly THEN 0 ELSE IF told THEN mine.vote ELSE known,
                   busy |-> c \notin Readonly /\ pending,
                   waits |-> stars[c].waits \/ (asks /\ mine.state # "here")]
<1>0. StarsTyped /\ OneOut /\ AllShow BY DEF StarsInv
<1>1. /\ stars' = [stars EXCEPT ![c] = new]
      /\ mine' = IF asks /\ mine.state = "unasked" THEN [mine EXCEPT !.state = "asked"] ELSE mine
      /\ UNCHANGED <<row, posted, pending, posts, votes>>
  BY <1>0 DEF Connect, StarsTyped
<1>2. known \in Votes BY <1>0 DEF StarsTyped
<1>3. new \in [connected : BOOLEAN, attribute : Votes, rating : Votes,
               busy : BOOLEAN, waits : BOOLEAN]
  BY <1>0, <1>2 DEF StarsTyped, Votes
<1>4. new.connected /\ (c \notin Readonly => new.busy = pending /\ (posted # 0 => new.rating = posted))
  BY <1>0 DEF StarsTyped
<1> HIDE DEF new
<1>5. StarsTyped' BY <1>0, <1>1, <1>3 DEF StarsTyped
<1>6. OneOut' BY <1>0, <1>1 DEF OneOut
<1>7. AllShow'
  <2> SUFFICES ASSUME NEW s \in Interactive'
               PROVE  /\ posted # 0 => stars'[s].rating = posted
                      /\ stars'[s].busy = pending
    BY <1>1 DEF AllShow
  <2>1. CASE s = c BY <2>1, <1>0, <1>1, <1>4 DEF Interactive, ConnectedRatings, StarsTyped
  <2>2. CASE s # c BY <2>2, <1>0, <1>1 DEF Interactive, ConnectedRatings, StarsTyped, AllShow
  <2>. QED BY <2>1, <2>2
<1>. QED BY <1>5, <1>6, <1>7 DEF StarsInv

LEMMA LeaveKeeps ==
  ASSUME StarsInv, NEW c \in Copies, DisconnectedCallback(c)
  PROVE  StarsInv'
<1>1. StarsTyped' BY DEF StarsInv, StarsTyped, DisconnectedCallback
<1>2. OneOut' BY DEF StarsInv, OneOut, DisconnectedCallback
<1>3. AllShow'
  BY DEF StarsInv, StarsTyped, AllShow, DisconnectedCallback, Interactive, ConnectedRatings
<1>. QED BY <1>1, <1>2, <1>3 DEF StarsInv

(* The stored vote, however late, changes only copies that show none.      *)
LEMMA StoredKeeps ==
  ASSUME StarsInv, NEW ok \in BOOLEAN, GetVoterRatings \/ LoadVoterRatings(ok)
  PROVE  StarsInv'
<1>1. CASE GetVoterRatings
  <2>1. StarsTyped' BY <1>1 DEF StarsInv, StarsTyped, GetVoterRatings
  <2>2. OneOut' BY <1>1 DEF StarsInv, OneOut, GetVoterRatings
  <2>3. AllShow' BY <1>1 DEF StarsInv, AllShow, GetVoterRatings, Interactive, ConnectedRatings
  <2>. QED BY <2>1, <2>2, <2>3 DEF StarsInv
<1>2. CASE LoadVoterRatings(ok)
  <2>1. mine' \in [state : {"unasked", "asked", "read", "here"}, vote : Votes]
    BY <1>2 DEF StarsInv, StarsTyped, LoadVoterRatings, Votes
  <2>2. StarsTyped' BY <1>2, <2>1 DEF StarsInv, StarsTyped, LoadVoterRatings
  <2>3. OneOut' BY <1>2 DEF StarsInv, OneOut, LoadVoterRatings
  <2>4. AllShow'
    <3> SUFFICES ASSUME NEW s \in Interactive'
                 PROVE  /\ posted # 0 => stars'[s].rating = posted
                        /\ stars'[s].busy = pending
      BY <1>2 DEF AllShow, LoadVoterRatings
    <3>1. s \in Interactive /\ stars'[s].busy = stars[s].busy
      BY <1>2 DEF StarsInv, StarsTyped, LoadVoterRatings, Interactive, ConnectedRatings
    <3>2. ASSUME posted # 0 PROVE stars'[s].rating = stars[s].rating
      <4>1. s \in Copies /\ stars[s].rating # 0
        BY <3>1, <3>2 DEF StarsInv, AllShow, Interactive, ConnectedRatings
      <4>2. /\ ~TakesStored(stars[s].rating, pending)
            /\ stars' = [c \in Copies |->
                 IF stars[c].waits
                 THEN [stars[c] EXCEPT !.waits = FALSE,
                         !.rating = IF mine'.vote # 0 /\ TakesStored(stars[c].rating, pending)
                                    THEN mine'.vote ELSE stars[c].rating]
                 ELSE stars[c]]
        BY <1>2, <4>1 DEF LoadVoterRatings, TakesStored
      <4>. QED BY <4>1, <4>2 DEF StarsInv, StarsTyped
    <3>. QED BY <3>1, <3>2 DEF StarsInv, AllShow
  <2>. QED BY <2>2, <2>3, <2>4 DEF StarsInv
<1>. QED BY <1>1, <1>2

LEMMA SubmitKeeps ==
  ASSUME StarsInv, NEW c \in Copies, NEW rating \in Ratings, SubmitRating(c, rating)
  PROVE  StarsInv'
<1>1. posts = {} BY DEF StarsInv, OneOut, SubmitRating, MaySubmit
<1>2. StarsTyped'
  <2>1. posts' = {[n |-> votes, rating |-> rating, stored |-> FALSE]} /\ votes' = votes + 1
    BY <1>1 DEF SubmitRating
  <2>2. stars' \in [Copies -> [connected : BOOLEAN, attribute : Votes, rating : Votes,
                               busy : BOOLEAN, waits : BOOLEAN]]
    BY DEF StarsInv, StarsTyped, SubmitRating
  <2>3. /\ posts' \subseteq [n : Nat, rating : Ratings, stored : BOOLEAN]
        /\ votes' \in Nat /\ pending' \in BOOLEAN
    <3>1. votes \in Nat BY DEF StarsInv, StarsTyped
    <3>2. [n |-> votes, rating |-> rating, stored |-> FALSE]
             \in [n : Nat, rating : Ratings, stored : BOOLEAN]
      BY <3>1
    <3>3. posts' \subseteq [n : Nat, rating : Ratings, stored : BOOLEAN] BY <2>1, <3>2
    <3>4. pending' = TRUE BY DEF SubmitRating
    <3>. QED BY <2>1, <3>1, <3>3, <3>4
  <2>4. row' \in Votes /\ posted' \in Votes
        /\ mine' \in [state : {"unasked", "asked", "read", "here"}, vote : Votes]
    BY DEF StarsInv, StarsTyped, SubmitRating
  <2>. QED BY <2>2, <2>3, <2>4 DEF StarsTyped
<1>3. OneOut' BY <1>1 DEF OneOut, SubmitRating
<1>4. AllShow' BY DEF StarsInv, StarsTyped, AllShow, SubmitRating, Interactive, ConnectedRatings
<1>. QED BY <1>2, <1>3, <1>4 DEF StarsInv

(* The vote reaches the database, is answered, or fails.                   *)
LEMMA PostKeeps ==
  ASSUME StarsInv, NEW post \in posts, Rate(post) \/ ApplyRating(post) \/ Fails(post)
  PROVE  StarsInv'
<1>1. posts = {post} BY DEF StarsInv, OneOut
<1>2. StarsTyped'
  <2>1. CASE Rate(post) BY <2>1 DEF StarsInv, StarsTyped, Rate, Votes
  <2>2. CASE ApplyRating(post) BY <2>2 DEF StarsInv, StarsTyped, ApplyRating, Votes
  <2>3. CASE Fails(post) BY <2>3 DEF StarsInv, StarsTyped, Fails
  <2>. QED BY <2>1, <2>2, <2>3
<1>3. OneOut' BY <1>1 DEF StarsInv, OneOut, Rate, ApplyRating, Fails
<1>4. AllShow'
  <2>1. CASE Rate(post)
    <3>1. pending' = pending BY <2>1 DEF Rate
    <3>. QED BY <2>1, <3>1 DEF StarsInv, AllShow, Rate, Interactive, ConnectedRatings
  <2>2. CASE ApplyRating(post) \/ Fails(post)
    <3> SUFFICES ASSUME NEW s \in Interactive'
                 PROVE  /\ posted' # 0 => stars'[s].rating = posted'
                        /\ stars'[s].busy = pending'
      BY DEF AllShow
    <3>1. s \in Interactive
      BY <2>2 DEF StarsInv, StarsTyped, ApplyRating, Fails, Interactive, ConnectedRatings
    <3>2. s \in Copies BY <3>1 DEF Interactive, ConnectedRatings
    <3>3. CASE ApplyRating(post)
      BY <3>1, <3>2, <3>3 DEF StarsInv, StarsTyped, ApplyRating
    <3>4. CASE Fails(post)
      <4>1. posted' = posted /\ pending' = FALSE BY <3>4 DEF Fails
      <4>2. stars'[s].rating = stars[s].rating /\ stars'[s].busy = FALSE
        BY <3>1, <3>2, <3>4 DEF StarsInv, StarsTyped, Fails
      <4>. QED BY <3>1, <4>1, <4>2 DEF StarsInv, AllShow
    <3>. QED BY <2>2, <3>3, <3>4
  <2>. QED BY <2>1, <2>2
<1>. QED BY <1>2, <1>3, <1>4 DEF StarsInv

LEMMA StarsKeep == StarsInv /\ [BrowserNext]_browserVars => StarsInv'
<1> SUFFICES ASSUME StarsInv, [BrowserNext]_browserVars PROVE StarsInv'
  OBVIOUS
<1>1. CASE StarsNext
  BY <1>1, ConnectKeeps, LeaveKeeps, StoredKeeps, SubmitKeeps, PostKeeps DEF StarsNext
<1>2. CASE UNCHANGED starVars
  BY <1>2 DEF starVars, StarsInv, StarsTyped, OneOut, AllShow, Interactive, ConnectedRatings
<1>. QED BY <1>1, <1>2 DEF BrowserNext, browserVars

(***************************************************************************)
(* The stars show the last vote of this page, for any copies, any votes    *)
(* and however late the stored one is answered (rating-stars.js).          *)
(***************************************************************************)
THEOREM LastVoteShownCorrect == BrowserSpec => []LastVoteShown
<1>1. StarsInv => LastVoteShown
  <2> SUFFICES ASSUME StarsInv PROVE LastVoteShown
    OBVIOUS
  <2>1. Cardinality(posts) <= 1
    <3>1. CASE posts = {} BY <3>1, FS_EmptySet
    <3>2. CASE posts # {}
      <4>1. PICK p : p \in posts BY <3>2
      <4>2. posts = {p} BY <4>1 DEF StarsInv, OneOut
      <4>. QED BY <4>2, FS_Singleton
    <3>. QED BY <3>1, <3>2
  <2>. QED BY <2>1 DEF StarsInv, StarsTyped, OneOut, AllShow, LastVoteShown
<1>2. BrowserInit => StarsInv BY StarsBegin DEF BrowserInit
<1>. QED BY <1>1, <1>2, StarsKeep, PTL DEF BrowserSpec

-----------------------------------------------------------------------------
(* The player *)

Messages == [action : {"frameFullscreen", "clickFullscreen",
                       "exitFrameFullscreen", "getFrameFullscreen"}, active : BOOLEAN]
SaysOn(m) == m.action = "frameFullscreen" /\ m.active
SaysOff(m) == m.action = "frameFullscreen" /\ ~m.active

(* What messages on their way will bring, in their order.                  *)
OnIn(s) == \E i \in DOMAIN s : SaysOn(s[i])
OffIn(s) == \E i \in DOMAIN s : SaysOff(s[i])
OnThenOff(s) == \E i, j \in DOMAIN s : i < j /\ SaysOn(s[i]) /\ SaysOff(s[j])
AskedIn(s) == \E i \in DOMAIN s : s[i].action = "getFrameFullscreen"
OnlyOf(s, action) == \A i \in DOMAIN s : s[i].action = action
LastOf(s, before) == IF s = <<>> THEN before ELSE s[Len(s)].active

LEMMA Appended ==
  ASSUME NEW s \in Seq(Messages), NEW m \in Messages
  PROVE  LET t == Append(s, m) IN
         /\ t \in Seq(Messages) /\ s \o <<m>> = t
         /\ OnIn(t) <=> OnIn(s) \/ SaysOn(m)
         /\ OffIn(t) <=> OffIn(s) \/ SaysOff(m)
         /\ OnThenOff(t) <=> OnThenOff(s) \/ (OnIn(s) /\ SaysOff(m))
         /\ AskedIn(t) <=> AskedIn(s) \/ m.action = "getFrameFullscreen"
         /\ \A a : OnlyOf(t, a) <=> OnlyOf(s, a) /\ m.action = a
         /\ \A b : LastOf(t, b) = m.active
<1> DEFINE t == Append(s, m)
           n == Len(s) + 1
<1>0. /\ t \in Seq(Messages) /\ s \o <<m>> = t
      /\ Len(s) \in Nat /\ Len(t) = n /\ t # <<>>
      /\ DOMAIN s = 1..Len(s) /\ DOMAIN t = 1..n
      /\ t[n] = m /\ \A i \in 1..Len(s) : t[i] = s[i]
  OBVIOUS
<1>1. DOMAIN t = DOMAIN s \cup {n} /\ \A i \in DOMAIN s : i < n BY <1>0
<1> HIDE DEF t
<1>2. OnIn(t) <=> OnIn(s) \/ SaysOn(m) BY <1>0, <1>1 DEF OnIn
<1>3. OffIn(t) <=> OffIn(s) \/ SaysOff(m) BY <1>0, <1>1 DEF OffIn
<1>4. OnThenOff(t) <=> OnThenOff(s) \/ (OnIn(s) /\ SaysOff(m))
  BY <1>0, <1>1 DEF OnThenOff, OnIn
<1>5. AskedIn(t) <=> AskedIn(s) \/ m.action = "getFrameFullscreen" BY <1>0, <1>1 DEF AskedIn
<1>6. \A a : OnlyOf(t, a) <=> OnlyOf(s, a) /\ m.action = a BY <1>0, <1>1 DEF OnlyOf
<1>7. \A b : LastOf(t, b) = m.active BY <1>0 DEF LastOf
<1>. QED BY <1>0, <1>2, <1>3, <1>4, <1>5, <1>6, <1>7 DEF t

LEMMA Twice ==
  ASSUME NEW s \in Seq(Messages), NEW m \in Messages
  PROVE  s \o <<m, m>> = Append(Append(s, m), m)
OBVIOUS

LEMMA Taken ==
  ASSUME NEW s \in Seq(Messages), s # <<>>
  PROVE  LET m == Head(s)
             t == Tail(s)
         IN
         /\ m \in Messages /\ t \in Seq(Messages)
         /\ OnIn(s) <=> SaysOn(m) \/ OnIn(t)
         /\ OffIn(s) <=> SaysOff(m) \/ OffIn(t)
         /\ OnThenOff(s) <=> OnThenOff(t) \/ (SaysOn(m) /\ OffIn(t))
         /\ AskedIn(s) <=> m.action = "getFrameFullscreen" \/ AskedIn(t)
         /\ \A a : OnlyOf(s, a) <=> m.action = a /\ OnlyOf(t, a)
         /\ \A b : LastOf(s, b) = LastOf(t, m.active)
<1> DEFINE m == Head(s)
           t == Tail(s)
<1>0. /\ m \in Messages /\ t \in Seq(Messages)
      /\ Len(s) \in Nat /\ Len(s) >= 1 /\ Len(t) = Len(s) - 1
      /\ DOMAIN s = 1..Len(s) /\ DOMAIN t = 1..Len(t)
      /\ s[1] = m /\ \A i \in 1..Len(t) : t[i] = s[i + 1]
  OBVIOUS
<1>1. 1 \in DOMAIN s /\ \A i \in DOMAIN t : i \in Nat /\ i + 1 \in DOMAIN s /\ i + 1 > 1 BY <1>0
<1>2. \A k \in DOMAIN s : k = 1 \/ (k - 1 \in DOMAIN t /\ t[k - 1] = s[k] /\ k > 1 /\ k \in Nat) BY <1>0
<1> HIDE DEF m, t
<1>3. OnIn(s) <=> SaysOn(m) \/ OnIn(t) BY <1>0, <1>1, <1>2 DEF OnIn
<1>4. OffIn(s) <=> SaysOff(m) \/ OffIn(t) BY <1>0, <1>1, <1>2 DEF OffIn
<1>5. OnThenOff(s) <=> OnThenOff(t) \/ (SaysOn(m) /\ OffIn(t))
  <2>1. ASSUME OnThenOff(s) PROVE OnThenOff(t) \/ (SaysOn(m) /\ OffIn(t))
    <3>1. PICK i, j \in DOMAIN s : i < j /\ SaysOn(s[i]) /\ SaysOff(s[j]) BY <2>1 DEF OnThenOff
    <3>2. j # 1 /\ j - 1 \in DOMAIN t /\ t[j - 1] = s[j] BY <1>0, <1>2, <3>1
    <3>3. CASE i = 1 BY <1>0, <3>1, <3>2, <3>3 DEF OffIn
    <3>4. CASE i # 1
      <4>1. i - 1 \in DOMAIN t /\ t[i - 1] = s[i] /\ i - 1 < j - 1 BY <1>0, <1>2, <3>1, <3>4
      <4>. QED BY <3>1, <3>2, <4>1 DEF OnThenOff
    <3>. QED BY <3>3, <3>4
  <2>2. ASSUME OnThenOff(t) PROVE OnThenOff(s)
    <3>1. PICK i, j \in DOMAIN t : i < j /\ SaysOn(t[i]) /\ SaysOff(t[j]) BY <2>2 DEF OnThenOff
    <3>2. i + 1 < j + 1 BY <1>1, <3>1
    <3>. QED BY <1>0, <1>1, <3>1, <3>2 DEF OnThenOff
  <2>3. ASSUME SaysOn(m), OffIn(t) PROVE OnThenOff(s)
    <3>1. PICK j \in DOMAIN t : SaysOff(t[j]) BY <2>3 DEF OffIn
    <3>. QED BY <1>0, <1>1, <2>3, <3>1 DEF OnThenOff
  <2>. QED BY <2>1, <2>2, <2>3
<1>6. AskedIn(s) <=> m.action = "getFrameFullscreen" \/ AskedIn(t) BY <1>0, <1>1, <1>2 DEF AskedIn
<1>7. ASSUME NEW a PROVE OnlyOf(s, a) <=> m.action = a /\ OnlyOf(t, a)
  <2>1. ASSUME OnlyOf(s, a) PROVE m.action = a /\ OnlyOf(t, a)
    BY <1>0, <1>1, <2>1 DEF OnlyOf
  <2>2. ASSUME m.action = a, OnlyOf(t, a), NEW k \in DOMAIN s PROVE s[k].action = a
    <3>1. CASE k = 1 BY <1>0, <2>2, <3>1
    <3>2. CASE k # 1
      <4>1. k - 1 \in DOMAIN t /\ t[k - 1] = s[k] BY <1>2, <3>2
      <4>. QED BY <2>2, <4>1 DEF OnlyOf
    <3>. QED BY <3>1, <3>2
  <2>. QED BY <2>1, <2>2 DEF OnlyOf
<1>8. \A b : LastOf(s, b) = LastOf(t, m.active)
  <2>1. CASE t = <<>> BY <1>0, <2>1 DEF LastOf
  <2>2. CASE t # <<>>
    <3>1. Len(t) \in 1..Len(t) /\ t[Len(t)] = s[Len(s)] BY <1>0, <2>2
    <3>. QED BY <2>2, <3>1 DEF LastOf
  <2>. QED BY <2>1, <2>2
<1>. QED BY <1>0, <1>3, <1>4, <1>5, <1>6, <1>7, <1>8 DEF m, t

PlayerTyped ==
  /\ setting \in [{"sameOrigin", "game", "loader", "local", "files"} -> BOOLEAN]
  /\ frame \in {"poster", "loading", "listening", "ready"}
  /\ owner \in BOOLEAN /\ asking \in BOOLEAN /\ outer \in BOOLEAN /\ inner \in BOOLEAN
  /\ unsaved \in BOOLEAN /\ hasty \in BOOLEAN
  /\ child \in [full : BOOLEAN, saveOnFrameExit : BOOLEAN, autoSave : BOOLEAN,
                asked : BOOLEAN, due : BOOLEAN]
  /\ toFrame \in Seq(Messages) /\ toPage \in Seq(Messages)

(* Before its script runs nothing is said to the frame or shown in it, and *)
(* before it has loaded nothing is changed.                                *)
NotYet ==
  /\ ~Listens =>
       /\ toFrame = <<>> /\ toPage = <<>> /\ ~inner
       /\ ~child.full /\ ~child.saveOnFrameExit /\ ~child.due /\ ~child.asked
  /\ frame # "ready" => ~unsaved

(* The page holds the frame while it asks for it or has it, and asks only  *)
(* while nothing is fullscreen; of a frame of this origin it never asks.   *)
Holds ==
  /\ asking => ~outer /\ ~inner
  /\ ~hasty => (owner <=> asking \/ outer)
  /\ setting.sameOrigin => ~owner /\ ~asking /\ ~outer /\ ~child.full
  /\ OnlyOf(toFrame, IF setting.sameOrigin THEN "clickFullscreen" ELSE "frameFullscreen")

(* What the frame is told last is what the browser did last; until it has  *)
(* loaded it may not have been told yet.                                   *)
ToldRight(s) ==
  LastOf(s, child.full) = outer \/ (frame # "ready" /\ LastOf(s, child.full) = FALSE)
ToldLast == Listens /\ ~hasty => ToldRight(toFrame)

(* js-dos saves by itself, and no save waits for storage that has answered. *)
SavesByItself ==
  /\ child.due => ~child.asked
  /\ Listens /\ setting.local /\ setting.files => child.autoSave

Armed == child.full /\ child.saveOnFrameExit

(* In the outer fullscreen alone the frame is to save at the end of it, or *)
(* it will be told so, or has asked.                                       *)
WillBeArmed ==
  frame = "ready" /\ outer /\ ~inner /\ ~hasty => Armed \/ OnIn(toFrame) \/ AskedIn(toPage)

(* Out of every fullscreen, what is not saved is about to be.              *)
WillSave ==
  frame = "ready" /\ ~outer /\ ~inner /\ ~hasty /\ unsaved /\ setting.local /\ setting.files
    => (Armed /\ OffIn(toFrame)) \/ OnThenOff(toFrame) \/ child.due

PlayerInv ==
  PlayerTyped /\ NotYet /\ Holds /\ ToldLast /\ SavesByItself /\ WillBeArmed /\ WillSave

LEMMA NothingSaid ==
  /\ <<>> \in Seq(Messages)
  /\ ~OnIn(<<>>) /\ ~OffIn(<<>>) /\ ~OnThenOff(<<>>) /\ ~AskedIn(<<>>)
  /\ \A a : OnlyOf(<<>>, a)
  /\ \A b : LastOf(<<>>, b) = b
BY DEF OnIn, OffIn, OnThenOff, AskedIn, OnlyOf, LastOf

LEMMA Said ==
  /\ \A b \in BOOLEAN : /\ State(b) \in Messages
                        /\ SaysOn(State(b)) <=> b
                        /\ SaysOff(State(b)) <=> ~b
                        /\ State(b).active = b /\ State(b).action = "frameFullscreen"
  /\ \A a \in {"clickFullscreen", "exitFrameFullscreen", "getFrameFullscreen"} :
       /\ Say(a) \in Messages /\ ~SaysOn(Say(a)) /\ ~SaysOff(Say(a))
       /\ ~Say(a).active /\ Say(a).action = a
BY DEF State, Say, Messages, SaysOn, SaysOff

LEMMA PlayerBegins == PlayerInit => PlayerInv
<1> SUFFICES ASSUME PlayerInit PROVE PlayerInv
  OBVIOUS
<1>1. PlayerTyped BY NothingSaid DEF PlayerInit, PlayerTyped
<1>2. NotYet /\ Holds /\ ToldLast /\ SavesByItself /\ WillBeArmed /\ WillSave
  BY NothingSaid DEF PlayerInit, NotYet, Holds, ToldLast, SavesByItself, WillBeArmed, WillSave,
                     Armed, Listens, ToldRight
<1>. QED BY <1>1, <1>2 DEF PlayerInv

(* A frame that does not know of a fullscreen yet is being told of it.     *)
LEMMA LastIsOn ==
  ASSUME NEW s \in Seq(Messages), LastOf(s, FALSE) = TRUE, OnlyOf(s, "frameFullscreen")
  PROVE  OnIn(s)
<1>1. s # <<>> BY DEF LastOf
<1>2. Len(s) \in DOMAIN s BY <1>1
<1>. QED BY <1>1, <1>2 DEF LastOf, OnlyOf, OnIn, SaysOn

(* Out of every fullscreen at once: the frame is told, or saves by itself. *)
LEMMA LeavesAll ==
  ASSUME PlayerInv, FullscreenElement, NEW from \in Seq(Messages),
         ~Listens => from = <<>>,
         FullscreenChange(FALSE, FALSE, toFrame, from), UNCHANGED <<setting, frame, asking>>
  PROVE  PlayerInv'
<1>0. PlayerTyped /\ NotYet /\ Holds /\ ToldLast /\ SavesByItself /\ WillBeArmed /\ WillSave
  BY DEF PlayerInv
<1>1. ~asking BY <1>0 DEF Holds, FullscreenElement
<1>2. /\ ~outer' /\ ~inner' /\ ~owner' /\ outer' \in BOOLEAN /\ inner' \in BOOLEAN /\ owner' \in BOOLEAN
      /\ toFrame' = IF owner THEN Post(toFrame, <<State(FALSE)>>) ELSE toFrame
      /\ child' = child
      /\ toPage' = IF inner /\ child.full THEN Append(from, Say("getFrameFullscreen")) ELSE from
      /\ unsaved' = (unsaved /\ ~(inner /\ child.autoSave /\ setting.files))
      /\ hasty' = (hasty \/ (outer /\ ~inner /\ child.full /\ ~child.saveOnFrameExit
                             /\ <<toFrame, toPage>> # <<<<>>, <<>>>>))
  BY <1>0, <1>1 DEF FullscreenChange, SendFullscreenState, FullscreenElement, Forgets, Asks,
                    PlayerTyped
<1>3. State(FALSE) \in Messages /\ ~SaysOn(State(FALSE)) /\ SaysOff(State(FALSE))
      /\ ~State(FALSE).active /\ State(FALSE).action = "frameFullscreen"
  BY Said
<1>4. IF owner /\ Listens
      THEN /\ toFrame' \in Seq(Messages)
           /\ OnIn(toFrame') <=> OnIn(toFrame)
           /\ OffIn(toFrame')
           /\ OnThenOff(toFrame') <=> OnThenOff(toFrame) \/ OnIn(toFrame)
           /\ \A a : OnlyOf(toFrame', a) <=> OnlyOf(toFrame, a) /\ a = "frameFullscreen"
           /\ \A b : LastOf(toFrame', b) = FALSE
      ELSE toFrame' = toFrame
  <2>1. CASE owner /\ Listens
    <3>1. toFrame \in Seq(Messages) BY <1>0 DEF PlayerTyped
    <3>2. toFrame' = Append(toFrame, State(FALSE)) BY <1>2, <1>3, <2>1, <3>1, Appended DEF Post,
                                                                                           Listens
    <3>3. /\ toFrame' \in Seq(Messages)
          /\ OnIn(toFrame') <=> OnIn(toFrame)
          /\ OffIn(toFrame')
          /\ OnThenOff(toFrame') <=> OnThenOff(toFrame) \/ OnIn(toFrame)
      BY <1>3, <3>1, <3>2, Appended
    <3>4. \A a : OnlyOf(toFrame', a) <=> OnlyOf(toFrame, a) /\ a = "frameFullscreen"
      BY <1>3, <3>1, <3>2, Appended
    <3>5. \A b : LastOf(toFrame', b) = FALSE
      <4>1. \A b : LastOf(toFrame', b) = State(FALSE).active BY <1>3, <3>1, <3>2, Appended
      <4>. QED BY <4>1 DEF State
    <3>. QED BY <2>1, <3>3, <3>4, <3>5
  <2>2. CASE ~(owner /\ Listens) BY <1>2, <2>2 DEF Post, Listens
  <2>. QED BY <2>1, <2>2
<1>5. toPage' \in Seq(Messages) BY <1>2, Said, Appended
<1>6. PlayerTyped' BY <1>0, <1>2, <1>4, <1>5 DEF PlayerTyped
<1>7. NotYet' BY <1>0, <1>2, <1>4 DEF NotYet, PlayerTyped, Listens
<1>8. Holds' BY <1>0, <1>1, <1>2, <1>4 DEF Holds, PlayerTyped
<1>9. ToldLast' BY <1>0, <1>1, <1>2, <1>4 DEF ToldLast, Holds, PlayerTyped, Listens, ToldRight
<1>10. SavesByItself' /\ WillBeArmed' BY <1>0, <1>2 DEF SavesByItself, WillBeArmed, Listens
<1>11. WillSave'
  <2> SUFFICES ASSUME frame = "ready", ~hasty', unsaved', setting.local, setting.files
               PROVE  (Armed' /\ OffIn(toFrame')) \/ OnThenOff(toFrame') \/ child'.due
    BY <1>2 DEF WillSave
  <2>1. ~inner /\ outer /\ ~hasty BY <1>0, <1>2 DEF SavesByItself, FullscreenElement,
                                                    PlayerTyped, Listens
  <2>2. owner BY <1>0, <2>1 DEF Holds
  <2>3. CASE Armed BY <1>2, <1>4, <2>2, <2>3 DEF Armed, Listens
  <2>4. CASE OnIn(toFrame) BY <1>4, <2>2, <2>4 DEF Listens
  <2>5. CASE ~Armed /\ ~OnIn(toFrame)
    <3>1. AskedIn(toPage) BY <1>0, <2>1, <2>5 DEF WillBeArmed
    <3>2. toPage # <<>> BY <3>1, NothingSaid
    <3>3. ~child.full BY <1>0, <1>2, <2>1, <2>5, <3>2 DEF Armed
    <3>4. OnIn(toFrame)
      BY <1>0, <2>1, <2>2, <3>3, LastIsOn DEF ToldLast, Holds, PlayerTyped, Listens, ToldRight
    <3>. QED BY <2>5, <3>4
  <2>. QED BY <2>3, <2>4, <2>5
<1>. QED BY <1>6, <1>7, <1>8, <1>9, <1>10, <1>11 DEF PlayerInv

(* The emulator's own fullscreen comes, or goes and is followed by a save. *)
LEMMA TurnsInner ==
  ASSUME PlayerInv, Listens, inner \/ ~asking, NEW to \in Seq(Messages),
         to # toFrame => setting.sameOrigin,
         OnlyOf(to, IF setting.sameOrigin THEN "clickFullscreen" ELSE "frameFullscreen"),
         ~hasty => ToldRight(to),
         FullscreenChange(outer, ~inner, to, toPage), UNCHANGED <<setting, frame, asking>>
  PROVE  PlayerInv'
<1>0. PlayerTyped /\ NotYet /\ Holds /\ ToldLast /\ SavesByItself /\ WillBeArmed /\ WillSave
  BY DEF PlayerInv
<1>1. ~asking BY <1>0 DEF Holds
<1>2. /\ outer' = outer /\ inner' = ~inner
      /\ IF ~outer THEN SendFullscreenState(~inner, to) ELSE toFrame' = to /\ UNCHANGED owner
      /\ child' = IF inner THEN child ELSE [child EXCEPT !.saveOnFrameExit = FALSE]
      /\ toPage' = IF inner /\ child.full THEN Append(toPage, Say("getFrameFullscreen")) ELSE toPage
      /\ unsaved' = (unsaved /\ ~(inner /\ child.autoSave /\ setting.files))
      /\ hasty' = hasty
  BY <1>0, <1>1 DEF FullscreenChange, FullscreenElement, Forgets, Asks, PlayerTyped
<1>3. ~hasty => owner = outer BY <1>0, <1>1 DEF Holds, PlayerTyped
<1>4. /\ toFrame' \in Seq(Messages) /\ owner' \in BOOLEAN
      /\ OnlyOf(toFrame', IF setting.sameOrigin THEN "clickFullscreen" ELSE "frameFullscreen")
      /\ ~hasty => toFrame' = to /\ owner' = owner
      /\ ~owner => ~owner'
  <2>1. CASE ~outer /\ owner
    <3>0. PICK b \in BOOLEAN : b = ~inner BY <1>0 DEF PlayerTyped
    <3>1. SendFullscreenState(b, to) BY <1>2, <2>1, <3>0
    <3>2. toFrame' = to \o <<State(b)>> /\ owner' = (owner /\ b)
      BY <2>1, <3>1 DEF SendFullscreenState, Post, Listens
    <3>3. toFrame' = Append(to, State(b)) BY <3>2, Said, Appended
    <3>4. ~setting.sameOrigin /\ hasty BY <1>0, <1>3, <2>1 DEF Holds
    <3>5. State(b) \in Messages /\ State(b).action = "frameFullscreen" BY Said
    <3>6. OnlyOf(to, "frameFullscreen") BY <3>4
    <3>7. OnlyOf(toFrame', "frameFullscreen") BY <3>3, <3>5, <3>6, Appended
    <3>8. toFrame' \in Seq(Messages) BY <3>3, <3>5, Appended
    <3>9. owner' \in BOOLEAN BY <3>2
    <3>. QED BY <2>1, <3>4, <3>7, <3>8, <3>9
  <2>2. CASE outer \/ ~owner
    BY <1>0, <1>2, <2>2 DEF SendFullscreenState, PlayerTyped
  <2>. QED BY <2>1, <2>2
<1>5. /\ child' \in [full : BOOLEAN, saveOnFrameExit : BOOLEAN, autoSave : BOOLEAN,
                     asked : BOOLEAN, due : BOOLEAN]
      /\ child'.full = child.full /\ child'.autoSave = child.autoSave
      /\ child'.asked = child.asked /\ child'.due = child.due
      /\ inner => child'.saveOnFrameExit = child.saveOnFrameExit
  BY <1>0, <1>2 DEF PlayerTyped
<1>6. toPage' \in Seq(Messages)
  BY <1>0, <1>2, Said, Appended DEF PlayerTyped
<1>7. PlayerTyped' BY <1>0, <1>2, <1>4, <1>5, <1>6 DEF PlayerTyped
<1>8. NotYet' BY <1>0, <1>2 DEF NotYet, Listens
<1>9. Holds' BY <1>0, <1>1, <1>2, <1>4, <1>5 DEF Holds
<1>10. ToldLast' BY <1>0, <1>2, <1>4, <1>5 DEF ToldLast, Listens, ToldRight
<1>11. SavesByItself' BY <1>0, <1>2, <1>5 DEF SavesByItself, Listens
<1>12. WillBeArmed'
  <2> SUFFICES ASSUME frame = "ready", outer, inner, ~hasty
               PROVE  OnIn(toFrame') \/ AskedIn(toPage')
    BY <1>0, <1>2 DEF WillBeArmed, PlayerTyped
  <2>1. CASE child.full BY <1>0, <1>2, <2>1, Said, Appended DEF PlayerTyped
  <2>2. CASE ~child.full
    <3>1. ~setting.sameOrigin BY <1>0 DEF Holds
    <3>2. OnIn(to) BY <1>0, <2>2, <3>1, LastIsOn DEF PlayerTyped, ToldRight
    <3>. QED BY <1>4, <3>2
  <2>. QED BY <2>1, <2>2
<1>13. WillSave' BY <1>0, <1>2 DEF WillSave, SavesByItself, PlayerTyped, Listens
<1>. QED BY <1>7, <1>8, <1>9, <1>10, <1>11, <1>12, <1>13 DEF PlayerInv

(* The frame comes: an early request is said again.                        *)
LEMMA StartsAndLoads ==
  ASSUME PlayerInv, StartPlayer \/ FrameStarts \/ FrameLoads
  PROVE  PlayerInv'
<1>0. PlayerTyped /\ NotYet /\ Holds /\ ToldLast /\ SavesByItself /\ WillBeArmed /\ WillSave
  BY DEF PlayerInv
<1>1. CASE StartPlayer
  <2>1. PlayerTyped' /\ NotYet' /\ Holds'
    BY <1>0, <1>1 DEF StartPlayer, PlayerTyped, NotYet, Holds, Listens
  <2>2. ToldLast' /\ SavesByItself' /\ WillBeArmed' /\ WillSave'
    BY <1>0, <1>1 DEF StartPlayer, ToldLast, SavesByItself, WillBeArmed, WillSave, Listens,
                      ToldRight
  <2>. QED BY <2>1, <2>2 DEF PlayerInv
<1>2. CASE FrameStarts
  <2>1. /\ frame = "loading" /\ frame' = "listening"
        /\ child' = [child EXCEPT !.autoSave = setting.local]
        /\ UNCHANGED <<setting, owner, asking, outer, inner, toFrame, toPage, unsaved, hasty>>
    BY <1>2 DEF FrameStarts
  <2>2. /\ child'.full = child.full /\ child'.due = child.due /\ child'.autoSave = setting.local
        /\ child' \in [full : BOOLEAN, saveOnFrameExit : BOOLEAN, autoSave : BOOLEAN,
                       asked : BOOLEAN, due : BOOLEAN]
    BY <1>0, <2>1 DEF PlayerTyped
  <2>3. PlayerTyped' BY <1>0, <2>1, <2>2 DEF PlayerTyped
  <2>4. toFrame = <<>> /\ ~child.full /\ ~child.due /\ ~unsaved
    BY <1>0, <2>1 DEF NotYet, Listens
  <2>5. NotYet' /\ Holds' /\ SavesByItself' /\ WillBeArmed' /\ WillSave'
    BY <1>0, <2>1, <2>2, <2>4 DEF NotYet, Holds, SavesByItself, WillBeArmed, WillSave, Listens
  <2>6. ToldLast'
    <3>1. child.full = FALSE BY <1>0, <2>4 DEF PlayerTyped
    <3>. QED BY <2>1, <2>2, <2>4, <3>1 DEF ToldLast, ToldRight, LastOf, Listens
  <2>. QED BY <2>3, <2>5, <2>6 DEF PlayerInv
<1>3. CASE FrameLoads
  <2>1. PICK b \in BOOLEAN : b = FullscreenElement BY <1>0 DEF FullscreenElement, PlayerTyped
  <2>2. /\ frame = "listening" /\ frame' = "ready" /\ hasty' = (hasty \/ Forgets)
        /\ SendFullscreenState(b, toFrame)
        /\ UNCHANGED <<setting, asking, outer, inner, child, toPage, unsaved>>
    BY <1>3, <2>1 DEF FrameLoads
  <2>3. Listens /\ Listens' /\ ~unsaved BY <1>0, <2>2 DEF NotYet, Listens
  <2>4. owner' = (owner /\ b) /\ toFrame' = IF owner THEN toFrame \o <<State(b)>> ELSE toFrame
    BY <2>2, <2>3 DEF SendFullscreenState, Post, Listens
  <2>5. NotYet' /\ SavesByItself' /\ WillSave'
    BY <1>0, <2>2, <2>3 DEF NotYet, SavesByItself, WillSave, Listens
  <2>6. CASE owner
    <3>1. State(b) \in Messages /\ toFrame \in Seq(Messages) BY <1>0, Said DEF PlayerTyped
    <3>2. toFrame' = Append(toFrame, State(b)) BY <2>4, <2>6, <3>1, Appended
    <3>3. toFrame' \in Seq(Messages) /\ (OnIn(toFrame') <=> OnIn(toFrame) \/ b)
      BY <3>1, <3>2, Appended, Said
    <3>4. \A x : LastOf(toFrame', x) = b
      <4>1. \A x : LastOf(toFrame', x) = State(b).active BY <3>1, <3>2, Appended
      <4>. QED BY <4>1, Said
    <3>5. OnlyOf(toFrame, "frameFullscreen") => OnlyOf(toFrame', "frameFullscreen")
      BY <3>1, <3>2, Appended, Said
    <3>6. ~setting.sameOrigin BY <1>0, <2>6 DEF Holds
    <3>7. ASSUME ~hasty' PROVE ~asking /\ outer /\ b
      <4>1. ~hasty /\ ~Forgets BY <2>2, <3>7
      <4>2. CASE asking
        <5>1. ~b BY <1>0, <2>1, <4>2 DEF Holds, FullscreenElement
        <5>. QED BY <2>4, <2>6, <4>1, <4>2, <5>1 DEF Forgets
      <4>3. CASE ~asking BY <1>0, <2>1, <2>6, <4>1, <4>3 DEF Holds, FullscreenElement
      <4>. QED BY <4>2, <4>3
    <3>8. PlayerTyped' BY <1>0, <2>2, <2>4, <3>3 DEF PlayerTyped, Forgets
    <3>9. Holds' BY <1>0, <2>2, <2>4, <2>6, <3>5, <3>6, <3>7 DEF Holds
    <3>10. ToldLast' /\ WillBeArmed'
      BY <1>0, <2>2, <3>3, <3>4, <3>7 DEF ToldLast, ToldRight, WillBeArmed, PlayerTyped, Listens
    <3>. QED BY <2>5, <3>8, <3>9, <3>10 DEF PlayerInv
  <2>7. CASE ~owner
    <3>1. toFrame' = toFrame /\ ~owner' BY <2>4, <2>7
    <3>2. PlayerTyped' /\ Holds' BY <1>0, <2>2, <2>4, <2>7, <3>1 DEF PlayerTyped, Holds, Forgets
    <3>3. ~hasty' => ~hasty /\ outer = FALSE BY <1>0, <2>2, <2>7 DEF Holds, PlayerTyped
    <3>4. ToldLast' /\ WillBeArmed'
      BY <1>0, <2>2, <2>3, <3>1, <3>3 DEF ToldLast, ToldRight, WillBeArmed, Listens
    <3>. QED BY <2>5, <3>2, <3>4 DEF PlayerInv
  <2>. QED BY <2>6, <2>7
<1>. QED BY <1>1, <1>2, <1>3

(* The storage of the saves answers, and the game goes on.                 *)
LEMMA SavesAndWrites ==
  ASSUME PlayerInv, SaveStorage \/ GameWrites
  PROVE  PlayerInv'
<1>0. PlayerTyped /\ NotYet /\ Holds /\ ToldLast /\ SavesByItself /\ WillBeArmed /\ WillSave
  BY DEF PlayerInv
<1>1. CASE SaveStorage
  <2>1. /\ child'.full = child.full /\ child'.saveOnFrameExit = child.saveOnFrameExit
        /\ ~child'.due
        /\ child'.autoSave = (child.autoSave /\ (setting.files \/ ~setting.local))
        /\ child' \in [full : BOOLEAN, saveOnFrameExit : BOOLEAN, autoSave : BOOLEAN,
                       asked : BOOLEAN, due : BOOLEAN]
    BY <1>0, <1>1 DEF SaveStorage, PlayerTyped
  <2>2. PlayerTyped' BY <1>0, <1>1, <2>1 DEF SaveStorage, PlayerTyped
  <2>3. NotYet' /\ Holds' /\ ToldLast' /\ SavesByItself' /\ WillBeArmed'
    BY <1>0, <1>1, <2>1 DEF SaveStorage, NotYet, Holds, ToldLast, SavesByItself, WillBeArmed,
                            Armed, Listens, ToldRight
  <2>4. WillSave' BY <1>0, <1>1, <2>1 DEF SaveStorage, WillSave, Armed
  <2>. QED BY <2>2, <2>3, <2>4 DEF PlayerInv
<1>2. CASE GameWrites
  <2>1. PlayerTyped' BY <1>0, <1>2 DEF GameWrites, PlayerTyped
  <2>2. NotYet' BY <1>0, <1>2 DEF GameWrites, NotYet, Running, Listens
  <2>3. Holds' /\ ToldLast' /\ SavesByItself' /\ WillBeArmed'
    BY <1>0, <1>2 DEF GameWrites, Holds, ToldLast, SavesByItself, WillBeArmed, Armed, Listens,
                      ToldRight
  <2>4. WillSave' BY <1>0, <1>2 DEF GameWrites, WillSave, FullscreenElement
  <2>. QED BY <2>1, <2>2, <2>3, <2>4 DEF PlayerInv
<1>. QED BY <1>1, <1>2

(* The browser's answers to the page's request.                            *)
LEMMA RequestAnswered ==
  ASSUME PlayerInv, Granted \/ Refused
  PROVE  PlayerInv'
<1>0. PlayerTyped /\ NotYet /\ Holds /\ ToldLast /\ SavesByItself /\ WillBeArmed /\ WillSave
  BY DEF PlayerInv
<1>1. ~outer /\ ~inner /\ asking /\ ~setting.sameOrigin
  BY <1>0 DEF Granted, Refused, Holds
<1>2. CASE Refused
  <2>1. PlayerTyped' /\ NotYet' /\ Holds'
    BY <1>0, <1>1, <1>2 DEF Refused, PlayerTyped, NotYet, Holds, Listens
  <2>2. ToldLast' /\ SavesByItself' /\ WillBeArmed' /\ WillSave'
    BY <1>0, <1>2 DEF Refused, ToldLast, SavesByItself, WillBeArmed, WillSave, Armed, Listens,
                      ToldRight
  <2>. QED BY <2>1, <2>2 DEF PlayerInv
<1>3. CASE Granted
  <2> DEFINE m == State(TRUE)
  <2>1. m \in Messages /\ SaysOn(m) /\ m.active = TRUE /\ m.action = "frameFullscreen" BY Said
  <2>2. /\ asking' = FALSE /\ outer' = TRUE
        /\ toFrame' = IF owner /\ Listens THEN toFrame \o <<m, m>> ELSE toFrame
        /\ UNCHANGED <<setting, frame, owner, inner, child, toPage, unsaved, hasty>>
    BY <1>3 DEF Granted, Post, Listens
  <2>3. IF owner /\ Listens
        THEN /\ toFrame' \in Seq(Messages) /\ OnIn(toFrame')
             /\ \A b : LastOf(toFrame', b) = TRUE
             /\ OnlyOf(toFrame', "frameFullscreen")
        ELSE toFrame' = toFrame
    <3>1. CASE owner /\ Listens
      <4>1. toFrame \in Seq(Messages) BY <1>0 DEF PlayerTyped
      <4>2. toFrame' = Append(Append(toFrame, m), m) BY <2>1, <2>2, <3>1, <4>1, Twice
      <4>3. Append(toFrame, m) \in Seq(Messages) /\ OnlyOf(Append(toFrame, m), "frameFullscreen")
        BY <1>0, <1>1, <2>1, <4>1, Appended DEF Holds
      <4>. QED BY <2>1, <3>1, <4>2, <4>3, Appended
    <3>2. CASE ~(owner /\ Listens) BY <2>2, <3>2
    <3>. QED BY <3>1, <3>2
  <2>4. ~hasty => owner BY <1>0, <1>1 DEF Holds
  <2>5. PlayerTyped' BY <1>0, <2>2, <2>3 DEF PlayerTyped
  <2>6. NotYet' BY <1>0, <2>2, <2>3 DEF NotYet, Listens
  <2>7. Holds' BY <1>0, <1>1, <2>2, <2>3, <2>4 DEF Holds
  <2>8. ToldLast' /\ WillBeArmed' BY <2>2, <2>3, <2>4 DEF ToldLast, WillBeArmed, Listens, ToldRight
  <2>9. SavesByItself' /\ WillSave' BY <1>0, <2>2 DEF SavesByItself, WillSave, Listens
  <2>. QED BY <2>5, <2>6, <2>7, <2>8, <2>9 DEF PlayerInv
<1>. QED BY <1>2, <1>3

LEMMA ClicksSayNothing ==
  ASSUME NEW s, OnlyOf(s, "clickFullscreen")
  PROVE  ~OnIn(s) /\ ~OnThenOff(s)
BY DEF OnlyOf, OnIn, OnThenOff, SaysOn

(* Alt+Enter in the frame turns the emulator's fullscreen, or asks the     *)
(* page to end its own.                                                    *)
LEMMA Toggles ==
  ASSUME PlayerInv, Listens, NEW to \in Seq(Messages),
         to # toFrame => setting.sameOrigin,
         OnlyOf(to, IF setting.sameOrigin THEN "clickFullscreen" ELSE "frameFullscreen"),
         ~hasty => ToldRight(to),
         ToggleFullscreen(to), UNCHANGED <<setting, frame, asking>>
  PROVE  PlayerInv'
<1>0. PlayerTyped /\ NotYet /\ Holds /\ ToldLast /\ SavesByItself /\ WillBeArmed /\ WillSave
  BY DEF PlayerInv
<1>1. CASE Running /\ ~child.full
  <2>1. OneRequest /\ FullscreenChange(outer, ~inner, to, toPage)
    BY <1>1 DEF ToggleFullscreen
  <2>. QED BY <2>1, TurnsInner DEF OneRequest
<1>2. CASE ~(Running /\ ~child.full)
  <2> DEFINE m == Say("exitFrameFullscreen")
  <2>1. /\ toPage' = IF Running THEN Append(toPage, m) ELSE toPage
        /\ toFrame' = to
        /\ UNCHANGED <<owner, outer, inner, child, unsaved, hasty>>
    BY <1>2 DEF ToggleFullscreen
  <2>2. toPage' \in Seq(Messages) /\ (AskedIn(toPage) => AskedIn(toPage'))
    BY <1>0, <2>1, Said, Appended DEF PlayerTyped
  <2>3. PlayerTyped' BY <1>0, <2>1, <2>2 DEF PlayerTyped
  <2>4. NotYet' /\ SavesByItself' BY <1>0, <2>1 DEF NotYet, SavesByItself, Listens
  <2>5. Holds' BY <1>0, <2>1 DEF Holds
  <2>6. ToldLast' BY <2>1 DEF ToldLast, Listens, ToldRight
  <2>7. WillBeArmed' BY <1>0, <2>1, <2>2 DEF WillBeArmed, Armed, Holds
  <2>8. WillSave'
    <3>1. CASE to = toFrame BY <1>0, <2>1, <3>1 DEF WillSave, Armed
    <3>2. CASE to # toFrame
      <4>1. setting.sameOrigin BY <3>2
      <4>2. ~Armed /\ ~OnThenOff(toFrame) BY <1>0, <4>1, ClicksSayNothing DEF Holds, Armed
      <4>. QED BY <1>0, <2>1, <4>2 DEF WillSave
    <3>. QED BY <3>1, <3>2
  <2>. QED BY <2>3, <2>4, <2>5, <2>6, <2>7, <2>8 DEF PlayerInv
<1>. QED BY <1>1, <1>2

(* Keys pressed in the page.                                               *)
LEMMA PressedInPage ==
  ASSUME PlayerInv, ShortcutInPage \/ Escape
  PROVE  PlayerInv'
<1>0. PlayerTyped /\ NotYet /\ Holds /\ ToldLast /\ SavesByItself /\ WillBeArmed /\ WillSave
  BY DEF PlayerInv
<1>1. CASE /\ FullscreenElement /\ FullscreenChange(FALSE, FALSE, toFrame, toPage)
           /\ UNCHANGED <<setting, frame, asking>>
  <2>1. toPage \in Seq(Messages) /\ (~Listens => toPage = <<>>)
    BY <1>0 DEF PlayerTyped, NotYet, Listens
  <2>. QED BY <1>1, <2>1, LeavesAll
<1>2. CASE /\ ~FullscreenElement /\ ~owner /\ setting.sameOrigin
           /\ toFrame' = Post(toFrame, <<Say("clickFullscreen")>>)
           /\ UNCHANGED <<owner, asking, outer, inner, child, toPage, unsaved, hasty, setting, frame>>
  <2> DEFINE m == Say("clickFullscreen")
  <2>1. m \in Messages /\ m.active = FALSE /\ m.action = "clickFullscreen" /\ ~SaysOff(m) BY Said
  <2>2. toFrame \in Seq(Messages) BY <1>0 DEF PlayerTyped
  <2>3. CASE ~Listens
    <3>1. toFrame' = toFrame BY <1>2, <2>3 DEF Post, Listens
    <3>. QED BY <1>0, <1>2, <2>3, <3>1
         DEF PlayerInv, PlayerTyped, NotYet, Holds, ToldLast, SavesByItself, WillBeArmed,
             WillSave, Listens, ToldRight
  <2>4. CASE Listens
    <3>1. toFrame' = Append(toFrame, m) BY <1>2, <2>1, <2>2, <2>4, Appended DEF Post, Listens
    <3>2. /\ toFrame' \in Seq(Messages)
          /\ OnlyOf(toFrame, "clickFullscreen") => OnlyOf(toFrame', "clickFullscreen")
          /\ \A b : LastOf(toFrame', b) = FALSE
          /\ OnThenOff(toFrame') <=> OnThenOff(toFrame)
      BY <2>1, <2>2, <3>1, Appended
    <3>3. PlayerTyped' BY <1>0, <1>2, <3>2 DEF PlayerTyped
    <3>4. NotYet' /\ SavesByItself' BY <1>0, <1>2, <2>4 DEF NotYet, SavesByItself, Listens
    <3>5. Holds' BY <1>0, <1>2, <3>2 DEF Holds
    <3>6. ToldLast' /\ WillBeArmed' BY <1>0, <1>2, <3>2 DEF ToldLast, WillBeArmed, Holds,
                                                            PlayerTyped, Listens, ToldRight
    <3>7. WillSave' BY <1>0, <1>2, <3>2 DEF WillSave, Armed, Holds
    <3>. QED BY <3>3, <3>4, <3>5, <3>6, <3>7 DEF PlayerInv
  <2>. QED BY <2>3, <2>4
<1>3. CASE /\ ~FullscreenElement /\ ~owner /\ ~setting.sameOrigin
           /\ owner' = TRUE /\ asking' = TRUE
           /\ UNCHANGED <<outer, inner, child, toFrame, toPage, unsaved, hasty, setting, frame>>
  <2>1. PlayerTyped' /\ NotYet' BY <1>0, <1>3 DEF PlayerTyped, NotYet, Listens
  <2>2. Holds' BY <1>0, <1>3 DEF Holds, FullscreenElement
  <2>3. ToldLast' /\ SavesByItself' /\ WillBeArmed' /\ WillSave'
    BY <1>0, <1>3 DEF ToldLast, SavesByItself, WillBeArmed, WillSave, Armed, Listens, ToldRight
  <2>. QED BY <2>1, <2>2, <2>3 DEF PlayerInv
<1>. QED BY <1>1, <1>2, <1>3 DEF ShortcutInPage, Escape

(* Keys pressed in the frame.                                              *)
LEMMA PressedInFrame ==
  ASSUME PlayerInv, ShortcutInFrame \/ ToolbarButton
  PROVE  PlayerInv'
<1>0. PlayerTyped /\ Holds /\ ToldLast BY DEF PlayerInv
<1>1. /\ Listens /\ toFrame \in Seq(Messages) /\ UNCHANGED <<setting, frame, asking>>
      /\ OnlyOf(toFrame, IF setting.sameOrigin THEN "clickFullscreen" ELSE "frameFullscreen")
      /\ ~hasty => ToldRight(toFrame)
  BY <1>0 DEF ShortcutInFrame, ToolbarButton, Running, PlayerTyped, Holds, ToldLast, Listens,
              ToldRight
<1>2. CASE ShortcutInFrame BY <1>1, <1>2, Toggles DEF ShortcutInFrame
<1>3. CASE ToolbarButton
  <2>1. (inner \/ ~asking) /\ FullscreenChange(outer, ~inner, toFrame, toPage)
    BY <1>3 DEF ToolbarButton, OneRequest
  <2>. QED BY <1>1, <2>1, TurnsInner
<1>. QED BY <1>2, <1>3

(* The page hears the frame: it ends the fullscreen, or says how it is.    *)
LEMMA PageHearsKeeps ==
  ASSUME PlayerInv, PageHears
  PROVE  PlayerInv'
<1>0. PlayerTyped /\ NotYet /\ Holds /\ ToldLast /\ SavesByItself /\ WillBeArmed /\ WillSave
  BY DEF PlayerInv
<1> DEFINE said == Head(toPage).action
           rest == Tail(toPage)
<1>1. /\ Listens /\ toPage # <<>> /\ rest \in Seq(Messages)
      /\ AskedIn(toPage) <=> said = "getFrameFullscreen" \/ AskedIn(rest)
      /\ UNCHANGED <<setting, frame, plays, asking, keys>>
  BY <1>0, Taken DEF PageHears, PlayerTyped, NotYet, Listens
<1>2. CASE owner /\ said = "exitFrameFullscreen" /\ FullscreenElement
  <2>1. FullscreenChange(FALSE, FALSE, toFrame, rest) BY <1>2 DEF PageHears
  <2>. QED BY <1>1, <1>2, <2>1, LeavesAll
<1>3. CASE owner /\ said = "getFrameFullscreen"
  <2>1. /\ SendFullscreenState(FullscreenElement, toFrame) /\ toPage' = rest
        /\ hasty' = (hasty \/ Forgets)
        /\ UNCHANGED <<outer, inner, child, unsaved>>
    BY <1>3 DEF PageHears
  <2>2. PICK b \in BOOLEAN : b = FullscreenElement BY <1>0 DEF FullscreenElement, PlayerTyped
  <2>3. toFrame' = toFrame \o <<State(b)>> /\ owner' = b
    BY <1>1, <1>3, <2>1, <2>2 DEF SendFullscreenState, Post, Listens
  <2>4. State(b) \in Messages /\ toFrame \in Seq(Messages) BY <1>0, Said DEF PlayerTyped
  <2>5. toFrame' = Append(toFrame, State(b)) BY <2>3, <2>4, Appended
  <2>6. /\ toFrame' \in Seq(Messages)
        /\ OnIn(toFrame') <=> OnIn(toFrame) \/ b
        /\ OffIn(toFrame') <=> OffIn(toFrame) \/ ~b
        /\ OnThenOff(toFrame') <=> OnThenOff(toFrame) \/ (OnIn(toFrame) /\ ~b)
    BY <2>4, <2>5, Appended, Said
  <2>7. \A x : LastOf(toFrame', x) = State(b).active BY <2>4, <2>5, Appended
  <2>8. \A x : LastOf(toFrame', x) = b BY <2>7, Said
  <2>9. OnlyOf(toFrame, "frameFullscreen") => OnlyOf(toFrame', "frameFullscreen")
    BY <2>4, <2>5, Appended, Said
  <2>10. ~setting.sameOrigin BY <1>0, <1>3 DEF Holds
  <2>11. ASSUME ~hasty' PROVE ~hasty /\ ~asking /\ outer /\ b
    <3>1. ~hasty /\ ~Forgets BY <2>1, <2>11
    <3>2. CASE asking
      <4>1. ~b BY <1>0, <2>2, <3>2 DEF Holds, FullscreenElement
      <4>. QED BY <1>3, <2>3, <3>1, <3>2, <4>1 DEF Forgets
    <3>3. CASE ~asking BY <1>0, <1>3, <2>2, <3>1, <3>3 DEF Holds, FullscreenElement
    <3>. QED BY <3>1, <3>2, <3>3
  <2>12. PlayerTyped' BY <1>0, <1>1, <2>1, <2>3, <2>6 DEF PlayerTyped, Forgets
  <2>13. NotYet' /\ SavesByItself' BY <1>0, <1>1, <2>1 DEF NotYet, SavesByItself, Listens
  <2>14. Holds' BY <1>0, <1>1, <2>1, <2>3, <2>9, <2>10, <2>11 DEF Holds
  <2>15. ToldLast' /\ WillBeArmed' /\ WillSave'
    BY <1>1, <2>1, <2>6, <2>8, <2>11 DEF ToldLast, WillBeArmed, WillSave, Listens, ToldRight
  <2>. QED BY <2>12, <2>13, <2>14, <2>15 DEF PlayerInv
<1>4. CASE ~(owner /\ said = "exitFrameFullscreen" /\ FullscreenElement)
           /\ ~(owner /\ said = "getFrameFullscreen")
  <2>1. toPage' = rest /\ UNCHANGED <<toFrame, owner, outer, inner, child, unsaved>>
        /\ hasty' = (hasty \/ Forgets)
    BY <1>4 DEF PageHears
  <2>2. hasty' = hasty BY <1>0, <2>1 DEF Forgets, PlayerTyped
  <2>3. PlayerTyped' BY <1>0, <1>1, <2>1, <2>2 DEF PlayerTyped
  <2>4. NotYet' /\ Holds' /\ ToldLast' /\ SavesByItself' /\ WillSave'
    BY <1>0, <1>1, <2>1, <2>2 DEF NotYet, Holds, ToldLast, SavesByItself, WillSave, Armed,
                                  Listens, ToldRight
  <2>5. WillBeArmed'
    <3> SUFFICES ASSUME outer, ~inner, ~hasty, AskedIn(toPage) PROVE AskedIn(rest)
      BY <1>0, <1>1, <2>1, <2>2 DEF WillBeArmed, Armed
    <3>1. owner BY <1>0 DEF Holds
    <3>. QED BY <1>1, <1>4, <3>1
  <2>. QED BY <2>3, <2>4, <2>5 DEF PlayerInv
<1>. QED BY <1>2, <1>3, <1>4

(* The frame hears the page.                                               *)
LEMMA FrameHearsKeeps ==
  ASSUME PlayerInv, FrameHears
  PROVE  PlayerInv'
<1>0. PlayerTyped /\ NotYet /\ Holds /\ ToldLast /\ SavesByItself /\ WillBeArmed /\ WillSave
  BY DEF PlayerInv
<1> DEFINE m == Head(toFrame)
           rest == Tail(toFrame)
           save == SavesOnExit(m.active) /\ setting.local
<1>1. /\ Listens /\ toFrame # <<>> /\ m \in Messages /\ rest \in Seq(Messages)
      /\ m.action = IF setting.sameOrigin THEN "clickFullscreen" ELSE "frameFullscreen"
      /\ OnlyOf(rest, IF setting.sameOrigin THEN "clickFullscreen" ELSE "frameFullscreen")
      /\ OnIn(toFrame) <=> SaysOn(m) \/ OnIn(rest)
      /\ OffIn(toFrame) <=> SaysOff(m) \/ OffIn(rest)
      /\ OnThenOff(toFrame) <=> OnThenOff(rest) \/ (SaysOn(m) /\ OffIn(rest))
      /\ LastOf(toFrame, child.full) = LastOf(rest, m.active)
      /\ UNCHANGED <<setting, frame, plays, asking, keys>>
  BY <1>0, Taken DEF FrameHears, PlayerTyped, Holds, NotYet
<1>2. CASE m.action = "clickFullscreen"
  <2>1. ToggleFullscreen(rest) BY <1>2 DEF FrameHears
  <2>2. setting.sameOrigin BY <1>1, <1>2
  <2>3. ASSUME ~hasty PROVE ToldRight(rest)
    <3>1. child.full = FALSE /\ outer = FALSE BY <1>0, <2>2 DEF Holds, PlayerTyped
    <3>2. LastOf(rest, m.active) = FALSE BY <1>0, <1>1, <2>3, <3>1 DEF ToldLast, Listens, ToldRight
    <3>. QED BY <3>1, <3>2 DEF LastOf, ToldRight
  <2>. QED BY <1>1, <2>1, <2>2, <2>3, Toggles
<1>3. CASE m.action # "clickFullscreen"
  <2>1. ~setting.sameOrigin /\ m.action = "frameFullscreen" /\ m.active \in BOOLEAN
    BY <1>1, <1>3 DEF Messages
  <2>2. /\ child' = [child EXCEPT !.full = m.active,
                  !.saveOnFrameExit = IF m.active THEN ~inner
                                      ELSE child.saveOnFrameExit /\ ~SavesOnExit(m.active),
                  !.due = child.due \/ (save /\ ~child.asked)]
        /\ unsaved' = (unsaved /\ ~(save /\ child.asked /\ setting.files))
        /\ toFrame' = rest
        /\ UNCHANGED <<owner, outer, inner, toPage, hasty>>
    BY <1>3 DEF FrameHears
  <2>3. SavesOnExit(m.active) <=> Armed /\ ~m.active BY DEF SavesOnExit, Armed
  <2>4. /\ child'.full = m.active
        /\ child'.saveOnFrameExit = IF m.active THEN ~inner
                                    ELSE child.saveOnFrameExit /\ ~SavesOnExit(m.active)
        /\ child'.due = (child.due \/ (save /\ ~child.asked))
        /\ child'.asked = child.asked /\ child'.autoSave = child.autoSave
        /\ child' \in [full : BOOLEAN, saveOnFrameExit : BOOLEAN, autoSave : BOOLEAN,
                       asked : BOOLEAN, due : BOOLEAN]
    BY <1>0, <2>1, <2>2, <2>3 DEF PlayerTyped, Armed
  <2>5. SaysOn(m) <=> m.active BY <2>1 DEF SaysOn
  <2>6. SaysOff(m) <=> ~m.active BY <2>1 DEF SaysOff
  <2>7. PlayerTyped' BY <1>0, <1>1, <2>2, <2>4 DEF PlayerTyped
  <2>8. NotYet' /\ SavesByItself' BY <1>0, <1>1, <2>2, <2>4 DEF NotYet, SavesByItself, Listens
  <2>9. Holds' BY <1>0, <1>1, <2>1, <2>2 DEF Holds
  <2>10. ToldLast' BY <1>0, <1>1, <2>2, <2>4 DEF ToldLast, Listens, ToldRight
  <2>11. WillBeArmed'
    <3> SUFFICES ASSUME frame = "ready", outer, ~inner, ~hasty
                 PROVE  Armed' \/ OnIn(rest) \/ AskedIn(toPage)
      BY <1>1, <2>2 DEF WillBeArmed
    <3>1. CASE m.active BY <2>4, <3>1 DEF Armed
    <3>2. CASE ~m.active
      <4>1. LastOf(rest, FALSE) = TRUE BY <1>0, <1>1, <2>1, <3>2 DEF ToldLast, PlayerTyped,
                                                                     Listens, ToldRight
      <4>. QED BY <1>1, <2>1, <4>1, LastIsOn
    <3>. QED BY <3>1, <3>2
  <2>12. WillSave'
    <3> SUFFICES ASSUME frame = "ready", ~outer, ~inner, ~hasty, unsaved',
                        setting.local, setting.files
                 PROVE  (Armed' /\ OffIn(rest)) \/ OnThenOff(rest) \/ child'.due
      BY <1>1, <2>2 DEF WillSave
    <3>1. unsaved /\ ((Armed /\ OffIn(toFrame)) \/ OnThenOff(toFrame) \/ child.due)
      BY <1>0, <1>1, <2>2 DEF WillSave, PlayerTyped
    <3>2. CASE m.active BY <1>1, <2>4, <2>5, <2>6, <3>1, <3>2 DEF Armed
    <3>3. CASE ~m.active BY <1>0, <1>1, <2>2, <2>3, <2>4, <2>5, <2>6, <3>1, <3>3 DEF PlayerTyped
    <3>. QED BY <3>2, <3>3
  <2>. QED BY <2>7, <2>8, <2>9, <2>10, <2>11, <2>12 DEF PlayerInv
<1>. QED BY <1>2, <1>3

LEMMA PlayerKeeps == PlayerInv /\ [BrowserNext]_browserVars => PlayerInv'
<1> SUFFICES ASSUME PlayerInv, [BrowserNext]_browserVars PROVE PlayerInv'
  OBVIOUS
<1>1. CASE PlayerNext
  BY <1>1, StartsAndLoads, SavesAndWrites, RequestAnswered, PressedInPage, PressedInFrame,
     PageHearsKeeps, FrameHearsKeeps DEF PlayerNext
<1>2. CASE UNCHANGED playerVars
  BY <1>2 DEF playerVars, PlayerInv, PlayerTyped, NotYet, Holds, ToldLast, SavesByItself,
              WillBeArmed, WillSave, Armed, Listens, ToldRight
<1>. QED BY <1>1, <1>2 DEF BrowserNext, browserVars

(***************************************************************************)
(* What was changed in fullscreen is saved when it is over, for any number *)
(* of keys pressed in either document, any messages under way and any      *)
(* answers of the browser and of storage (game-player.js and               *)
(* js-dos-player.js).                                                      *)
(***************************************************************************)
THEOREM FullscreenIsSavedCorrect == BrowserSpec => []FullscreenIsSaved
<1>1. PlayerInv => FullscreenIsSaved
  <2> SUFFICES ASSUME PlayerInv, frame = "ready", ~FullscreenElement, toFrame = <<>>, toPage = <<>>,
                      setting.local, setting.files, child.asked, ~hasty
               PROVE  ~unsaved /\ ~child.full
    BY DEF FullscreenIsSaved
  <2>1. ~outer /\ ~inner BY DEF FullscreenElement
  <2>2. ~child.full BY <2>1, NothingSaid DEF PlayerInv, ToldLast, Listens, ToldRight
  <2>3. ~child.due BY DEF PlayerInv, SavesByItself
  <2>4. ~unsaved BY <2>1, <2>2, <2>3, NothingSaid DEF PlayerInv, WillSave, Armed
  <2>. QED BY <2>2, <2>4
<1>2. BrowserInit => PlayerInv BY PlayerBegins DEF BrowserInit
<1>. QED BY <1>1, <1>2, PlayerKeeps, PTL DEF BrowserSpec

-----------------------------------------------------------------------------
(* The address bar *)

(* How many redirects the spelling of an address takes, and the routes may *)
(* still give where it leads.                                              *)
Respellings(a) ==
  (IF a.host = "elsewhere" \/ ~a.https THEN 1 ELSE 0)
    + (IF a.slash /\ a.path # Home THEN 1 ELSE 0) + (IF a.caps THEN 1 ELSE 0)

InGenre(name) == name \in Genres /\ Count(One(name), NoQuery) > 0

Opens(path, query) ==
  CASE path.kind = "one" ->
         \/ path.name = "sitemap-index.xml"
         \/ path.name \in Fixed /\ ~HasListingParam(query)
         \/ /\ path.name = "most-played" \/ path.name \in DOMAIN Curated
            /\ ~HasListingParam(query) /\ query.page = NoPage
         \/ path.name \notin Reserved /\ InGenre(path.name) /\ ~HasSearch(query)
         \/ /\ path.name \notin Reserved /\ FindBySlug(path.name) # {}
            /\ ~HasListingParam(query)
    [] path.kind = "gallery" -> FindBySlug(path.name) # {}
    [] path.kind = "article" -> ~HasListingParam(query) /\ \E n \in Told : headline[n] = path.name
    [] path.kind \in {"developer", "publisher", "year"} -> ~HasSearch(query)
    [] OTHER -> ~HasListingParam(query)

Sends(path, query) ==
  CASE path.kind = "front"  -> IF query.genre # "" THEN 2 ELSE 0
    [] path.kind = "letter" -> (IF path.name \in DOMAIN Respelt THEN 1 ELSE 0)
                                 + (IF HasSearch(query) THEN 1 ELSE 0)
    [] path.kind = "file"   -> 0
    [] OTHER                -> IF Opens(path, query) THEN 0 ELSE 1

StillToCome ==
  CASE step = "ask"                -> Respellings(at) + Sends(at.path, at.query)
    [] step \in {"history", "id"}  -> 1
    [] OTHER                       -> 0

(* What the browser stores leads to a file or a document, and from there   *)
(* nowhere else.                                                           *)
Guesses == {"favicon.ico", "sitemap.xml"}
Ends == {Link(Path("file", "favicon.png"), NoQuery), Link(One("sitemap-index.xml"), NoQuery)}
KeptEnds ==
  \A a \in DOMAIN kept : a.path.kind = "one" /\ a.path.name \in Guesses /\ kept[a] \in Ends

Shelved ==
  /\ DOMAIN shelf = Ids
  /\ \A g \in Rows(shelf) : Filed(shelf[g])

PagesInv ==
  /\ IsAddress(at) /\ KeptEnds /\ Shelved
  /\ step = "history" => at.path.kind \in {"one", "gallery", "article"}
  /\ hops \in Nat /\ hops + StillToCome <= LongestChain

LEMMA FewRedirects ==
  /\ \A a : Respellings(a) \in 0..3
  /\ \A p, q : Sends(p, q) \in 0..2
  /\ StillToCome \in 0..5
<1>1. \A a : Respellings(a) \in 0..3 BY DEF Respellings
<1>2. \A p, q : Sends(p, q) \in 0..2 BY DEF Sends
<1>. QED BY <1>1, <1>2 DEF StillToCome

LEMMA FewAfter == StillToCome' \in 0..5
<1>1. Respellings(at)' \in 0..3 BY DEF Respellings
<1>2. Sends(at.path, at.query)' \in 0..2 BY DEF Sends
<1>. QED BY <1>1, <1>2 DEF StillToCome

(* While nothing is edited the routes go on sending to the same addresses. *)
LEMMA SameSends ==
  ASSUME UNCHANGED library, NEW p, NEW q
  PROVE  Sends(p, q)' = Sends(p, q)
<1>1. shelf' = shelf /\ headline' = headline BY DEF library
<1>2. Rows(shelf)' = Rows(shelf) BY <1>1 DEF Rows
<1>3. \A name : FindBySlug(name)' = FindBySlug(name) BY <1>1, <1>2 DEF FindBySlug
<1>4. Told' = Told BY <1>1 DEF Told
<1>5. \A name : InGenre(name)' <=> InGenre(name)
  <2>1. ASSUME NEW name PROVE Filtered(One(name), NoQuery)' = Filtered(One(name), NoQuery)
    BY <1>1, <1>2 DEF Filtered
  <2>2. ASSUME NEW name PROVE Listed(One(name), NoQuery)' = Listed(One(name), NoQuery)
    BY <2>1 DEF Listed, One, Path
  <2>. QED BY <2>2 DEF InGenre, Count
<1>6. Opens(p, q)' <=> Opens(p, q) BY <1>1, <1>3, <1>4, <1>5 DEF Opens
<1>. QED BY <1>6 DEF Sends

LEMMA AnewOrLess ==
  /\ \A h, m : h = 0 /\ m \in 0..5 => h \in Nat /\ h + m <= 5
  /\ \A h, m, k : h \in Nat /\ m \in 0..5 /\ h + m <= 5 /\ k \in 0..1 /\ k <= m => h + k <= 5
OBVIOUS

LEMMA PagesBegin == PagesInit => PagesInv
<1> SUFFICES ASSUME PagesInit PROVE PagesInv
  OBVIOUS
<1>1. PICK s \in Stock : shelf = s.shelf BY DEF PagesInit
<1>2. at = Link(Home, NoQuery) /\ step = "start" /\ kept = << >> /\ hops = 0 BY DEF PagesInit
<1>3. IsAddress(at) BY <1>2 DEF IsAddress, Link, Home, Path, NoQuery
<1>4. KeptEnds BY <1>2 DEF KeptEnds
<1>5. Shelved BY <1>1, CatalogueAssumption DEF Shelved, Rows
<1>6. hops + StillToCome <= LongestChain BY <1>2 DEF StillToCome, LongestChain
<1>. QED BY <1>2, <1>3, <1>4, <1>5, <1>6 DEF PagesInv

(* The shapes of a step: the visitor goes somewhere, an answer comes or    *)
(* another query is made, a redirect, and an edit.                         *)
LEMMA GoesKeeps ==
  ASSUME PagesInv, NEW a, NEW named, IsAddress(a), Goes(a, named)
  PROVE  PagesInv'
<1>1. /\ at' = a /\ hops' = 0 /\ step' = "ask" /\ UNCHANGED <<kept, shelf>>
  BY DEF Goes, library
<1>2. IsAddress(at)' /\ KeptEnds' /\ Shelved' BY <1>1 DEF PagesInv, KeptEnds, Shelved, Rows
<1>3. StillToCome' \in 0..5 BY FewAfter
<1>4. hops' \in Nat /\ hops' + StillToCome' <= 5 BY <1>1, <1>3, AnewOrLess
<1>. QED BY <1>1, <1>2, <1>4 DEF PagesInv, LongestChain

LEMMA AnswersKeep ==
  ASSUME PagesInv, UNCHANGED <<at, hops, kept, library>>,
         \/ step' \in {"done", "rows"}
         \/ step' = "id" /\ StillToCome >= 1
         \/ step' = "history" /\ StillToCome >= 1
              /\ at.path.kind \in {"one", "gallery", "article"}
  PROVE  PagesInv'
<1>1. IsAddress(at)' /\ KeptEnds' /\ Shelved' BY DEF PagesInv, KeptEnds, Shelved, Rows, library
<1>2. StillToCome \in 0..5 BY FewRedirects
<1>3. StillToCome' <= StillToCome /\ StillToCome' \in 0..1 BY <1>2 DEF StillToCome
<1>4. hops \in Nat /\ hops + StillToCome <= 5 BY DEF PagesInv, LongestChain
<1>5. hops' \in Nat /\ hops' + StillToCome' <= 5 BY <1>2, <1>3, <1>4, AnewOrLess
<1>. QED BY <1>1, <1>5 DEF PagesInv, LongestChain

LEMMA RedirectsKeep ==
  ASSUME PagesInv, NEW a, NEW keeps, IsAddress(a), Redirects(a, keeps),
         1 + Respellings(a) + Sends(a.path, a.query) <= StillToCome,
         keeps /\ Plain(at) => at.path.kind = "one" /\ at.path.name \in Guesses /\ a \in Ends
  PROVE  PagesInv'
<1>1. /\ at' = a /\ step' = "ask" /\ hops' = hops + 1 /\ UNCHANGED library
      /\ kept' = IF keeps /\ Plain(at)
                 THEN [b \in DOMAIN kept \cup {at} |-> IF b = at THEN a ELSE kept[b]] ELSE kept
  BY DEF Redirects
<1>2. KeptEnds'
  <2> SUFFICES ASSUME NEW b \in DOMAIN kept'
               PROVE  b.path.kind = "one" /\ b.path.name \in Guesses /\ kept'[b] \in Ends
    BY DEF KeptEnds, Guesses, Ends
  <2>1. CASE keeps /\ Plain(at) /\ b = at BY <1>1, <2>1
  <2>2. CASE ~(keeps /\ Plain(at) /\ b = at)
    <3>1. b \in DOMAIN kept /\ kept'[b] = kept[b] BY <1>1, <2>2
    <3>. QED BY <3>1 DEF PagesInv, KeptEnds
  <2>. QED BY <2>1, <2>2
<1>3. Shelved' BY <1>1 DEF PagesInv, Shelved, Rows, library
<1>4. StillToCome' = Respellings(a) + Sends(a.path, a.query)
  BY <1>1, SameSends DEF StillToCome, Respellings
<1>5. StillToCome \in 0..5 /\ Respellings(a) \in 0..3 /\ Sends(a.path, a.query) \in 0..2
  BY FewRedirects
<1>6. hops \in Nat /\ hops + StillToCome <= 5 BY DEF PagesInv, LongestChain
<1>7. hops' \in Nat /\ hops' + StillToCome' <= 5 BY <1>1, <1>4, <1>5, <1>6
<1>. QED BY <1>1, <1>2, <1>3, <1>7 DEF PagesInv, LongestChain

LEMMA EditsKeep ==
  ASSUME PagesInv, Edited, Shelved'
  PROVE  PagesInv'
<1>1. hops' = 0 /\ UNCHANGED <<at, step, kept>> BY DEF Edited
<1>2. IsAddress(at)' /\ KeptEnds' BY <1>1 DEF PagesInv, KeptEnds
<1>3. StillToCome' \in 0..5 BY FewAfter
<1>4. hops' \in Nat /\ hops' + StillToCome' <= 5 BY <1>1, <1>3, AnewOrLess
<1>. QED BY <1>1, <1>2, <1>4 DEF PagesInv, LongestChain

IsPath(p) == p = [kind |-> p.kind, name |-> p.name, n |-> p.n]
IsQuery(q) == q = [genre |-> q.genre, search |-> q.search, by |-> q.by, dir |-> q.dir,
                   page |-> q.page]

LEMMA Paths ==
  \A kind, name : /\ IsPath(Path(kind, name))
                  /\ Path(kind, name).kind = kind /\ Path(kind, name).name = name
BY DEF IsPath, Path

LEMMA NoQueryAsks ==
  /\ IsQuery(NoQuery) /\ NoQuery.genre = "" /\ NoQuery.page = NoPage
  /\ ~HasSearch(NoQuery) /\ ~HasListingParam(NoQuery)
BY DEF IsQuery, NoQuery, HasSearch, HasListingParam

LEMMA Links ==
  ASSUME NEW p, NEW q, IsPath(p), IsQuery(q)
  PROVE  /\ IsAddress(Link(p, q)) /\ Respellings(Link(p, q)) = 0
         /\ Link(p, q).path = p /\ Link(p, q).query = q
BY DEF IsPath, IsQuery, IsAddress, Link, Respellings

LEMMA Parts == \A a : IsAddress(a) => IsPath(a.path) /\ IsQuery(a.query)
BY DEF IsAddress, IsPath, IsQuery

LEMMA Turned ==
  ASSUME NEW q, IsQuery(q), NEW n
  PROVE  LET r == [q EXCEPT !.page = n] IN
         /\ IsQuery(r) /\ r.page = n /\ r.genre = q.genre
         /\ HasListingParam(r) = HasListingParam(q)
<1> DEFINE r == [q EXCEPT !.page = n]
<1>1. r = [genre |-> q.genre, search |-> q.search, by |-> q.by, dir |-> q.dir, page |-> n]
  BY DEF IsQuery
<1> HIDE DEF r
<1>2. /\ IsQuery(r) /\ r.page = n /\ r.genre = q.genre
      /\ HasListingParam(r) = HasListingParam(q)
  BY <1>1 DEF IsQuery, HasListingParam, HasSearch
<1>. QED BY <1>2 DEF r

LEMMA Dropped ==
  ASSUME NEW q, IsQuery(q)
  PROVE  /\ IsQuery(WithoutSearch(q)) /\ ~HasSearch(WithoutSearch(q))
         /\ IsQuery(WithoutListingParams(q)) /\ ~HasListingParam(WithoutListingParams(q))
<1>1. WithoutSearch(q) = [genre |-> q.genre, search |-> "none", by |-> q.by, dir |-> q.dir,
                          page |-> q.page]
  BY DEF IsQuery, WithoutSearch
<1>2. IsQuery(WithoutSearch(q)) BY <1>1 DEF IsQuery
<1>3. ~HasSearch(WithoutSearch(q)) BY <1>1 DEF HasSearch
<1> DEFINE w == [q EXCEPT !.search = "none", !.by = "", !.dir = ""]
<1>4. w = [k \in {"genre", "search", "by", "dir", "page"} |-> w[k]] BY DEF IsQuery
<1>5. w.search = "none" /\ w.by = "" /\ w.dir = "" BY DEF IsQuery
<1>6. WithoutListingParams(q) = w BY DEF WithoutListingParams
<1> HIDE DEF w
<1>7. IsQuery(w) BY <1>4 DEF IsQuery
<1>8. ~HasListingParam(w) BY <1>5 DEF HasSearch, HasListingParam
<1>9. IsQuery(WithoutListingParams(q)) BY <1>6, <1>7
<1>10. ~HasListingParam(WithoutListingParams(q)) BY <1>6, <1>8
<1>. QED BY <1>2, <1>3, <1>9, <1>10

(* A redirect of a route, judged by what its own address may still give.   *)
LEMMA SentOn ==
  ASSUME PagesInv, NEW p, NEW q, IsPath(p), IsQuery(q), SentTo(p, q),
         1 + Sends(p, q) <= StillToCome
  PROVE  PagesInv'
<1>1. /\ IsAddress(Link(p, q)) /\ Respellings(Link(p, q)) = 0
      /\ Link(p, q).path = p /\ Link(p, q).query = q
  BY Links
<1>2. Redirects(Link(p, q), FALSE) BY DEF SentTo, Storable
<1>3. Sends(p, q) \in 0..2 BY FewRedirects
<1>4. 1 + Respellings(Link(p, q)) + Sends(Link(p, q).path, Link(p, q).query) <= StillToCome
  BY <1>1, <1>3
<1>. QED BY <1>1, <1>2, <1>4, RedirectsKeep

LEMMA Asked ==
  ASSUME PagesInv, Routed
  PROVE  /\ StillToCome = Sends(at.path, at.query)
         /\ IsPath(at.path) /\ IsQuery(at.query)
<1>1. step = "ask" /\ IsAddress(at) BY DEF PagesInv, Routed, Unstored
<1>2. Respellings(at) = 0 BY DEF Routed, Bare, Elsewhere, Respellings
<1>3. Sends(at.path, at.query) \in 0..2 BY FewRedirects
<1>4. StillToCome = Respellings(at) + Sends(at.path, at.query) BY <1>1 DEF StillToCome
<1>5. StillToCome = Sends(at.path, at.query) BY <1>2, <1>3, <1>4
<1>. QED BY <1>1, <1>5, Parts

(* What a page of the catalogue holds depends on what its path names.      *)
LEMMA SameGenre ==
  ASSUME NEW p, p.kind = "one", NEW q
  PROVE  Count(p, q) > 0 /\ p.name \in Genres <=> InGenre(p.name)
<1>1. Filtered(p, q) = Filtered(One(p.name), NoQuery)
  BY DEF Filtered, One, Path
<1>2. Listed(p, q) = Listed(One(p.name), NoQuery) BY <1>1 DEF Listed, One, Path
<1>. QED BY <1>2 DEF InGenre, Count

LEMMA LiveSlugsOpen ==
  ASSUME PagesInv, NEW g \in Rows(shelf)
  PROVE  /\ Sends(One(shelf[g].slug), NoQuery) = 0
         /\ \A p : p.kind \in {"one", "gallery"} /\ p.name = shelf[g].slug => Sends(p, NoQuery) = 0
<1>1. shelf[g].slug \notin Reserved /\ g \in FindBySlug(shelf[g].slug)
  BY DEF PagesInv, Shelved, Filed, FindBySlug
<1>2. \A p : p.kind \in {"one", "gallery"} /\ p.name = shelf[g].slug => Opens(p, NoQuery)
  BY <1>1, NoQueryAsks DEF Opens
<1>3. \A p : p.kind \in {"one", "gallery"} /\ p.name = shelf[g].slug => Sends(p, NoQuery) = 0
  BY <1>2 DEF Sends
<1>. QED BY <1>3, Paths DEF One

(* Wherever the visitor goes.                                              *)
LEMMA SitemapLinks ==
  ASSUME NEW a \in Sitemap
  PROVE  \E p, n : IsPath(p) /\ a = PageUrl(p, n)
<1> DEFINE Fronts == AllPages(Home, Cardinality(Rows(shelf)))
           News == AllPages(Path("news", ""), Cardinality(Told))
           Comments == {PageUrl(Path("comments", ""), 1)}
           Fixes == {PageUrl(One(f), 1) : f \in Fixed}
           Most == {PageUrl(One("most-played"), 1) : g \in Rows(shelf) \cap Played}
           Lists == {PageUrl(One(l), 1) : l \in {l \in DOMAIN Curated : CountListGames(l) > 0}}
           Slugs == {PageUrl(One(shelf[g].slug), 1) : g \in Rows(shelf)}
           Stories == {PageUrl(Path("article", headline[n]), 1) : n \in Told}
<1>0. Sitemap = Fronts \cup News \cup Comments \cup Fixes \cup Most \cup Lists \cup GroupPages
                  \cup Slugs \cup Stories
  BY DEF Sitemap
<1>1. IsPath(Home) /\ \A name : IsPath(One(name)) BY Paths DEF Home, One
<1>2. CASE a \in Fronts BY <1>1, <1>2 DEF AllPages
<1>3. CASE a \in News BY <1>3, Paths DEF AllPages
<1>4. CASE a \in GroupPages
  <2>1. PICK path \in UNION {CountedIn(g) : g \in Rows(shelf)} :
               \E p : a = PageUrl(path, p)
    BY <1>4 DEF GroupPages, AllPages
  <2>2. \E kind, name : path = Path(kind, name) BY DEF CountedIn, One
  <2>. QED BY <2>1, <2>2, Paths
<1>5. CASE a \in Comments \cup Stories BY <1>5, Paths
<1>6. CASE a \in Fixes \cup Most \cup Lists \cup Slugs BY <1>1, <1>6
<1> HIDE DEF Fronts, News, Comments, Fixes, Most, Lists, Slugs, Stories
<1>. QED BY <1>0, <1>2, <1>3, <1>4, <1>5, <1>6

LEMMA NamedLinks == \A p, n : IsPath(p) => IsAddress(PageUrl(p, n))
BY NoQueryAsks, Turned, Links DEF PageUrl

(* the next page of the address a, as b *)
IsNextPage(b, a) ==
  /\ b.host = a.host /\ b.https = a.https /\ b.slash = a.slash /\ b.caps = a.caps /\ b.path = a.path
  /\ b.query.genre = a.query.genre /\ b.query.by = a.query.by /\ b.query.dir = a.query.dir
  /\ b.query.search = (IF Searches(a.query) THEN "term" ELSE a.query.search)
  /\ b.query.page = ParsePage(a.query.page) + 1

LEMMA NextPages ==
  \A a : IsAddress(a) => IsAddress(NextPageHref(a)) /\ IsNextPage(NextPageHref(a), a)
<1> SUFFICES ASSUME NEW a, IsAddress(a)
             PROVE  IsAddress(NextPageHref(a)) /\ IsNextPage(NextPageHref(a), a)
  OBVIOUS
<1> DEFINE page == ParsePage(a.query.page) + 1
           search == IF Searches(a.query) THEN "term" ELSE a.query.search
           turned == [a EXCEPT !.query = [a.query EXCEPT !.page = page]]
           next == [turned EXCEPT !.query = [turned.query EXCEPT !.search = search]]
<1>1. turned.query = [genre |-> a.query.genre, search |-> a.query.search, by |-> a.query.by,
                      dir |-> a.query.dir, page |-> page]
  BY DEF IsAddress
<1>2. turned = [k \in {"host", "https", "slash", "caps", "path", "query"} |-> turned[k]]
  BY DEF IsAddress
<1>3. /\ turned.host = a.host /\ turned.https = a.https /\ turned.slash = a.slash
      /\ turned.caps = a.caps /\ turned.path = a.path
  BY DEF IsAddress
<1>4. NextPageHref(a) = next BY DEF NextPageHref
<1> HIDE DEF turned
<1>5. next.query = [genre |-> a.query.genre, search |-> search, by |-> a.query.by,
                      dir |-> a.query.dir, page |-> page]
  BY <1>1, <1>2
<1>6. next = [k \in {"host", "https", "slash", "caps", "path", "query"} |-> next[k]]
  BY <1>2
<1>7. /\ next.host = a.host /\ next.https = a.https /\ next.slash = a.slash
      /\ next.caps = a.caps /\ next.path = a.path
  BY <1>2, <1>3
<1> HIDE DEF next
<1>8. IsAddress(next) BY <1>5, <1>6, <1>7 DEF IsAddress
<1>9. IsNextPage(next, a) BY <1>5, <1>7 DEF IsNextPage
<1>. QED BY <1>4, <1>8, <1>9

LEMMA VisitsKeep ==
  ASSUME PagesInv,
         \/ \E a \in Typed : Type(a)
         \/ \E a \in Bookmarks : Bookmark(a)
         \/ \E a \in Sitemap : FollowSitemap(a)
         \/ FollowCanonical \/ FollowNext
  PROVE  PagesInv'
<1>1. IsAddress(at) /\ IsPath(at.path) BY Parts DEF PagesInv
<1>2. \E a, named : IsAddress(a) /\ Goes(a, named)
  <2>1. CASE \E a \in Typed : Type(a) BY <2>1, AddressAssumption DEF Type
  <2>2. CASE \E a \in Bookmarks : Bookmark(a) BY <2>2, AddressAssumption DEF Bookmark
  <2>3. CASE \E a \in Sitemap : FollowSitemap(a) BY <2>3, SitemapLinks, NamedLinks DEF FollowSitemap
  <2>4. CASE FollowCanonical BY <1>1, <2>4, NamedLinks DEF FollowCanonical, Canonical
  <2>5. CASE FollowNext BY <1>1, <2>5, NextPages DEF FollowNext
  <2>. QED BY <2>1, <2>2, <2>3, <2>4, <2>5
<1>. QED BY <1>2, GoesKeeps

Fields == {"host", "https", "slash", "caps", "path", "query"}

LEMMA OtherSpelling ==
  ASSUME NEW a, NEW b, IsAddress(a), b = [k \in Fields |-> b[k]],
         b.https \in BOOLEAN, b.slash \in BOOLEAN, b.caps \in BOOLEAN,
         b.path = a.path, b.query = a.query
  PROVE  IsAddress(b)
<1>1. b = [host |-> b.host, https |-> b.https, slash |-> b.slash, caps |-> b.caps,
           path |-> b.path, query |-> b.query]
  BY DEF Fields
<1>2. IsPath(b.path) /\ IsQuery(b.query) BY Parts
<1>. QED BY <1>1, <1>2 DEF IsAddress, IsPath, IsQuery

(* One spelling: the redirects before the routes.                          *)
LEMMA SpellingsKeep ==
  ASSUME PagesInv, CanonicalHost \/ Https \/ TrailingSlash \/ LowerCase
  PROVE  PagesInv'
<1>0. at = [host |-> at.host, https |-> at.https, slash |-> at.slash, caps |-> at.caps,
            path |-> at.path, query |-> at.query]
  BY DEF PagesInv, IsAddress
<1>1. IsAddress(at) /\ at.https \in BOOLEAN /\ at.slash \in BOOLEAN /\ at.caps \in BOOLEAN
  BY DEF PagesInv, IsAddress
<1>2. step = "ask" BY DEF CanonicalHost, Https, TrailingSlash, LowerCase, Unstored
<1>3. /\ StillToCome = Respellings(at) + Sends(at.path, at.query)
      /\ Respellings(at) \in 0..3 /\ Sends(at.path, at.query) \in 0..2
  BY <1>2, FewRedirects DEF StillToCome
<1>4. SUFFICES \E a : /\ IsAddress(a) /\ Redirects(a, TRUE) /\ ~Plain(at)
                      /\ Respellings(at) = 1 + Respellings(a)
                      /\ a.path = at.path /\ a.query = at.query
  <2>1. PICK a : /\ IsAddress(a) /\ Redirects(a, TRUE) /\ ~Plain(at)
                 /\ Respellings(at) = 1 + Respellings(a)
                 /\ a.path = at.path /\ a.query = at.query
    BY <1>4
  <2>2. Respellings(a) \in 0..3 BY FewRedirects
  <2>3. 1 + Respellings(a) + Sends(a.path, a.query) <= StillToCome
    BY <1>3, <2>1, <2>2
  <2>. QED BY <2>1, <2>3, RedirectsKeep
<1>5. CASE CanonicalHost
  <2> DEFINE a == [at EXCEPT !.host = "site", !.https = TRUE]
  <2>1. /\ a = [k \in Fields |-> a[k]]
        /\ a.host = "site" /\ a.https = TRUE /\ a.slash = at.slash /\ a.caps = at.caps
        /\ a.path = at.path /\ a.query = at.query
    BY <1>0 DEF Fields
  <2>2. at.host = "elsewhere" /\ Redirects(a, TRUE) BY <1>5 DEF CanonicalHost, Elsewhere
  <2>3. ~Plain(at) BY <2>2 DEF Plain, Link
  <2> HIDE DEF a
  <2>4. IsAddress(a) /\ a.path = at.path /\ a.query = at.query BY <1>1, <2>1, OtherSpelling
  <2>5. Respellings(at) = 1 + Respellings(a) BY <2>1, <2>2 DEF Respellings
  <2>. QED BY <2>2, <2>3, <2>4, <2>5
<1>6. CASE Https
  <2> DEFINE a == [at EXCEPT !.https = TRUE]
  <2>1. /\ a = [k \in Fields |-> a[k]]
        /\ a.host = at.host /\ a.https = TRUE /\ a.slash = at.slash /\ a.caps = at.caps
        /\ a.path = at.path /\ a.query = at.query
    BY <1>0 DEF Fields
  <2>2. at.host # "elsewhere" /\ ~at.https /\ Redirects(a, TRUE) BY <1>6 DEF Https, Elsewhere
  <2>3. ~Plain(at) BY <2>2 DEF Plain, Link
  <2> HIDE DEF a
  <2>4. IsAddress(a) /\ a.path = at.path /\ a.query = at.query BY <1>1, <2>1, OtherSpelling
  <2>5. Respellings(at) = 1 + Respellings(a) BY <2>1, <2>2 DEF Respellings
  <2>. QED BY <2>2, <2>3, <2>4, <2>5
<1>7. CASE TrailingSlash
  <2> DEFINE a == [at EXCEPT !.slash = FALSE]
  <2>1. /\ a = [k \in Fields |-> a[k]]
        /\ a.host = at.host /\ a.https = at.https /\ a.slash = FALSE /\ a.caps = at.caps
        /\ a.path = at.path /\ a.query = at.query
    BY <1>0 DEF Fields
  <2>2. at.host # "elsewhere" /\ at.https /\ at.slash /\ at.path # Home /\ Redirects(a, TRUE)
    BY <1>7 DEF TrailingSlash, Elsewhere
  <2>3. ~Plain(at) BY <2>2 DEF Plain, Link
  <2> HIDE DEF a
  <2>4. IsAddress(a) /\ a.path = at.path /\ a.query = at.query BY <1>1, <2>1, OtherSpelling
  <2>5. a.host # "elsewhere" /\ a.path = at.path BY <2>1, <2>2
  <2>6. a.https /\ ~a.slash BY <1>1, <2>1, <2>2
  <2>7. a.caps = at.caps BY <2>1
  <2>8. Respellings(at) = 1 + (IF at.caps THEN 1 ELSE 0) BY <2>2 DEF Respellings
  <2>9. Respellings(a) = IF at.caps THEN 1 ELSE 0 BY <2>5, <2>6, <2>7 DEF Respellings
  <2>. QED BY <2>2, <2>3, <2>4, <2>8, <2>9
<1>8. CASE LowerCase
  <2> DEFINE a == [at EXCEPT !.caps = FALSE]
  <2>1. /\ a = [k \in Fields |-> a[k]]
        /\ a.host = at.host /\ a.https = at.https /\ a.slash = at.slash /\ a.caps = FALSE
        /\ a.path = at.path /\ a.query = at.query
    BY <1>0 DEF Fields
  <2>2. at.caps /\ Redirects(a, TRUE) BY <1>8 DEF LowerCase
  <2>3. ~Plain(at) BY <2>2 DEF Plain, Link
  <2> HIDE DEF a
  <2>4. IsAddress(a) /\ a.path = at.path /\ a.query = at.query BY <1>1, <2>1, OtherSpelling
  <2>5. Respellings(at) = 1 + Respellings(a) BY <1>1, <2>1, <2>2 DEF Respellings
  <2>. QED BY <2>2, <2>3, <2>4, <2>5
<1>. QED BY <1>5, <1>6, <1>7, <1>8

(* The names that crawlers guess, from the site or from what the browser   *)
(* keeps of them.                                                          *)
LEMMA GuessedSends ==
  \A p, q : p.kind = "one" /\ p.name \in Guesses => Sends(p, q) = 1
<1> SUFFICES ASSUME NEW p, NEW q, p.kind = "one", p.name \in Guesses PROVE ~Opens(p, q)
  BY DEF Sends
<1>1. p.name \notin Fixed \cup DOMAIN Curated /\ p.name \in Reserved
  BY RoutesAssumption DEF Guesses, Documents, Reserved
<1>. QED BY <1>1 DEF Opens, Guesses

LEMMA EndsSend ==
  \A a \in Ends : IsAddress(a) /\ Respellings(a) = 0 /\ Sends(a.path, a.query) = 0
<1>1. IsPath(Path("file", "favicon.png")) /\ IsPath(One("sitemap-index.xml")) /\ IsQuery(NoQuery)
  BY Paths, NoQueryAsks DEF One
<1>2. \A p, q : p.kind = "file" => Sends(p, q) = 0 BY DEF Sends
<1>3. \A p, q : p.kind = "one" /\ p.name = "sitemap-index.xml" => Sends(p, q) = 0
  BY DEF Sends, Opens
<1>. QED BY <1>1, <1>2, <1>3, Paths, Links DEF Ends, One

LEMMA GuessesKeep ==
  ASSUME PagesInv, Recall \/ Favicon \/ SitemapXml
  PROVE  PagesInv'
<1>1. /\ step = "ask" /\ at.path.kind = "one" /\ at.path.name \in Guesses
      /\ \E a \in Ends : \E keeps : Redirects(a, keeps)
  <2>1. CASE Recall BY <2>1 DEF Recall, PagesInv, KeptEnds
  <2>2. CASE Favicon BY <2>2 DEF Favicon, At, Routed, Unstored, Guesses, Ends
  <2>3. CASE SitemapXml BY <2>3 DEF SitemapXml, At, Routed, Unstored, Guesses, Ends
  <2>. QED BY <2>1, <2>2, <2>3
<1>2. PICK a \in Ends : \E keeps : Redirects(a, keeps) BY <1>1
<1>3. IsAddress(a) /\ Respellings(a) = 0 /\ Sends(a.path, a.query) = 0 BY EndsSend
<1>4. Sends(at.path, at.query) = 1 /\ Respellings(at) \in 0..3 BY <1>1, GuessedSends, FewRedirects
<1>5. StillToCome = Respellings(at) + Sends(at.path, at.query) BY <1>1 DEF StillToCome
<1>6. 1 + Respellings(a) + Sends(a.path, a.query) <= StillToCome BY <1>3, <1>4, <1>5
<1>. QED BY <1>1, <1>2, <1>3, <1>6, RedirectsKeep

(* What a route leaves when it answers, or reads the rows of its page.     *)
LEMMA AnswersEnd ==
  ASSUME PagesInv, ReadsRows \/ (\E what : Answers(what))
  PROVE  PagesInv'
BY AnswersKeep DEF ReadsRows, Answers

LEMMA TurnsOn ==
  ASSUME PagesInv, StillToCome >= 1,
         Turns("id") \/ (Turns("history") /\ at.path.kind \in {"one", "gallery", "article"})
  PROVE  PagesInv'
BY AnswersKeep DEF Turns

(* The pages with a path of their own take their parameters off once.      *)
LEMMA OwnPages ==
  /\ \A p, q : p.kind = "one" /\ p.name \in Fixed /\ HasListingParam(q) => Sends(p, q) = 1
  /\ \A p, q : p.kind = "one" /\ p.name \in Fixed /\ ~HasListingParam(q) => Sends(p, q) = 0
  /\ \A p, q : /\ p.kind = "one" /\ p.name \in {"most-played"} \cup DOMAIN Curated
               /\ HasListingParam(q) \/ q.page # NoPage
               => Sends(p, q) = 1
  /\ \A p, q : /\ p.kind = "one" /\ p.name \in {"most-played"} \cup DOMAIN Curated
               /\ ~HasListingParam(q) /\ q.page = NoPage
               => Sends(p, q) = 0
  /\ \A p, q : p.kind = "one" /\ p.name = "random" => Sends(p, q) = 1
<1>1. ASSUME NEW p, NEW q, p.kind = "one", p.name \in Fixed
      PROVE  Opens(p, q) <=> ~HasListingParam(q)
  BY <1>1, RoutesAssumption DEF Opens, Reserved, Documents, Own
<1>2. ASSUME NEW p, NEW q, p.kind = "one", p.name \in {"most-played"} \cup DOMAIN Curated
      PROVE  Opens(p, q) <=> ~HasListingParam(q) /\ q.page = NoPage
  BY <1>2, RoutesAssumption DEF Opens, Reserved, Documents, Own
<1>3. ASSUME NEW p, NEW q, p.kind = "one", p.name = "random"
      PROVE  ~Opens(p, q)
  BY <1>3, RoutesAssumption DEF Opens, Reserved, Documents, Own
<1>. QED BY <1>1, <1>2, <1>3 DEF Sends

LEMMA FixedPageKeeps ==
  ASSUME PagesInv, FixedPage
  PROVE  PagesInv'
<1>1. Routed /\ at.path.kind = "one" /\ at.path.name \in Fixed BY DEF FixedPage, At
<1>2. StillToCome = Sends(at.path, at.query) /\ IsPath(at.path) /\ IsQuery(at.query)
  BY <1>1, Asked
<1> DEFINE q == WithoutListingParams(at.query)
<1>3. CASE HasListingParam(at.query)
  <2>1. SentTo(at.path, q) BY <1>3 DEF FixedPage
  <2>2. IsQuery(q) /\ ~HasListingParam(q) BY <1>2, Dropped
  <2>3. Sends(at.path, at.query) = 1 /\ Sends(at.path, q) = 0 BY <1>1, <1>3, <2>2, OwnPages
  <2>. QED BY <1>2, <2>1, <2>2, <2>3, SentOn
<1>4. CASE ~HasListingParam(at.query) BY <1>4, AnswersEnd DEF FixedPage
<1>. QED BY <1>3, <1>4

LEMMA RankingKeeps ==
  ASSUME PagesInv, NEW games, Routed, at.path.kind = "one",
         at.path.name \in {"most-played"} \cup DOMAIN Curated, Ranking(games)
  PROVE  PagesInv'
<1>2. StillToCome = Sends(at.path, at.query) /\ IsPath(at.path) /\ IsQuery(at.query)
  BY Asked
<1> DEFINE w == WithoutListingParams(at.query)
           q == [w EXCEPT !.page = NoPage]
<1>3. CASE HasListingParam(at.query) \/ at.query.page # NoPage
  <2>1. SentTo(at.path, q) BY <1>3 DEF Ranking
  <2>2. IsQuery(w) /\ ~HasListingParam(w) BY <1>2, Dropped
  <2> HIDE DEF w
  <2>3. IsQuery(q) /\ q.page = NoPage /\ ~HasListingParam(q) BY <2>2, Turned
  <2> HIDE DEF q
  <2>4. Sends(at.path, at.query) = 1 /\ Sends(at.path, q) = 0 BY <1>3, <2>3, OwnPages
  <2>. QED BY <1>2, <2>1, <2>3, <2>4, SentOn
<1>4. CASE ~(HasListingParam(at.query) \/ at.query.page # NoPage)
  BY <1>4, AnswersEnd DEF Ranking
<1>. QED BY <1>3, <1>4

LEMMA RankingsKeep ==
  ASSUME PagesInv, MostPlayed \/ CuratedList
  PROVE  PagesInv'
<1>1. CASE MostPlayed BY <1>1, RankingKeeps DEF MostPlayed, At
<1>2. CASE CuratedList BY <1>2, RankingKeeps DEF CuratedList, At
<1>. QED BY <1>1, <1>2

LEMMA RandomKeeps ==
  ASSUME PagesInv, Random
  PROVE  PagesInv'
<1>1. Routed /\ at.path.kind = "one" /\ at.path.name = "random" BY DEF Random, At
<1>2. StillToCome = 1 BY <1>1, Asked, OwnPages
<1>3. ASSUME NEW g \in Rows(shelf), SentTo(One(shelf[g].slug), NoQuery) PROVE PagesInv'
  <2>1. Sends(One(shelf[g].slug), NoQuery) = 0 BY LiveSlugsOpen
  <2>2. IsPath(One(shelf[g].slug)) /\ IsQuery(NoQuery) BY Paths, NoQueryAsks DEF One
  <2>. QED BY <1>2, <1>3, <2>1, <2>2, SentOn
<1>. QED BY <1>3, AnswersEnd DEF Random

(* GET /:id and its like: a live slug answers, or is stripped once; a slug *)
(* of the past, an id and a renamed article are sent to a live one.        *)
LEMMA GamePageKeeps ==
  ASSUME PagesInv, GamePage
  PROVE  PagesInv'
<1>1. /\ Routed /\ at.path.kind = "one" /\ at.path.name \notin Reserved
      /\ at.path.name \in Genres => Count(at.path, NoQuery) = 0
  BY DEF GamePage, Elsewise, At
<1>2. StillToCome = Sends(at.path, at.query) /\ IsPath(at.path) /\ IsQuery(at.query)
  BY <1>1, Asked
<1>3. ~InGenre(at.path.name) BY <1>1, SameGenre
<1>4. at.path.name \notin Fixed \cup DOMAIN Curated \cup {"most-played", "sitemap-index.xml"}
  BY <1>1 DEF Reserved, Own, Documents
<1>5. \A q : Opens(at.path, q) <=> FindBySlug(at.path.name) # {} /\ ~HasListingParam(q)
  BY <1>1, <1>3, <1>4 DEF Opens
<1>6. \A q : Sends(at.path, q) = IF FindBySlug(at.path.name) # {} /\ ~HasListingParam(q) THEN 0 ELSE 1
  BY <1>1, <1>5 DEF Sends
<1>7. CASE FindBySlug(at.path.name) = {}
  <2>1. Turns("history") BY <1>7 DEF GamePage
  <2>. QED BY <1>1, <1>2, <1>6, <1>7, <2>1, TurnsOn
<1>8. CASE FindBySlug(at.path.name) # {} /\ HasListingParam(at.query)
  <2>1. SentTo(at.path, WithoutListingParams(at.query)) BY <1>8 DEF GamePage
  <2>2. IsQuery(WithoutListingParams(at.query)) /\ ~HasListingParam(WithoutListingParams(at.query))
    BY <1>2, Dropped
  <2>3. Sends(at.path, at.query) = 1 /\ Sends(at.path, WithoutListingParams(at.query)) = 0
    BY <1>6, <1>8, <2>2
  <2>. QED BY <1>2, <2>1, <2>2, <2>3, SentOn
<1>9. CASE FindBySlug(at.path.name) # {} /\ ~HasListingParam(at.query)
  BY <1>9, AnswersEnd DEF GamePage
<1>. QED BY <1>7, <1>8, <1>9

LEMMA GalleryKeeps ==
  ASSUME PagesInv, Gallery
  PROVE  PagesInv'
<1>1. Routed /\ at.path.kind = "gallery" BY DEF Gallery, At
<1>2. StillToCome = Sends(at.path, at.query) BY <1>1, Asked
<1>3. CASE FindBySlug(at.path.name) = {}
  <2>1. Turns("history") BY <1>3 DEF Gallery
  <2>2. Sends(at.path, at.query) = 1 BY <1>1, <1>3 DEF Sends, Opens
  <2>. QED BY <1>1, <1>2, <2>1, <2>2, TurnsOn
<1>4. CASE FindBySlug(at.path.name) # {} BY <1>4, AnswersEnd DEF Gallery
<1>. QED BY <1>3, <1>4

LEMMA ArticleKeeps ==
  ASSUME PagesInv, Article
  PROVE  PagesInv'
<1>1. Routed /\ at.path.kind = "article" BY DEF Article, At
<1>2. StillToCome = Sends(at.path, at.query) /\ IsPath(at.path) /\ IsQuery(at.query)
  BY <1>1, Asked
<1> DEFINE live == \E n \in Told : headline[n] = at.path.name
<1>3. \A q : Sends(at.path, q) = IF live /\ ~HasListingParam(q) THEN 0 ELSE 1
  BY <1>1 DEF Sends, Opens
<1>4. CASE ~live
  <2>1. Turns("history") BY <1>4 DEF Article
  <2>. QED BY <1>1, <1>2, <1>3, <1>4, <2>1, TurnsOn
<1>5. CASE live /\ HasListingParam(at.query)
  <2>1. SentTo(at.path, WithoutListingParams(at.query)) BY <1>5 DEF Article
  <2>2. IsQuery(WithoutListingParams(at.query)) /\ ~HasListingParam(WithoutListingParams(at.query))
    BY <1>2, Dropped
  <2>3. Sends(at.path, at.query) = 1 /\ Sends(at.path, WithoutListingParams(at.query)) = 0
    BY <1>3, <1>5, <2>2
  <2>. QED BY <1>2, <2>1, <2>2, <2>3, SentOn
<1>6. CASE live /\ ~HasListingParam(at.query) BY <1>6, AnswersEnd DEF Article
<1>. QED BY <1>4, <1>5, <1>6

LEMMA HistoryKeeps ==
  ASSUME PagesInv, ReadHistory \/ ReadId \/ ReadNewsHistory
  PROVE  PagesInv'
<1>1. StillToCome = 1 /\ IsAddress(at) /\ IsPath(at.path)
  BY Parts DEF ReadHistory, ReadId, ReadNewsHistory, StillToCome, PagesInv
<1>2. IsQuery(NoQuery) BY NoQueryAsks
<1>3. CASE ReadHistory
  <2>1. at.path.kind \in {"one", "gallery"} BY <1>3 DEF ReadHistory, PagesInv
  <2>2. ASSUME NEW g \in FindCurrentSlug(at.path.name),
               SentTo([at.path EXCEPT !.name = shelf[g].slug], NoQuery)
        PROVE  PagesInv'
    <3> DEFINE slug == shelf[g].slug
               p == [at.path EXCEPT !.name = slug]
    <3>1. g \in Rows(shelf) BY DEF FindCurrentSlug
    <3>2. p = [kind |-> at.path.kind, name |-> slug, n |-> at.path.n] BY <1>1 DEF IsPath
    <3>3. SentTo(p, NoQuery) BY <2>2
    <3> HIDE DEF p
    <3>4. IsPath(p) /\ p.kind \in {"one", "gallery"} /\ p.name = shelf[g].slug
      BY <2>1, <3>2 DEF IsPath
    <3>5. Sends(p, NoQuery) = 0 BY <3>1, <3>4, LiveSlugsOpen
    <3>. QED BY <1>1, <1>2, <3>3, <3>4, <3>5, SentOn
  <2>3. ASSUME Turns("id") PROVE PagesInv' BY <1>1, <2>3, TurnsOn
  <2>. QED BY <1>3, <2>2, <2>3, AnswersEnd DEF ReadHistory
<1>4. CASE ReadId
  <2>1. ASSUME NEW g \in Rows(shelf), SentTo(One(shelf[g].slug), NoQuery) PROVE PagesInv'
    <3>1. Sends(One(shelf[g].slug), NoQuery) = 0 BY LiveSlugsOpen
    <3>2. IsPath(One(shelf[g].slug)) BY Paths DEF One
    <3>. QED BY <1>1, <1>2, <2>1, <3>1, <3>2, SentOn
  <2>. QED BY <1>4, <2>1, AnswersEnd DEF ReadId
<1>5. CASE ReadNewsHistory
  <2>1. ASSUME NEW n \in Told, SentTo(Path("article", headline[n]), NoQuery) PROVE PagesInv'
    <3>1. \A p : p.kind = "article" /\ p.name = headline[n] => Sends(p, NoQuery) = 0
      BY NoQueryAsks DEF Sends, Opens
    <3>2. /\ IsPath(Path("article", headline[n]))
          /\ Sends(Path("article", headline[n]), NoQuery) = 0
      BY <3>1, Paths
    <3>. QED BY <1>1, <1>2, <2>1, <3>2, SentOn
  <2>. QED BY <1>5, <2>1, AnswersEnd DEF ReadNewsHistory
<1>. QED BY <1>3, <1>4, <1>5

(* The listings: one redirect takes off the search they cannot make.       *)
LEMMA JudgedKeeps ==
  ASSUME PagesInv, Routed, Judged,
         HasSearch(at.query) => /\ Sends(at.path, at.query) = 1
                                /\ Sends(at.path, WithoutSearch(at.query)) = 0
  PROVE  PagesInv'
<1>1. StillToCome = Sends(at.path, at.query) /\ IsPath(at.path) /\ IsQuery(at.query)
  BY Asked
<1>2. IsQuery(WithoutSearch(at.query)) BY <1>1, Dropped
<1>3. CASE SentTo(at.path, WithoutSearch(at.query)) /\ HasSearch(at.query)
  BY <1>1, <1>2, <1>3, SentOn
<1>4. CASE ~(SentTo(at.path, WithoutSearch(at.query)) /\ HasSearch(at.query))
  BY <1>4, AnswersEnd DEF Judged
<1>. QED BY <1>3, <1>4

LEMMA GenrePageKeeps ==
  ASSUME PagesInv, GenrePage
  PROVE  PagesInv'
<1>1. /\ Routed /\ at.path.kind = "one" /\ at.path.name \notin Reserved
      /\ at.path.name \in Genres /\ Count(at.path, NoQuery) > 0 /\ Judged
  BY DEF GenrePage, Elsewise, At
<1>2. InGenre(at.path.name) BY <1>1, SameGenre
<1>3. at.path.name \notin Fixed \cup DOMAIN Curated \cup {"most-played", "sitemap-index.xml"}
  BY <1>1 DEF Reserved, Own, Documents
<1>4. \A q : HasSearch(q) => ~Opens(at.path, q)
  BY <1>1, <1>3 DEF Opens, HasListingParam
<1>5. \A q : ~HasSearch(q) => Opens(at.path, q) BY <1>1, <1>2 DEF Opens
<1>6. IsQuery(at.query) BY <1>1, Asked
<1>7. ~HasSearch(WithoutSearch(at.query)) BY <1>6, Dropped
<1>. QED BY <1>1, <1>4, <1>5, <1>7, JudgedKeeps DEF Sends

LEMMA GroupPagesKeep ==
  ASSUME PagesInv, LetterPage \/ DeveloperPage \/ PublisherPage \/ YearPage
  PROVE  PagesInv'
<1>1. /\ Routed /\ Judged /\ at.path.kind \in {"letter", "developer", "publisher", "year"}
      /\ at.path.kind = "letter" => at.path.name \notin DOMAIN Respelt
  BY DEF LetterPage, DeveloperPage, PublisherPage, YearPage, At
<1>2. ASSUME NEW q PROVE Sends(at.path, q) = IF HasSearch(q) THEN 1 ELSE 0
  <2>1. CASE at.path.kind = "letter" BY <1>1, <2>1 DEF Sends
  <2>2. CASE at.path.kind \in {"developer", "publisher", "year"}
    <3>1. Opens(at.path, q) <=> ~HasSearch(q) BY <2>2 DEF Opens
    <3>. QED BY <2>2, <3>1 DEF Sends
  <2>. QED BY <1>1, <2>1, <2>2
<1>3. IsQuery(at.query) BY <1>1, Asked
<1>4. ~HasSearch(WithoutSearch(at.query)) BY <1>3, Dropped
<1>. QED BY <1>1, <1>2, <1>4, JudgedKeeps

LEMMA RespeltLetterKeeps ==
  ASSUME PagesInv, RespeltLetter
  PROVE  PagesInv'
<1>1. /\ Routed /\ at.path.kind = "letter" /\ at.path.name \in DOMAIN Respelt
      /\ SentTo(Path("letter", Respelt[at.path.name]), at.query)
  BY DEF RespeltLetter, At
<1>2. StillToCome = Sends(at.path, at.query) /\ IsQuery(at.query) BY <1>1, Asked
<1> DEFINE p == Path("letter", Respelt[at.path.name])
<1>3. IsPath(p) /\ p.kind = "letter" /\ p.name \notin DOMAIN Respelt
  BY <1>1, Paths, RoutesAssumption
<1> HIDE DEF p
<1>4. /\ Sends(at.path, at.query) = 1 + (IF HasSearch(at.query) THEN 1 ELSE 0)
      /\ Sends(p, at.query) = IF HasSearch(at.query) THEN 1 ELSE 0
  BY <1>1, <1>3 DEF Sends
<1>5. SentTo(p, at.query) BY <1>1 DEF p
<1>. QED BY <1>2, <1>3, <1>4, <1>5, SentOn

LEMMA HomePageKeeps ==
  ASSUME PagesInv, HomePage
  PROVE  PagesInv'
<1>1. Routed /\ at.path.kind = "front" BY DEF HomePage, At
<1>2. StillToCome = Sends(at.path, at.query) /\ IsQuery(at.query) BY <1>1, Asked
<1>3. CASE at.query.genre # ""
  <2> DEFINE p == One(at.query.genre)
             w == WithoutSearch(at.query)
             q == [w EXCEPT !.genre = ""]
  <2>1. SentTo(p, q) BY <1>3 DEF HomePage
  <2>2. IsPath(p) /\ p.kind = "one" BY Paths DEF One
  <2>3. IsQuery(w) BY <1>2, Dropped
  <2> HIDE DEF p, w
  <2>4. q = [k \in {"genre", "search", "by", "dir", "page"} |-> q[k]] BY <2>3 DEF IsQuery
  <2> HIDE DEF q
  <2>5. IsQuery(q) BY <2>4 DEF IsQuery
  <2>6. Sends(p, q) \in 0..1 BY <2>2 DEF Sends
  <2>7. Sends(at.path, at.query) = 2 BY <1>1, <1>3 DEF Sends
  <2>8. 1 + Sends(p, q) <= StillToCome BY <1>2, <2>6, <2>7
  <2>. QED BY <2>1, <2>2, <2>5, <2>8, SentOn
<1>4. CASE at.query.genre = "" BY <1>4, AnswersEnd DEF HomePage
<1>. QED BY <1>3, <1>4

LEMMA ArchivesKeep ==
  ASSUME PagesInv, NewsIndex \/ CommentsOverview
  PROVE  PagesInv'
<1>1. Routed /\ at.path.kind \in {"news", "comments"} /\ Archive
  BY DEF NewsIndex, CommentsOverview, At
<1>2. StillToCome = Sends(at.path, at.query) /\ IsPath(at.path) /\ IsQuery(at.query)
  BY <1>1, Asked
<1>3. \A q : Sends(at.path, q) = IF HasListingParam(q) THEN 1 ELSE 0
  BY <1>1 DEF Sends, Opens
<1>4. CASE HasListingParam(at.query)
  <2>1. SentTo(at.path, WithoutListingParams(at.query)) BY <1>1, <1>4 DEF Archive
  <2>2. IsQuery(WithoutListingParams(at.query)) /\ ~HasListingParam(WithoutListingParams(at.query))
    BY <1>2, Dropped
  <2>3. Sends(at.path, at.query) = 1 /\ Sends(at.path, WithoutListingParams(at.query)) = 0
    BY <1>3, <1>4, <2>2
  <2>. QED BY <1>2, <2>1, <2>2, <2>3, SentOn
<1>5. CASE ~HasListingParam(at.query) BY <1>1, <1>5, AnswersEnd DEF Archive
<1>. QED BY <1>4, <1>5

(* The administrators.                                                     *)
LEMMA PageEditsKeep ==
  ASSUME PagesInv,
         \/ \E g \in Ids : Withdraw(g) \/ \E edition \in Editions[g] : Save(g, edition)
         \/ \E n \in Articles : Retract(n) \/ \E slug \in Headlines[n] : Announce(n, slug)
  PROVE  PagesInv'
<1>1. DOMAIN shelf = Ids /\ \A g \in Rows(shelf) : Filed(shelf[g])
  BY DEF PagesInv, Shelved
<1>2. ASSUME NEW g \in Ids, NEW edition, edition = NoRow \/ edition \in Editions[g],
             shelf' = [shelf EXCEPT ![g] = edition]
      PROVE  Shelved'
  <2>1. DOMAIN shelf' = Ids BY <1>1, <1>2
  <2>2. \A h \in Ids : shelf'[h] = IF h = g THEN edition ELSE shelf[h] BY <1>1, <1>2
  <2>3. ASSUME NEW h \in Ids, shelf'[h] # NoRow PROVE Filed(shelf'[h])
    <3>1. CASE h = g BY <1>2, <2>2, <2>3, <3>1, CatalogueAssumption
    <3>2. CASE h # g BY <1>1, <2>2, <2>3, <3>2 DEF Rows
    <3>. QED BY <3>1, <3>2
  <2>. QED BY <2>1, <2>3 DEF Shelved, Rows
<1>3. ASSUME UNCHANGED shelf PROVE Shelved' BY <1>1, <1>3 DEF Shelved, Rows
<1>4. ASSUME NEW g \in Ids, Withdraw(g) PROVE PagesInv' BY <1>2, <1>4, EditsKeep DEF Withdraw
<1>5. ASSUME NEW g \in Ids, NEW edition \in Editions[g], Save(g, edition) PROVE PagesInv'
  BY <1>2, <1>5, EditsKeep DEF Save
<1>6. ASSUME NEW n \in Articles, Retract(n) PROVE PagesInv' BY <1>3, <1>6, EditsKeep DEF Retract
<1>7. ASSUME NEW n \in Articles, NEW slug, Announce(n, slug) PROVE PagesInv'
  BY <1>3, <1>7, EditsKeep DEF Announce
<1>. QED BY <1>4, <1>5, <1>6, <1>7

LEMMA PagesKeep == PagesInv /\ [BrowserNext]_browserVars => PagesInv'
<1> SUFFICES ASSUME PagesInv, [BrowserNext]_browserVars PROVE PagesInv'
  OBVIOUS
<1>1. CASE PagesNext
  <2>1. ASSUME PlayerHost \/ StaticFile \/ SitemapIndex PROVE PagesInv'
    BY <2>1, AnswersEnd DEF PlayerHost, StaticFile, SitemapIndex
  <2>2. ASSUME ShowRows PROVE PagesInv' BY <2>2, AnswersKeep DEF ShowRows
  <2>. QED BY <1>1, <2>1, <2>2, VisitsKeep, SpellingsKeep, GuessesKeep, FixedPageKeeps, RankingsKeep,
              RandomKeeps, GamePageKeeps, GalleryKeeps, ArticleKeeps, HistoryKeeps, GenrePageKeeps,
              GroupPagesKeep, RespeltLetterKeeps, HomePageKeeps, ArchivesKeep, PageEditsKeep
           DEF PagesNext
<1>2. CASE UNCHANGED pageVars
  BY <1>2 DEF pageVars, PagesInv, KeptEnds, Shelved, Rows, StillToCome, Sends, Opens, InGenre, Count,
              Listed, Filtered, FindBySlug, Told
<1>. QED BY <1>1, <1>2 DEF BrowserNext, browserVars

(***************************************************************************)
(* However an address is spelt, and wherever an edit catches the request,  *)
(* it is answered at most five redirects after the last edit: the two      *)
(* layers of them (app.ts and the routes) and what a browser stores of     *)
(* them never form a circle.                                               *)
(***************************************************************************)
THEOREM RedirectsSettleCorrect == BrowserSpec => []RedirectsSettle
<1>1. PagesInv => RedirectsSettle
  <2> SUFFICES ASSUME PagesInv PROVE hops <= LongestChain
    BY DEF RedirectsSettle
  <2>1. StillToCome \in 0..5 BY FewRedirects
  <2>2. hops \in Nat /\ hops + StillToCome <= 5 BY DEF PagesInv, LongestChain
  <2>. QED BY <2>1, <2>2 DEF LongestChain
<1>2. BrowserInit => PagesInv BY PagesBegin DEF BrowserInit
<1>. QED BY <1>1, <1>2, PagesKeep, PTL DEF BrowserSpec

-----------------------------------------------------------------------------
(* What the visitor is shown *)

(* The site's own pages, by what the catalogue and the news hold: those    *)
(* that list something, and the others.                                    *)
Spelt(a) == a.host = "site" /\ a.https /\ ~a.caps /\ (a.slash => a.path = Home)

Lists(p, q) ==
  /\ \/ p.kind = "front" /\ q.genre = "" /\ q.search # "long" /\ ~RefusedOrdering(q)
     \/ /\ \/ p.kind = "one" /\ p.name \in Genres
           \/ p.kind = "letter" /\ p.name \notin DOMAIN Respelt
           \/ p.kind \in {"developer", "publisher", "year"}
        /\ ~HasSearch(q) /\ ~RefusedOrdering(q) /\ Count(p, q) > 0
     \/ p.kind \in {"news", "comments"} /\ ~HasListingParam(q)
  /\ ~IsPageBeyondTotal(ParsePage(q.page), Count(p, q))

Chosen(name) ==
  IF name = "most-played" THEN Rows(shelf) \cap Played
  ELSE {g \in Rows(shelf) : Curated[name] = "" \/ shelf[g].genre = Curated[name]}

ShowsOne(p, q) ==
  /\ ~HasListingParam(q)
  /\ \/ p.kind = "one" /\ p.name \in Fixed
     \/ /\ p.kind = "one" /\ p.name \in {"most-played"} \cup DOMAIN Curated
        /\ q.page = NoPage /\ Chosen(p.name) # {}
     \/ /\ p.kind = "one" /\ p.name \notin Reserved
        /\ ~InGenre(p.name) /\ FindBySlug(p.name) # {}
     \/ p.kind = "article" /\ \E n \in Told : headline[n] = p.name

Shows(p, q) == Lists(p, q) \/ ShowsOne(p, q)

(* what has an address of its own among the pages the site names *)
Indexed(a) ==
  /\ a.host = "site" /\ a.path.kind \notin {"gallery", "file"}
  /\ ~(a.path.kind = "one" /\ a.path.name \in Documents)

NamedRight ==
  linked /\ quiet =>
    /\ hops = 0 /\ step \in {"ask", "rows", "done"}
    /\ step = "ask" => Spelt(at) /\ Shows(at.path, at.query)
    /\ step = "done" => reply = "page"

CountRight ==
  /\ step = "done" /\ reply = "page" => at.host = "site" \/ at.path = PlayerFile
  /\ step \notin {"rows", "done"} => counted = 0
  /\ step = "rows" =>
       /\ Spelt(at)
       /\ quiet => Lists(at.path, at.query) /\ counted = Count(at.path, at.query)
  /\ step = "done" /\ reply = "page" /\ quiet /\ Indexed(at) =>
       /\ Spelt(at) /\ Shows(at.path, at.query)
       /\ counted = IF Lists(at.path, at.query) THEN Count(at.path, at.query) ELSE 0

FirstRows(p, q, n) == [i \in 1..n |-> RowAfter(p, q, i - 1)]
Fewer(m, n) == IF m < n THEN m ELSE n

WalkRight ==
  LET p == at.path  q == at.query  before == Offset(ParsePage(q.page)) IN
  quiet /\ walk.on =>
    /\ step \in {"ask", "rows"} => /\ ParsePage(q.page) = 1 \/ Lists(p, q)
                                   /\ walk.shown = FirstRows(p, q, before)
    /\ step = "done" /\ reply = "page" /\ IsListing(p) =>
         walk.shown = FirstRows(p, q, Fewer(before + Limit, Count(p, q)))

ReaderInv ==
  /\ step \in {"start", "ask", "history", "id", "rows", "done"}
  /\ at.query.page \in Int
  /\ walk = [on |-> walk.on, shown |-> walk.shown] /\ walk.on \in BOOLEAN
  /\ NamedRight /\ CountRight /\ WalkRight

(* A listing holds finitely many rows, and no more than its pages.         *)
LEMMA ListingsFinite ==
  ASSUME NEW p, NEW q
  PROVE  /\ Listed(p, q) \subseteq Nat /\ IsFiniteSet(Listed(p, q))
         /\ Count(p, q) \in Nat /\ Count(p, q) <= Limit * MaxPage
<1> DEFINE most == Limit * MaxPage
<1>1. \E all \in {Ids, Articles, Remarks} : Listed(p, q) \subseteq all
  <2>1. Filtered(p, q) \subseteq Ids BY DEF Filtered, Rows
  <2>2. Told \subseteq Articles BY DEF Told
  <2>. QED BY <2>1, <2>2 DEF Listed
<1>2. PICK all \in {Ids, Articles, Remarks} : Listed(p, q) \subseteq all BY <1>1
<1>3. all \subseteq Nat /\ IsFiniteSet(all) /\ Cardinality(all) <= most
  BY PagesConstants
<1>4. IsFiniteSet(Listed(p, q)) /\ Cardinality(Listed(p, q)) <= Cardinality(all)
  BY <1>2, <1>3, FS_Subset
<1>5. Cardinality(Listed(p, q)) \in Nat /\ Cardinality(all) \in Nat
  BY <1>3, <1>4, FS_CardinalityType
<1>6. most \in Nat BY PagingConstants
<1> HIDE DEF most
<1>7. Cardinality(Listed(p, q)) <= most BY <1>3, <1>4, <1>5, <1>6
<1>. QED BY <1>2, <1>3, <1>4, <1>5, <1>7 DEF Count, most

(* In a finite set that is strictly ordered, the elements have as many     *)
(* others before them as there are numbers.                                *)
StrictlyOrders(R, S) ==
  /\ \A g \in S : <<g, g>> \notin R
  /\ \A g, h \in S : g # h => <<g, h>> \in R \/ <<h, g>> \in R
  /\ \A g, h, k \in S : <<g, h>> \in R /\ <<h, k>> \in R => <<g, k>> \in R
Counts(place, R, S) ==
  place \in [S -> Nat] /\ \A g \in S : place[g] = Cardinality({h \in S : <<h, g>> \in R})
Numbers(place, S) ==
  /\ \A g \in S : place[g] \in 0..Cardinality(S) - 1
  /\ \A g, h \in S : place[g] = place[h] => g = h
  /\ \A n \in 0..Cardinality(S) - 1 : \E g \in S : place[g] = n

LEMMA Places ==
  ASSUME NEW S, IsFiniteSet(S), NEW R, StrictlyOrders(R, S), NEW place, Counts(place, R, S)
  PROVE  Numbers(place, S)
<1> USE DEF StrictlyOrders, Counts, Numbers
<1> DEFINE N == Cardinality(S)
           Ahead(g) == {h \in S : <<h, g>> \in R}
<1>1. N \in Nat BY FS_CardinalityType
<1>2. \A g \in S : IsFiniteSet(Ahead(g)) BY FS_Subset
<1>3. ASSUME NEW g \in S, NEW T, IsFiniteSet(T), Ahead(g) \cup {g} \subseteq T
      PROVE  place[g] < Cardinality(T)
  <2>1. g \notin Ahead(g) OBVIOUS
  <2>2. Cardinality(Ahead(g) \cup {g}) = place[g] + 1 BY <1>2, <2>1, FS_AddElement
  <2>3. Cardinality(Ahead(g) \cup {g}) <= Cardinality(T) BY <1>3, FS_Subset
  <2>4. Cardinality(T) \in Nat BY <1>3, FS_CardinalityType
  <2>. QED BY <2>2, <2>3, <2>4
<1>4. \A g \in S : place[g] \in 0..N - 1
  <2> SUFFICES ASSUME NEW g \in S PROVE place[g] \in 0..N - 1
    OBVIOUS
  <2>1. place[g] < N BY <1>3
  <2>. QED BY <1>1, <2>1
<1>5. ASSUME NEW g \in S, NEW h \in S, <<g, h>> \in R PROVE place[g] < place[h]
  <2>1. Ahead(g) \cup {g} \subseteq Ahead(h) BY <1>5
  <2>2. place[g] < Cardinality(Ahead(h)) BY <1>2, <1>3, <2>1
  <2>. QED BY <2>2
<1>6. \A g, h \in S : place[g] = place[h] => g = h
  <2> SUFFICES ASSUME NEW g \in S, NEW h \in S, place[g] = place[h], g # h PROVE FALSE
    OBVIOUS
  <2>1. <<g, h>> \in R \/ <<h, g>> \in R OBVIOUS
  <2>2. place[g] \in Nat /\ place[h] \in Nat OBVIOUS
  <2>3. place[g] < place[h] \/ place[h] < place[g] BY <1>5, <2>1
  <2>. QED BY <2>2, <2>3
<1>7. IsFiniteSet(0..N - 1) /\ Cardinality(0..N - 1) = N
  <2> HIDE DEF N
  <2>1. 0 \in Int /\ N - 1 \in Int /\ (IF 0 > N - 1 THEN 0 ELSE N - 1 - 0 + 1) = N BY <1>1
  <2>. QED BY <2>1, FS_Interval
<1>8. place \in Injection(S, 0..N - 1) BY <1>4, <1>6 DEF Injection, IsInjective
<1>9. place \in Surjection(S, 0..N - 1) BY <1>7, <1>8, FS_Injection
<1>. QED BY <1>4, <1>6, <1>9 DEF Surjection

(* Whatever the order a visitor chose, it is one: by a key of the rows,    *)
(* ties by id, up or down.                                                 *)
Less(key, g, h) == key[g] < key[h] \/ (key[g] = key[h] /\ g < h)

LEMMA ListingsOrdered ==
  ASSUME Shelved, NEW p, NEW q, Lists(p, q)
  PROVE  \E key \in [Listed(p, q) -> Int] : \E up \in BOOLEAN :
           \A g, h \in Listed(p, q) :
             Comes(p, q, g, h) <=> IF up THEN Less(key, g, h) ELSE Less(key, h, g)
<1> DEFINE S == Listed(p, q)
           by == OrderBy(p, q)
           up == Ascending(p, q)
           undated == IF up THEN 9999 ELSE 0
           key == [i \in S |-> Key(by, undated, i)]
<1>1. by \in {"title", "relevance", "rating", "release", "createdAt"}
  BY DEF OrderBy, Lists, RefusedOrdering, HasListingParam
<1>2. S \subseteq Nat BY ListingsFinite
<1>3. \A g, h : Comes(p, q, g, h) <=>
        IF up THEN Key(by, undated, g) < Key(by, undated, h)
                     \/ (Key(by, undated, g) = Key(by, undated, h) /\ g < h)
        ELSE Key(by, undated, h) < Key(by, undated, g)
               \/ (Key(by, undated, h) = Key(by, undated, g) /\ h < g)
  BY DEF Comes
<1>4. p.kind \in {"news", "comments"} => by = "createdAt"
  BY DEF OrderBy, Lists, HasListingParam, HasSearch, Searches, ByTitle
<1>5. p.kind \notin {"news", "comments"} => S \subseteq Rows(shelf) BY DEF Listed, Filtered
<1>6. up \in BOOLEAN BY DEF Ascending
<1>7. undated \in Int OBVIOUS
<1> HIDE DEF by, up, undated, S
<1>8. \A i \in S : Key(by, undated, i) \in Int
  <2>1. \A i : by = "createdAt" => Key(by, undated, i) = i BY DEF Key
  <2>2. CASE p.kind \in {"news", "comments"} BY <1>2, <1>4, <2>1, <2>2
  <2>3. CASE p.kind \notin {"news", "comments"}
    <3>1. \A i : by \in {"title", "relevance"} => Key(by, undated, i) = shelf[i].title BY DEF Key
    <3>2. \A i : by = "rating" => Key(by, undated, i) = shelf[i].rating BY DEF Key
    <3>3. \A i : by = "release" => Key(by, undated, i)
                                     = IF shelf[i].year = "" THEN undated ELSE shelf[i].released
      BY DEF Key
    <3>4. \A i \in S : shelf[i].title \in Int /\ shelf[i].rating \in Int /\ shelf[i].released \in Int
      BY <1>5, <2>3 DEF Shelved, Filed
    <3>5. ASSUME NEW i \in S PROVE Key(by, undated, i) \in Int
      <4>1. CASE by = "release" BY <1>7, <3>3, <3>4, <4>1
      <4>. QED BY <1>1, <1>2, <2>1, <3>1, <3>2, <3>4, <4>1
    <3>. QED BY <3>5
  <2>. QED BY <2>2, <2>3
<1>9. key \in [S -> Int] BY <1>8
<1>10. \A g, h \in S : Less(key, g, h) <=>
         Key(by, undated, g) < Key(by, undated, h)
           \/ (Key(by, undated, g) = Key(by, undated, h) /\ g < h)
  BY DEF Less
<1> HIDE DEF key
<1>11. \A g, h \in S : Comes(p, q, g, h) <=> IF up THEN Less(key, g, h) ELSE Less(key, h, g)
  BY <1>3, <1>10
<1>. QED BY <1>6, <1>9, <1>11 DEF S

(* So RowAfter names every row of a listing, by its place.                 *)
LEMMA RowsPlaced ==
  ASSUME Shelved, NEW p, NEW q, Lists(p, q)
  PROVE  /\ \A n \in 0..Count(p, q) - 1 :
              RowAfter(p, q, n) \in Listed(p, q) /\ After(p, q, RowAfter(p, q, n)) = n
         /\ \A g \in Listed(p, q) :
              After(p, q, g) \in 0..Count(p, q) - 1 /\ RowAfter(p, q, After(p, q, g)) = g
<1> DEFINE S == Listed(p, q)
           R == {w \in S \X S : Comes(p, q, w[1], w[2])}
           place == [g \in S |-> After(p, q, g)]
<1>1. S \subseteq Nat /\ IsFiniteSet(S) /\ Count(p, q) = Cardinality(S) BY ListingsFinite DEF Count
<1>2. PICK key \in [S -> Int], up \in BOOLEAN :
        \A g, h \in S : Comes(p, q, g, h) <=> IF up THEN Less(key, g, h) ELSE Less(key, h, g)
  BY ListingsOrdered
<1>3. \A g, h \in S : <<g, h>> \in R <=> Comes(p, q, g, h) OBVIOUS
<1>4. \A g \in S : After(p, q, g) = Cardinality({h \in S : <<h, g>> \in R})
  <2> SUFFICES ASSUME NEW g \in S
               PROVE  After(p, q, g) = Cardinality({h \in S : <<h, g>> \in R})
    OBVIOUS
  <2>1. {h \in S : Comes(p, q, h, g)} = {h \in S : <<h, g>> \in R} BY <1>3
  <2>. QED BY <2>1 DEF After
<1> HIDE DEF R, S
<1>5. place \in [S -> Nat] /\ \A g \in S : place[g] = Cardinality({h \in S : <<h, g>> \in R})
  <2>1. \A g \in S : Cardinality({h \in S : <<h, g>> \in R}) \in Nat
    BY <1>1, FS_Subset, FS_CardinalityType
  <2>. QED BY <1>4, <2>1
<1>6. \A g, h \in S : g \in Nat /\ h \in Nat /\ key[g] \in Int /\ key[h] \in Int BY <1>1
<1>7. \A g \in S : <<g, g>> \notin R BY <1>2, <1>3, <1>6 DEF Less
<1>8. \A g, h \in S : g # h => <<g, h>> \in R \/ <<h, g>> \in R BY <1>2, <1>3, <1>6 DEF Less
<1>9. \A g, h, k \in S : <<g, h>> \in R /\ <<h, k>> \in R => <<g, k>> \in R
  BY <1>2, <1>3, <1>6 DEF Less
<1>10. Numbers(place, S)
  <2>1. StrictlyOrders(R, S) BY <1>7, <1>8, <1>9 DEF StrictlyOrders
  <2>2. Counts(place, R, S) BY <1>5 DEF Counts
  <2> HIDE DEF place
  <2>. QED BY <1>1, <2>1, <2>2, Places
<1>11. \A g \in S : place[g] = After(p, q, g) BY DEF place
<1>12. \A n \in 0..Cardinality(S) - 1 : RowAfter(p, q, n) \in S /\ After(p, q, RowAfter(p, q, n)) = n
  BY <1>10, <1>11 DEF Numbers, RowAfter, S
<1>13. \A g \in S : RowAfter(p, q, After(p, q, g)) = g
  BY <1>10, <1>11, <1>12 DEF Numbers
<1>. QED BY <1>1, <1>10, <1>11, <1>12, <1>13 DEF Numbers, S

(* The arithmetic of pages.                                                *)
LEMMA Multiples ==
  \A a, b, c \in Nat : a <= b => a * c <= b * c
<1> SUFFICES ASSUME NEW a \in Nat, NEW b \in Nat, NEW c \in Nat, a <= b PROVE a * c <= b * c
  OBVIOUS
<1> DEFINE d == b - a
<1>1. d \in Nat /\ b = a + d OBVIOUS
<1> HIDE DEF d
<1>2. b * c = a * c + d * c BY <1>1
<1>3. a * c \in Nat /\ d * c \in Nat BY <1>1
<1>. QED BY <1>2, <1>3

LEMMA Offsets ==
  \A page \in Nat \ {0} : /\ Offset(page) \in Nat /\ Offset(1) = 0
                          /\ Offset(page + 1) = Offset(page) + Limit
                          /\ Offset(page + 1) = page * Limit
                          /\ \A before \in 1..page : Offset(before) <= Offset(page)
<1> SUFFICES ASSUME NEW page \in Nat \ {0}
             PROVE  /\ Offset(page) \in Nat /\ Offset(1) = 0
                    /\ Offset(page + 1) = Offset(page) + Limit
                    /\ Offset(page + 1) = page * Limit
                    /\ \A before \in 1..page : Offset(before) <= Offset(page)
  OBVIOUS
<1>1. Limit \in Nat \ {0} BY PagingConstants
<1>2. Offset(page) \in Nat /\ Offset(1) = 0
  <2>1. page - 1 \in Nat OBVIOUS
  <2>2. (page - 1) * Limit \in Nat BY <1>1, <2>1
  <2>. QED BY <1>1, <2>2 DEF Offset
<1>3. Offset(page + 1) = page * Limit
  <2>1. page + 1 - 1 = page OBVIOUS
  <2>. QED BY <2>1 DEF Offset
<1>4. page * Limit = (page - 1) * Limit + Limit BY <1>1
<1>5. \A before \in 1..page : Offset(before) <= Offset(page)
  <2>1. \A before \in 1..page : before - 1 \in Nat /\ page - 1 \in Nat /\ before - 1 <= page - 1
    OBVIOUS
  <2>. QED BY <1>1, <2>1, Multiples DEF Offset
<1>. QED BY <1>2, <1>3, <1>4, <1>5 DEF Offset

LEMMA NextIsThere ==
  ASSUME NEW page \in Nat \ {0}, NEW total \in Nat
  PROVE  HasNext(page, total) <=> Offset(page + 1) < total
<1> DEFINE sum == total + Limit - 1
           k == sum \div Limit
<1>1. Limit \in Nat \ {0} /\ sum \in Nat BY PagingConstants
<1>2. k \in Nat /\ k * Limit <= sum /\ sum < (k + 1) * Limit BY <1>1
<1>3. k * Limit \in Nat /\ (k + 1) * Limit = k * Limit + Limit /\ page * Limit \in Nat
      /\ (page + 1) * Limit = page * Limit + Limit
  BY <1>1, <1>2
<1>4. HasNext(page, total) <=> total # 0 /\ page < k BY DEF HasNext, TotalPages
<1>5. Offset(page + 1) = page * Limit BY Offsets
<1> HIDE DEF k
<1>6. CASE page < k
  <2>1. (page + 1) * Limit <= k * Limit
    <3>1. page + 1 \in Nat /\ page + 1 <= k BY <1>2, <1>6
    <3>. QED BY <1>1, <1>2, <3>1, Multiples
  <2>2. page * Limit < total BY <1>1, <1>2, <1>3, <2>1
  <2>. QED BY <1>3, <1>4, <1>5, <1>6, <2>2
<1>7. CASE ~(page < k)
  <2>1. k * Limit <= page * Limit BY <1>1, <1>2, <1>7, Multiples
  <2>2. total <= page * Limit BY <1>1, <1>2, <1>3, <2>1
  <2>. QED BY <1>3, <1>4, <1>5, <1>7, <2>2
<1>. QED BY <1>6, <1>7

LEMMA NextHasAnAddress ==
  ASSUME NEW page \in Nat \ {0}, NEW total \in Nat, total <= Limit * MaxPage,
         HasNext(page, total)
  PROVE  page + 1 \in 1..MaxPage
<1>1. Limit \in Nat \ {0} /\ MaxPage \in Nat \ {0} BY PagingConstants
<1>2. page * Limit < total BY NextIsThere, Offsets
<1>3. page * Limit \in Nat /\ MaxPage * Limit \in Nat /\ Limit * MaxPage = MaxPage * Limit BY <1>1
<1>4. ~(MaxPage <= page) BY <1>1, <1>2, <1>3, Multiples
<1>. QED BY <1>1, <1>4

LEMMA Parsed ==
  /\ \A n \in Int : ParsePage(n) \in 1..MaxPage
  /\ \A n \in 1..MaxPage : ParsePage(n) = n
  /\ ParsePage(NoPage) = 1
BY PagingConstants DEF ParsePage, NoPage

(* A page is beyond the end of a listing unless it is its first page or    *)
(* begins with one of its rows.                                            *)
LEMMA NotBeyond ==
  \A page \in Nat \ {0}, total \in Nat :
    IsPageBeyondTotal(page, total) <=> page # 1 /\ total <= Offset(page)
<1> SUFFICES ASSUME NEW page \in Nat \ {0}, NEW total \in Nat
             PROVE  IsPageBeyondTotal(page, total) <=> page # 1 /\ total <= Offset(page)
  OBVIOUS
<1>1. Offset(page) \in Nat BY Offsets
<1>. QED BY <1>1 DEF IsPageBeyondTotal, Offset

(* Every page that the sitemap names has rows, or is the first.            *)
LEMMA PagesOfATotal ==
  ASSUME NEW total \in Nat, NEW n \in 1..TotalPages(total)
  PROVE  n \in Nat \ {0} /\ ~IsPageBeyondTotal(ParsePage(n), total)
<1>1. n \in Nat \ {0} OBVIOUS
<1> DEFINE page == ParsePage(n)
<1>2. page \in Nat \ {0} /\ page <= n BY <1>1, PagingConstants DEF ParsePage
<1> HIDE DEF page
<1>3. CASE page = 1 BY <1>2, <1>3, NotBeyond DEF page
<1>4. CASE page # 1
  <2>1. page - 1 \in Nat \ {0} /\ page - 1 + 1 = page /\ page - 1 < n BY <1>2, <1>4
  <2>2. TotalPages(total) \in Int
    <3>1. Limit \in Nat \ {0} BY PagingConstants
    <3>. QED BY <3>1 DEF TotalPages
  <2>3. HasNext(page - 1, total) BY <1>1, <2>1, <2>2 DEF HasNext
  <2>4. Offset(page) < total BY <2>1, <2>3, NextIsThere
  <2>5. Offset(page) \in Nat BY <1>2, Offsets
  <2>. QED BY <1>2, <2>4, <2>5, NotBeyond DEF page
<1>. QED BY <1>1, <1>3, <1>4

(* The rows of a listing, page upon page, are all of it.                   *)
LEMMA RowsInSeq ==
  ASSUME NEW p, NEW q, NEW n \in Nat
  PROVE  /\ FirstRows(p, q, n) \in Seq({RowAfter(p, q, i) : i \in Nat})
         /\ Len(FirstRows(p, q, n)) = n
         /\ \A i \in 1..n : FirstRows(p, q, n)[i] = RowAfter(p, q, i - 1)
<1> DEFINE S == {RowAfter(p, q, i) : i \in Nat}
           s == FirstRows(p, q, n)
<1>1. s = [i \in 1..n |-> RowAfter(p, q, i - 1)] BY DEF FirstRows
<1>2. \A i \in 1..n : RowAfter(p, q, i - 1) \in S
  <2>1. \A i \in 1..n : i - 1 \in Nat OBVIOUS
  <2>. QED BY <2>1
<1> HIDE DEF S, s
<1>3. s \in Seq(S) /\ Len(s) = n BY <1>1, <1>2
<1>. QED BY <1>1, <1>3 DEF s, S

LEMMA RowsOfAPage ==
  ASSUME NEW p, NEW q, q.page \in Int, Lists(p, q)
  PROVE  LET before == Offset(ParsePage(q.page))
             n == Fewer(before + Limit, Count(p, q))
         IN  /\ before \in Nat /\ n \in Nat
             /\ FirstRows(p, q, before) \o Find(p, q) = FirstRows(p, q, n)
             /\ Count(p, q) > 0 => Find(p, q) # << >>
<1> DEFINE page == ParsePage(q.page)
           before == Offset(page)
           total == Count(p, q)
           rest == total - before
           m == IF rest < Limit THEN rest ELSE Limit
           n == Fewer(before + Limit, total)
           S == {RowAfter(p, q, i) : i \in Nat}
           first == FirstRows(p, q, before)
           find == Find(p, q)
<1>1. page \in Nat \ {0} /\ Limit \in Nat \ {0} BY Parsed, PagingConstants
<1>2. before \in Nat /\ (page = 1 => before = 0) BY <1>1, Offsets
<1>3. total \in Nat BY ListingsFinite
<1>4. page = 1 \/ before < total
  <2>1. ~IsPageBeyondTotal(page, total) BY DEF Lists
  <2>. QED BY <1>1, <1>2, <1>3, <2>1, NotBeyond
<1>5. find = [i \in 1..m |-> RowAfter(p, q, before + i - 1)] BY DEF Find
<1> HIDE DEF page, before, total, find, first, S
<1>6. m \in Nat /\ n = before + m /\ n \in Nat /\ (total > 0 => m # 0)
  BY <1>1, <1>2, <1>3, <1>4 DEF Fewer
<1> HIDE DEF m, n
<1>7. \A i \in 1..m : RowAfter(p, q, before + i - 1) \in S
  <2>1. \A i \in 1..m : before + i - 1 \in Nat BY <1>2, <1>6
  <2>. QED BY <2>1 DEF S
<1>8. find \in Seq(S) /\ Len(find) = m BY <1>5, <1>6, <1>7
<1>9. /\ first \in Seq(S) /\ Len(first) = before
      /\ \A i \in 1..before : first[i] = RowAfter(p, q, i - 1)
  BY <1>2, RowsInSeq DEF first, S
<1>10. /\ first \o find \in Seq(S) /\ Len(first \o find) = n
       /\ \A i \in 1..n : (first \o find)[i] = IF i <= before THEN first[i] ELSE find[i - before]
  BY <1>6, <1>8, <1>9, ConcatProperties
<1>11. \A i \in 1..n : (first \o find)[i] = RowAfter(p, q, i - 1)
  <2> SUFFICES ASSUME NEW i \in 1..n PROVE (first \o find)[i] = RowAfter(p, q, i - 1)
    OBVIOUS
  <2>1. CASE i <= before BY <1>2, <1>6, <1>9, <1>10, <2>1
  <2>2. CASE ~(i <= before)
    <3>1. i - before \in 1..m /\ before + (i - before) - 1 = i - 1 BY <1>2, <1>6, <2>2
    <3>2. (first \o find)[i] = find[i - before] BY <1>10, <2>2
    <3>. QED BY <1>5, <3>1, <3>2
  <2>. QED BY <2>1, <2>2
<1>12. first \o find = FirstRows(p, q, n)
  <2>1. first \o find = [i \in 1..n |-> (first \o find)[i]] BY <1>10, LenProperties
  <2>. QED BY <1>11, <2>1 DEF FirstRows
<1>13. total > 0 => find # << >> BY <1>6, <1>8, EmptySeq
<1>. QED BY <1>2, <1>6, <1>12, <1>13 DEF n, before, total, page, find, first

LEMMA RowsOfAll ==
  ASSUME Shelved, NEW p, NEW q, Lists(p, q) \/ Count(p, q) = 0
  PROVE  LET all == FirstRows(p, q, Count(p, q)) IN
         Len(all) = Cardinality(Listed(p, q)) /\ ToSet(all) = Listed(p, q)
<1> DEFINE n == Count(p, q)
           all == FirstRows(p, q, n)
           S == Listed(p, q)
<1>1. n \in Nat /\ n = Cardinality(S) /\ IsFiniteSet(S) BY ListingsFinite DEF Count
<1> HIDE DEF n, S
<1>2. DOMAIN all = 1..n BY DEF FirstRows
<1>3. Len(all) = n /\ \A i \in 1..n : all[i] = RowAfter(p, q, i - 1) BY <1>1, RowsInSeq
<1>4. ToSet(all) = {all[i] : i \in 1..n} BY <1>2 DEF ToSet
<1> HIDE DEF all
<1>5. CASE n = 0
  <2>1. S = {} BY <1>1, <1>5, FS_EmptySet
  <2>2. 1..n = {} BY <1>5
  <2>. QED BY <1>1, <1>3, <1>4, <2>1, <2>2 DEF all, n, S
<1>6. CASE n # 0
  <2>1. /\ \A i \in 0..n - 1 : RowAfter(p, q, i) \in S
        /\ \A g \in S : After(p, q, g) \in 0..n - 1 /\ RowAfter(p, q, After(p, q, g)) = g
    BY <1>6, RowsPlaced DEF n, S
  <2>2. ASSUME NEW i \in 1..n PROVE all[i] \in S
    <3>1. i - 1 \in 0..n - 1 BY <1>1
    <3>. QED BY <1>3, <2>1, <3>1
  <2>3. ASSUME NEW g \in S PROVE \E i \in 1..n : all[i] = g
    <3> DEFINE i == After(p, q, g) + 1
    <3>1. i \in 1..n /\ i - 1 = After(p, q, g) BY <1>1, <2>1
    <3>. QED BY <1>3, <2>1, <3>1
  <2>4. ToSet(all) = S BY <1>4, <2>2, <2>3
  <2>. QED BY <1>1, <1>3, <2>4 DEF all, n, S
<1>. QED BY <1>5, <1>6

(* While nothing is edited the pages stay what they are.                   *)
LEMMA SameRows ==
  ASSUME UNCHANGED library, NEW p, NEW q
  PROVE  /\ Listed(p, q)' = Listed(p, q) /\ Count(p, q)' = Count(p, q)
         /\ \A n : FirstRows(p, q, n)' = FirstRows(p, q, n)
         /\ Find(p, q)' = Find(p, q)
<1>1. shelf' = shelf /\ headline' = headline BY DEF library
<1>2. Rows(shelf)' = Rows(shelf) BY <1>1 DEF Rows
<1>3. Told' = Told BY <1>1 DEF Told
<1>4. Listed(p, q)' = Listed(p, q)
  <2>1. Filtered(p, q)' = Filtered(p, q) BY <1>1, <1>2 DEF Filtered
  <2>. QED BY <1>3, <2>1 DEF Listed
<1>5. Count(p, q)' = Count(p, q) BY <1>4 DEF Count
<1>6. \A g, h : Comes(p, q, g, h)' <=> Comes(p, q, g, h)
  <2>1. \A by, undated, i : Key(by, undated, i)' = Key(by, undated, i) BY <1>1 DEF Key
  <2>. QED BY <2>1 DEF Comes
<1>7. \A g : After(p, q, g)' = After(p, q, g) BY <1>4, <1>6 DEF After
<1>8. \A n : RowAfter(p, q, n)' = RowAfter(p, q, n) BY <1>4, <1>7 DEF RowAfter
<1>. QED BY <1>4, <1>5, <1>8 DEF FirstRows, Find

LEMMA SameShows ==
  ASSUME UNCHANGED library, NEW p, NEW q
  PROVE  (Lists(p, q)' <=> Lists(p, q)) /\ (Shows(p, q)' <=> Shows(p, q))
<1>1. shelf' = shelf /\ headline' = headline BY DEF library
<1>2. Rows(shelf)' = Rows(shelf) BY <1>1 DEF Rows
<1>3. \A name : FindBySlug(name)' = FindBySlug(name) BY <1>1, <1>2 DEF FindBySlug
<1>4. Told' = Told BY <1>1 DEF Told
<1>5. \A name : InGenre(name)' <=> InGenre(name) BY SameRows DEF InGenre
<1>6. \A name : Chosen(name)' = Chosen(name) BY <1>1, <1>2 DEF Chosen
<1>7. Lists(p, q)' <=> Lists(p, q) BY SameRows DEF Lists
<1>8. ShowsOne(p, q)' <=> ShowsOne(p, q) BY <1>1, <1>3, <1>4, <1>5, <1>6 DEF ShowsOne
<1>. QED BY <1>7, <1>8 DEF Shows

(* A listing reads of a query whether it searches, and the order.          *)
LEMMA SameQuestion ==
  ASSUME NEW p, NEW q, NEW r, Searches(q) <=> Searches(r), q.by = r.by, q.dir = r.dir
  PROVE  /\ Listed(p, q) = Listed(p, r) /\ Count(p, q) = Count(p, r)
         /\ \A n : FirstRows(p, q, n) = FirstRows(p, r, n)
<1>1. Listed(p, q) = Listed(p, r)
  <2>1. Filtered(p, q) = Filtered(p, r) BY DEF Filtered
  <2>. QED BY <2>1 DEF Listed
<1>2. \A g, h : Comes(p, q, g, h) <=> Comes(p, r, g, h)
  <2>1. OrderBy(p, q) = OrderBy(p, r) BY DEF OrderBy
  <2>2. Ascending(p, q) <=> Ascending(p, r) BY <2>1 DEF Ascending
  <2>. QED BY <2>1, <2>2 DEF Comes
<1>3. \A g : After(p, q, g) = After(p, r, g) BY <1>1, <1>2 DEF After
<1>4. \A n : RowAfter(p, q, n) = RowAfter(p, r, n) BY <1>1, <1>3 DEF RowAfter
<1>. QED BY <1>1, <1>4 DEF Count, FirstRows

(* The addresses that the site makes up.                                   *)
AsksNothing(q) ==
  /\ q.genre = "" /\ q.search = "none" /\ q.by = "" /\ q.dir = ""
  /\ ~Searches(q) /\ ~HasSearch(q) /\ ~HasListingParam(q) /\ ~RefusedOrdering(q)
IsPage(a, p, n) ==
  /\ Spelt(a) /\ a.path = p /\ AsksNothing(a.query)
  /\ a.query.page \in Int /\ a.query.page = (IF n = 1 THEN NoPage ELSE n)
  /\ ParsePage(a.query.page) = ParsePage(n)

LEMMA UrlParts == \A p : \A n \in Int : IsPage(PageUrl(p, n), p, n)
<1> SUFFICES ASSUME NEW p, NEW n \in Int PROVE IsPage(PageUrl(p, n), p, n)
  OBVIOUS
<1> DEFINE m == IF n = 1 THEN NoPage ELSE n
           q == [NoQuery EXCEPT !.page = m]
           a == PageUrl(p, n)
<1>1. a = Link(p, q) BY DEF PageUrl
<1>2. m \in Int /\ ParsePage(m) = ParsePage(n) BY PagingConstants DEF ParsePage, NoPage
<1> HIDE DEF m
<1>3. q.page = m /\ q.genre = "" /\ ~HasListingParam(q) BY NoQueryAsks, Turned
<1> HIDE DEF q
<1>4. a.path = p /\ a.query = q /\ Spelt(a) BY <1>1 DEF Link, Spelt
<1> HIDE DEF a
<1>5. q.page = m /\ q.genre = "" /\ q.search = "none" /\ q.by = "" /\ q.dir = ""
  BY <1>3 DEF HasListingParam, HasSearch
<1>6. ~Searches(q) /\ ~HasSearch(q) /\ ~HasListingParam(q) /\ ~RefusedOrdering(q)
  BY <1>5 DEF Searches, HasSearch, HasListingParam, RefusedOrdering
<1>7. AsksNothing(q) BY <1>5, <1>6 DEF AsksNothing
<1>. QED BY <1>2, <1>4, <1>5, <1>7 DEF a, m, IsPage

(* A listing that is not empty, on one of its pages, has an address.       *)
WellNamed(a) == Spelt(a) /\ Shows(a.path, a.query) /\ a.query.page \in Int

LEMMA ListingShows ==
  ASSUME NEW p, NEW n \in Int, ~IsPageBeyondTotal(ParsePage(n), Count(p, NoQuery)),
         \/ p.kind \in {"front", "news", "comments"}
         \/ /\ Count(p, NoQuery) > 0
            /\ \/ p.kind = "one" /\ p.name \in Genres
               \/ p.kind = "letter" /\ p.name \notin DOMAIN Respelt
               \/ p.kind \in {"developer", "publisher", "year"}
  PROVE  WellNamed(PageUrl(p, n)) /\ Lists(p, PageUrl(p, n).query)
<1> DEFINE a == PageUrl(p, n)
           q == a.query
<1>1. Spelt(a) /\ a.path = p /\ q.page \in Int /\ ParsePage(q.page) = ParsePage(n) /\ AsksNothing(q)
  BY UrlParts DEF IsPage
<1>2. Count(p, q) = Count(p, NoQuery)
  <2>1. ~Searches(NoQuery) /\ NoQuery.by = "" /\ NoQuery.dir = "" BY DEF NoQuery, Searches
  <2>. QED BY <1>1, <2>1, SameQuestion DEF AsksNothing
<1> HIDE DEF a
<1>3. Lists(p, q) BY <1>1, <1>2 DEF Lists, AsksNothing
<1>. QED BY <1>1, <1>3 DEF Shows, WellNamed, a

LEMMA PageShows ==
  ASSUME NEW p, ShowsOne(p, PageUrl(p, 1).query)
  PROVE  WellNamed(PageUrl(p, 1))
<1>1. IsPage(PageUrl(p, 1), p, 1) BY UrlParts
<1>. QED BY <1>1 DEF IsPage, WellNamed, Shows

(* getSitemapCounts counts a game in each of its groups.                   *)
LEMMA Groups ==
  ASSUME NEW g, NEW p
  PROVE  p \in CountedIn(g) <=>
           /\ p = Path(p.kind, p.name)
           /\ \/ p.kind = "letter" /\ p.name = Initial[shelf[g].slug]
              \/ p.kind = "one" /\ p.name = shelf[g].genre
              \/ p.kind = "developer" /\ p.name # "" /\ p.name = shelf[g].developer
              \/ p.kind = "year" /\ p.name # "" /\ p.name = shelf[g].year
              \/ /\ p.kind = "publisher" /\ p.name # ""
                 /\ p.name = IF shelf[g].publisher = "" THEN shelf[g].developer
                             ELSE shelf[g].publisher
<1> DEFINE credit == IF shelf[g].publisher = "" THEN shelf[g].developer ELSE shelf[g].publisher
           Is(kind, name) == p = Path(p.kind, p.name) /\ p.kind = kind /\ p.name = name
<1>1. p \in CountedIn(g) <=>
        \/ p = Path("letter", Initial[shelf[g].slug])
        \/ p = Path("one", shelf[g].genre)
        \/ shelf[g].developer # "" /\ p = Path("developer", shelf[g].developer)
        \/ credit # "" /\ p = Path("publisher", credit)
        \/ shelf[g].year # "" /\ p = Path("year", shelf[g].year)
  BY DEF CountedIn, One
<1>2. \A kind, name : p = Path(kind, name) <=> Is(kind, name) BY Paths
<1> HIDE DEF credit, Is
<1>3. p \in CountedIn(g) <=>
        \/ Is("letter", Initial[shelf[g].slug]) \/ Is("one", shelf[g].genre)
        \/ shelf[g].developer # "" /\ Is("developer", shelf[g].developer)
        \/ credit # "" /\ Is("publisher", credit)
        \/ shelf[g].year # "" /\ Is("year", shelf[g].year)
  BY <1>1, <1>2
<1>4. p \in CountedIn(g) <=>
           /\ p = Path(p.kind, p.name)
           /\ \/ p.kind = "letter" /\ p.name = Initial[shelf[g].slug]
              \/ p.kind = "one" /\ p.name = shelf[g].genre
              \/ p.kind = "developer" /\ p.name # "" /\ p.name = shelf[g].developer
              \/ p.kind = "year" /\ p.name # "" /\ p.name = shelf[g].year
              \/ p.kind = "publisher" /\ p.name # "" /\ p.name = credit
  BY <1>3 DEF Is
<1>. QED BY <1>4 DEF credit

LEMMA SitemapShows ==
  ASSUME Shelved, NEW a \in Sitemap
  PROVE  WellNamed(a)
<1> DEFINE Fronts == AllPages(Home, Cardinality(Rows(shelf)))
           News == AllPages(Path("news", ""), Cardinality(Told))
           Comments == {PageUrl(Path("comments", ""), 1)}
           Fixes == {PageUrl(One(f), 1) : f \in Fixed}
           Most == {PageUrl(One("most-played"), 1) : g \in Rows(shelf) \cap Played}
           Lists_ == {PageUrl(One(l), 1) : l \in {l \in DOMAIN Curated : CountListGames(l) > 0}}
           Slugs == {PageUrl(One(shelf[g].slug), 1) : g \in Rows(shelf)}
           Stories == {PageUrl(Path("article", headline[n]), 1) : n \in Told}
<1>0. Sitemap = Fronts \cup News \cup Comments \cup Fixes \cup Most \cup Lists_ \cup GroupPages
                  \cup Slugs \cup Stories
  BY DEF Sitemap
<1>1. /\ \A kind, name : Path(kind, name).kind = kind /\ Path(kind, name).name = name
      /\ \A name : One(name).kind = "one" /\ One(name).name = name
      /\ Home.kind = "front"
  BY Paths DEF One, Home
<1>2. ~Searches(NoQuery) BY DEF NoQuery, Searches
<1>3. ParsePage(1) = 1 BY PagingConstants DEF ParsePage
<1>4. \A total \in Nat : ~IsPageBeyondTotal(1, total) BY DEF IsPageBeyondTotal
<1>5. ASSUME NEW p PROVE AsksNothing(PageUrl(p, 1).query) /\ PageUrl(p, 1).query.page = NoPage
  BY UrlParts DEF IsPage
<1>6. ASSUME NEW p, NEW total, total = Count(p, NoQuery), a \in AllPages(p, total),
             \/ p.kind \in {"front", "news", "comments"}
             \/ /\ total > 0
                /\ \/ p.kind = "one" /\ p.name \in Genres
                   \/ p.kind = "letter" /\ p.name \notin DOMAIN Respelt
                   \/ p.kind \in {"developer", "publisher", "year"}
      PROVE  WellNamed(a)
  <2>1. total \in Nat BY <1>6, ListingsFinite
  <2>2. PICK n \in 1..TotalPages(total) : a = PageUrl(p, n) BY <1>6 DEF AllPages
  <2>3. n \in Nat \ {0} /\ ~IsPageBeyondTotal(ParsePage(n), total) BY <2>1, PagesOfATotal
  <2>. QED BY <1>6, <2>2, <2>3, ListingShows
<1>7. CASE a \in Fronts
  <2>1. Filtered(Home, NoQuery) = Rows(shelf) BY <1>1, <1>2 DEF Filtered
  <2>2. Count(Home, NoQuery) = Cardinality(Rows(shelf)) BY <1>1, <2>1 DEF Count, Listed
  <2>. QED BY <1>1, <1>6, <1>7, <2>2
<1>8. CASE a \in News
  <2>1. Count(Path("news", ""), NoQuery) = Cardinality(Told) BY <1>1 DEF Count, Listed
  <2>. QED BY <1>1, <1>6, <1>8, <2>1
<1>9. CASE a \in Comments
  <2>1. ~IsPageBeyondTotal(ParsePage(1), Count(Path("comments", ""), NoQuery))
    BY <1>3, <1>4, ListingsFinite
  <2>2. a = PageUrl(Path("comments", ""), 1) /\ Path("comments", "").kind = "comments"
    BY <1>1, <1>9
  <2>3. 1 \in Int OBVIOUS
  <2>. QED BY <2>1, <2>2, <2>3, ListingShows
<1>10. CASE a \in Fixes
  <2>1. PICK f \in Fixed : a = PageUrl(One(f), 1) BY <1>10
  <2>. QED BY <1>1, <1>5, <2>1, PageShows DEF ShowsOne, AsksNothing
<1>11. CASE a \in Most
  <2>1. a = PageUrl(One("most-played"), 1) /\ Rows(shelf) \cap Played # {} BY <1>11
  <2>. QED BY <1>1, <1>5, <2>1, PageShows DEF ShowsOne, AsksNothing, Chosen
<1>12. CASE a \in Lists_
  <2>1. PICK l \in DOMAIN Curated : a = PageUrl(One(l), 1) /\ CountListGames(l) > 0 BY <1>12
  <2>2. Chosen(l) # {}
    <3> DEFINE S == IF Curated[l] = "" THEN Rows(shelf)
                    ELSE {g \in Rows(shelf) : One(Curated[l]) \in CountedIn(g)}
    <3>1. CountListGames(l) = Cardinality(S) BY DEF CountListGames, SitemapCount
    <3> HIDE DEF S
    <3>2. PICK g : g \in S BY <2>1, <3>1, FS_EmptySet
    <3> USE DEF S
    <3>3. g \in Rows(shelf) /\ (Curated[l] # "" => One(Curated[l]) \in CountedIn(g)) BY <3>2
    <3>4. Curated[l] = "" \/ shelf[g].genre = Curated[l]
      <4> DEFINE p == One(Curated[l])
      <4>1. p.kind = "one" /\ p.name = Curated[l] BY <1>1
      <4> HIDE DEF p
      <4>2. p \in CountedIn(g) => p.name = shelf[g].genre BY <4>1, Groups
      <4>. QED BY <3>3, <4>1, <4>2 DEF p
    <3>5. l # "most-played" BY RoutesAssumption DEF Own
    <3>. QED BY <3>3, <3>4, <3>5 DEF Chosen
  <2>. QED BY <1>1, <1>5, <2>1, <2>2, PageShows DEF ShowsOne, AsksNothing
<1>13. CASE a \in GroupPages
  <2>1. PICK p \in UNION {CountedIn(g) : g \in Rows(shelf)} : a \in AllPages(p, SitemapCount(p))
    BY <1>13 DEF GroupPages
  <2>2. PICK g \in Rows(shelf) : p \in CountedIn(g) BY <2>1
  <2>3. g \in Rows(shelf) /\ p \in CountedIn(g) /\ a \in AllPages(p, SitemapCount(p))
    BY <2>1, <2>2
  <2>4. /\ p.kind \in {"letter", "one", "developer", "publisher", "year"}
        /\ p.kind = "one" => p.name \in Genres
        /\ p.kind = "letter" => p.name \notin DOMAIN Respelt
        /\ p.kind \in {"developer", "publisher", "year"} => p.name # ""
        /\ p = Path(p.kind, p.name)
    <3>1. Filed(shelf[g]) BY DEF Shelved
    <3>. QED BY <2>3, <3>1, Groups DEF Filed
  <2>5. Filtered(p, NoQuery) = {h \in Rows(shelf) : p \in CountedIn(h)}
    <3> SUFFICES ASSUME NEW h \in Rows(shelf)
                 PROVE  h \in Filtered(p, NoQuery) <=> p \in CountedIn(h)
      BY DEF Filtered
    <3>1. \/ p.kind = "letter" /\ (h \in Filtered(p, NoQuery) <=> Initial[shelf[h].slug] = p.name)
          \/ p.kind = "one" /\ (h \in Filtered(p, NoQuery) <=> shelf[h].genre = p.name)
          \/ p.kind = "developer" /\ (h \in Filtered(p, NoQuery) <=> shelf[h].developer = p.name)
          \/ p.kind = "year" /\ (h \in Filtered(p, NoQuery) <=> shelf[h].year = p.name)
          \/ /\ p.kind = "publisher"
             /\ h \in Filtered(p, NoQuery) <=>
                  \/ shelf[h].publisher = p.name
                  \/ shelf[h].developer = p.name /\ shelf[h].publisher = ""
      BY <2>4 DEF Filtered
    <3>. QED BY <2>4, <3>1, Groups
  <2>6. Count(p, NoQuery) = SitemapCount(p) BY <2>4, <2>5 DEF Count, Listed, SitemapCount
  <2>7. SitemapCount(p) > 0
    <3>1. g \in Listed(p, NoQuery) BY <2>3, <2>4, <2>5 DEF Listed
    <3>2. Count(p, NoQuery) # 0 BY <3>1, ListingsFinite, FS_EmptySet DEF Count
    <3>. QED BY <2>6, <3>2, ListingsFinite
  <2>. QED BY <1>6, <2>3, <2>4, <2>6, <2>7
<1>14. CASE a \in Slugs
  <2>1. PICK g \in Rows(shelf) : a = PageUrl(One(shelf[g].slug), 1) BY <1>14
  <2> DEFINE name == shelf[g].slug
  <2>2. name \notin Reserved /\ g \in FindBySlug(name) BY DEF Shelved, Filed, FindBySlug
  <2> HIDE DEF name
  <2>3. CASE InGenre(name)
    <3>1. ~IsPageBeyondTotal(ParsePage(1), Count(One(name), NoQuery)) BY <1>3, <1>4, ListingsFinite
    <3>. QED BY <1>1, <2>1, <2>3, <3>1, ListingShows DEF InGenre, name
  <2>4. CASE ~InGenre(name) BY <1>1, <1>5, <2>1, <2>2, <2>4, PageShows DEF ShowsOne, AsksNothing, name
  <2>. QED BY <2>3, <2>4
<1>15. CASE a \in Stories
  <2>1. PICK n \in Told : a = PageUrl(Path("article", headline[n]), 1) BY <1>15
  <2> DEFINE p == Path("article", headline[n])
  <2>2. p.kind = "article" /\ p.name = headline[n] BY <1>1
  <2> HIDE DEF p
  <2>3. ShowsOne(p, PageUrl(p, 1).query) BY <1>5, <2>1, <2>2 DEF ShowsOne, AsksNothing
  <2>. QED BY <2>1, <2>3, PageShows DEF p
<1> HIDE DEF Fronts, News, Comments, Fixes, Most, Lists_, Slugs, Stories
<1>. QED BY <1>0, <1>7, <1>8, <1>9, <1>10, <1>11, <1>12, <1>13, <1>14, <1>15

(* The canonical address of a page that was shown, and the next one of a   *)
(* listing.                                                                *)
LEMMA CanonicalShows ==
  ASSUME NEW a, a.query.page \in Int, Shows(a.path, a.query), ~IsNoindex(a)
  PROVE  WellNamed(Canonical(a))
<1> DEFINE p == a.path
           q == a.query
           page == ParsePage(q.page)
           n == IF IsListing(p) THEN page ELSE 1
           r == PageUrl(p, n).query
<1>1. page \in Int /\ page \in 1..MaxPage /\ ParsePage(page) = page BY Parsed
<1>2. n \in Int BY <1>1
<1>3. Canonical(a) = PageUrl(p, n) BY DEF Canonical
<1>4. ~Searches(q) /\ q.by = "" /\ q.dir = "" BY DEF IsNoindex
<1>5. CASE Lists(p, q)
  <2>1. IsListing(p) BY <1>5 DEF Lists, IsListing
  <2>2. ~Searches(NoQuery) /\ NoQuery.by = "" /\ NoQuery.dir = "" BY DEF NoQuery, Searches
  <2>3. Count(p, NoQuery) = Count(p, q) BY <1>4, <2>2, SameQuestion
  <2> HIDE DEF p, q, page
  <2>4. ~IsPageBeyondTotal(ParsePage(page), Count(p, NoQuery)) BY <1>1, <1>5, <2>3 DEF Lists, page
  <2>. QED BY <1>1, <1>3, <1>5, <2>1, <2>3, <2>4, ListingShows DEF Lists
<1>6. CASE ShowsOne(p, q)
  <2>1. IsPage(PageUrl(p, n), p, n) BY <1>2, UrlParts
  <2>2. p.kind = "one" /\ p.name \in {"most-played"} \cup DOMAIN Curated => ~IsListing(p)
    BY RoutesAssumption DEF IsListing, Own
  <2>3. AsksNothing(r) /\ r.page = (IF n = 1 THEN NoPage ELSE n) BY <2>1 DEF IsPage
  <2> HIDE DEF n, r, p, q
  <2>4. ~IsListing(p) => n = 1 BY DEF n
  <2>5. ShowsOne(p, r) BY <1>6, <2>2, <2>4, <2>3 DEF ShowsOne, AsksNothing
  <2>. QED BY <1>3, <2>1, <2>5 DEF IsPage, WellNamed, Shows, r
<1>. QED BY <1>5, <1>6 DEF Shows

LEMMA NextShows ==
  ASSUME NEW a, IsAddress(a), Spelt(a), a.query.page \in Int, Lists(a.path, a.query),
         HasNext(ParsePage(a.query.page), Count(a.path, a.query)), NEW b, b = NextPageHref(a)
  PROVE  /\ WellNamed(b) /\ Lists(b.path, b.query) /\ b.path = a.path
         /\ ParsePage(b.query.page) = ParsePage(a.query.page) + 1
         /\ Offset(ParsePage(b.query.page)) < Count(a.path, a.query)
         /\ \A n : FirstRows(b.path, b.query, n) = FirstRows(a.path, a.query, n)
<1> DEFINE p == a.path
           q == a.query
           r == b.query
           page == ParsePage(q.page)
           total == Count(p, q)
<1>1. page \in Nat \ {0} /\ total \in Nat /\ total <= Limit * MaxPage BY Parsed, ListingsFinite
<1>2. IsNextPage(b, a) BY NextPages
<1>3. page + 1 \in 1..MaxPage /\ Offset(page + 1) < total
  <2>1. HasNext(page, total) OBVIOUS
  <2> HIDE DEF page, total
  <2>. QED BY <1>1, <2>1, NextHasAnAddress, NextIsThere
<1>4. r.page = page + 1 /\ r.page \in Int /\ ParsePage(r.page) = page + 1
  <2>1. r.page = page + 1 BY <1>2 DEF IsNextPage
  <2> HIDE DEF page
  <2>. QED BY <1>3, <2>1, Parsed
<1>5. (Searches(q) <=> Searches(r)) /\ r.by = q.by /\ r.dir = q.dir
  BY <1>2 DEF IsNextPage, Searches
<1>6. Count(p, r) = total /\ \A n : FirstRows(p, r, n) = FirstRows(p, q, n)
  BY <1>5, SameQuestion
<1>7. /\ r.genre = q.genre /\ (q.search # "long" => r.search # "long")
      /\ (HasSearch(r) <=> HasSearch(q)) /\ (HasListingParam(r) <=> HasListingParam(q))
      /\ (RefusedOrdering(r) <=> RefusedOrdering(q))
  BY <1>2 DEF IsNextPage, Searches, HasSearch, HasListingParam, RefusedOrdering
<1>8. ~IsPageBeyondTotal(page + 1, total)
  <2> HIDE DEF page, total
  <2>1. page + 1 \in Nat \ {0} /\ Offset(page + 1) \in Nat BY <1>1, Offsets
  <2>. QED BY <1>1, <1>3, <2>1, NotBeyond
<1>9. Spelt(b) /\ b.path = p BY <1>2 DEF IsNextPage, Spelt
<1>10. Lists(p, r)
  <2> HIDE DEF page, total
  <2>1. total = Count(p, q) BY DEF total
  <2>. QED BY <1>4, <1>6, <1>7, <1>8, <2>1 DEF Lists
<1>. QED BY <1>3, <1>4, <1>6, <1>9, <1>10 DEF WellNamed, Shows

(* What each kind of page is.                                              *)
LEMMA KindsOfPages ==
  ASSUME NEW p, NEW q
  PROVE  /\ p.kind = "one" /\ p.name \in Fixed =>
              ~Lists(p, q) /\ ~IsListing(p) /\ (ShowsOne(p, q) <=> ~HasListingParam(q))
         /\ p.kind = "one" /\ p.name \in {"most-played"} \cup DOMAIN Curated =>
              /\ ~Lists(p, q) /\ ~IsListing(p)
              /\ ShowsOne(p, q) <=> ~HasListingParam(q) /\ q.page = NoPage /\ Chosen(p.name) # {}
         /\ p.kind = "one" /\ p.name \in {"random"} \cup Documents =>
              ~Lists(p, q) /\ ~IsListing(p) /\ ~ShowsOne(p, q)
         /\ p.kind = "one" /\ p.name \notin Reserved /\ ~InGenre(p.name) =>
              /\ ~Lists(p, q) /\ (IsListing(p) => Count(p, q) = 0)
              /\ ShowsOne(p, q) <=> ~HasListingParam(q) /\ FindBySlug(p.name) # {}
         /\ p.kind = "one" /\ p.name \notin Reserved /\ InGenre(p.name) => ~ShowsOne(p, q)
         /\ p.kind \in {"gallery", "file"} => ~Lists(p, q) /\ ~IsListing(p) /\ ~ShowsOne(p, q)
         /\ p.kind = "article" =>
              /\ ~Lists(p, q) /\ ~IsListing(p)
              /\ ShowsOne(p, q) <=> ~HasListingParam(q) /\ \E n \in Told : headline[n] = p.name
         /\ p.kind \notin {"one", "article"} => ~ShowsOne(p, q)
<1>1. p.kind = "one" => (IsListing(p) <=> p.name \in Genres) BY DEF IsListing
<1>2. p.kind = "one" => (Lists(p, q) => InGenre(p.name) /\ p.name \in Genres)
  BY SameGenre DEF Lists
<1>3. p.kind = "one" /\ ~InGenre(p.name) /\ p.name \in Genres => Count(p, q) = 0
  BY SameGenre, ListingsFinite
<1>4. Genres \cap Reserved = {} /\ Fixed \cup DOMAIN Curated \cup {"most-played"} \subseteq Reserved
  BY RoutesAssumption DEF Reserved, Own
<1>5. p.kind = "one" /\ p.name \in Fixed => (ShowsOne(p, q) <=> ~HasListingParam(q))
  BY <1>4, RoutesAssumption DEF ShowsOne
<1>6. p.kind = "one" /\ p.name \in {"most-played"} \cup DOMAIN Curated =>
        (ShowsOne(p, q) <=> ~HasListingParam(q) /\ q.page = NoPage /\ Chosen(p.name) # {})
  BY <1>4, RoutesAssumption DEF ShowsOne, Own
<1>7. p.kind = "one" /\ p.name \in {"random"} \cup Documents => ~ShowsOne(p, q) /\ p.name \in Reserved
  BY RoutesAssumption DEF ShowsOne, Own, Reserved, Documents
<1>8. p.kind = "one" /\ p.name \notin Reserved =>
        (ShowsOne(p, q) <=> ~HasListingParam(q) /\ ~InGenre(p.name) /\ FindBySlug(p.name) # {})
  BY <1>4 DEF ShowsOne
<1>9. p.kind \in {"gallery", "file"} => ~Lists(p, q) /\ ~IsListing(p) /\ ~ShowsOne(p, q)
  BY DEF Lists, IsListing, ShowsOne
<1>10. p.kind = "article" =>
         /\ ~Lists(p, q) /\ ~IsListing(p)
         /\ ShowsOne(p, q) <=> ~HasListingParam(q) /\ \E n \in Told : headline[n] = p.name
  BY DEF Lists, IsListing, ShowsOne
<1>11. p.kind \notin {"one", "article"} => ~ShowsOne(p, q) BY DEF ShowsOne
<1>. QED BY <1>1, <1>2, <1>3, <1>4, <1>5, <1>6, <1>7, <1>8, <1>9, <1>10, <1>11

LEMMA NoRows == \A p, q : FirstRows(p, q, 0) = << >>
BY DEF FirstRows

LEMMA NoPageAsked == NoQuery.page \in Int
<1>1. NoQuery.page = NoPage BY NoQueryAsks
<1>2. NoPage \in Int BY DEF NoPage
<1>. QED BY <1>1, <1>2

LEMMA ReaderBegins == PagesInit => ReaderInv
<1> SUFFICES ASSUME PagesInit PROVE ReaderInv
  OBVIOUS
<1>1. at = Link(Home, NoQuery) /\ step = "start" /\ counted = 0 /\ linked = FALSE /\ walk = Off
  BY DEF PagesInit
<1>2. at.query.page \in Int
  <2>1. at.query = NoQuery BY <1>1 DEF Link
  <2>. QED BY <2>1, NoPageAsked
<1>3. walk = [on |-> walk.on, shown |-> walk.shown] /\ walk.on = FALSE BY <1>1 DEF Off
<1>4. NamedRight /\ CountRight /\ WalkRight BY <1>1, <1>3 DEF NamedRight, CountRight, WalkRight
<1>. QED BY <1>1, <1>2, <1>3, <1>4 DEF ReaderInv

(* A walk starts, if it does, on a first page with nothing shown.          *)
LEMMA WalksAnew ==
  ASSUME NEW a, NEW w, w = Walk(a)
  PROVE  /\ w = [on |-> w.on, shown |-> w.shown] /\ w.on \in BOOLEAN /\ w.shown = << >>
         /\ w.on => ParsePage(a.query.page) = 1
BY DEF Walk

LEMMA AskedAnew ==
  ASSUME NEW a, at' = a, a.query.page \in Int, walk' = Walk(a), step' = "ask", counted' = 0,
         linked' /\ quiet' => hops' = 0 /\ Spelt(a) /\ Shows(a.path, a.query)'
  PROVE  ReaderInv'
<1>1. /\ walk' = [on |-> walk'.on, shown |-> walk'.shown] /\ walk'.on \in BOOLEAN
      /\ walk'.shown = << >> /\ (walk'.on => ParsePage(a.query.page) = 1)
  BY WalksAnew
<1>2. NamedRight'
  <2>1. linked' /\ quiet' => Spelt(at)' /\ Shows(at.path, at.query)' BY DEF Spelt
  <2>. QED BY <2>1 DEF NamedRight
<1>3. CountRight' BY DEF CountRight
<1>4. WalkRight'
  <2>1. Offset(1) = 0 BY PagingConstants DEF Offset
  <2>2. \A p, q : FirstRows(p, q, 0)' = << >> BY DEF FirstRows
  <2>. QED BY <1>1, <2>1, <2>2 DEF WalkRight
<1>. QED BY <1>1, <1>2, <1>3, <1>4 DEF ReaderInv

(* The shapes of a step: the visitor goes somewhere, a redirect, an answer *)
(* without rows, another query, the rows, and an edit.                     *)
LEMMA GoesRight ==
  ASSUME NEW a, NEW named, Goes(a, named), walk' = Walk(a), a.query.page \in Int,
         named /\ quiet' => WellNamed(a)
  PROVE  ReaderInv'
<1>1. /\ at' = a /\ step' = "ask" /\ counted' = 0 /\ hops' = 0 /\ linked' = named
      /\ UNCHANGED library
  BY DEF Goes
<1>2. Shows(a.path, a.query)' <=> Shows(a.path, a.query) BY <1>1, SameShows
<1>. QED BY <1>1, <1>2, AskedAnew DEF WellNamed

LEMMA RedirectRight ==
  ASSUME ReaderInv, NEW a, NEW keeps, Redirects(a, keeps), a.query.page \in Int,
         step \in {"ask", "history", "id"}, ~(linked /\ quiet)
  PROVE  ReaderInv'
<1>1. /\ at' = a /\ walk' = Walk(a) /\ step' = "ask"
      /\ UNCHANGED <<counted, linked, quiet>>
  BY DEF Redirects
<1>2. counted = 0 BY DEF ReaderInv, CountRight
<1>. QED BY <1>1, <1>2, AskedAnew

LEMMA SentRight ==
  ASSUME ReaderInv, NEW p, NEW q, SentTo(p, q), q.page \in Int,
         step \in {"ask", "history", "id"}, ~(linked /\ quiet)
  PROVE  ReaderInv'
<1>1. Redirects(Link(p, q), FALSE) BY DEF SentTo, Storable
<1>2. Link(p, q).query = q BY DEF Link
<1>. QED BY <1>1, <1>2, RedirectRight

(* The page at the address lists nothing.                                  *)
ListsNothing ==
  /\ step = "ask" /\ (at.host = "site" \/ at.path = PlayerFile)
  /\ Indexed(at) => Spelt(at) /\ ShowsOne(at.path, at.query)
  /\ ~Lists(at.path, at.query) /\ (IsListing(at.path) => Count(at.path, at.query) = 0)

LEMMA AnswerRight ==
  ASSUME ReaderInv, NEW what, Answers(what),
         IF what = "page" THEN ListsNothing ELSE ~(linked /\ quiet)
  PROVE  ReaderInv'
<1>1. /\ reply' = what /\ step' = "done" /\ at' = at /\ counted' = counted /\ hops' = hops
      /\ linked' = linked /\ quiet' = quiet /\ walk' = walk /\ UNCHANGED library
  BY DEF Answers
<1> DEFINE p == at.path
           q == at.query
<1>2. /\ Lists(p, q)' <=> Lists(p, q)
      /\ Shows(p, q)' <=> Shows(p, q)
      /\ Count(p, q)' = Count(p, q)
      /\ \A n : FirstRows(p, q, n)' = FirstRows(p, q, n)
  <2>1. /\ \A x, y : Lists(x, y)' <=> Lists(x, y)
        /\ \A x, y : Shows(x, y)' <=> Shows(x, y)
        /\ \A x, y : Count(x, y)' = Count(x, y)
        /\ \A x, y, n : FirstRows(x, y, n)' = FirstRows(x, y, n)
    BY <1>1, SameShows, SameRows
  <2>. QED BY <1>1, <2>1
<1>3. NamedRight' BY <1>1 DEF ReaderInv, NamedRight
<1>4. CASE what # "page" BY <1>1, <1>3, <1>4 DEF ReaderInv, CountRight, WalkRight
<1>5. CASE what = "page"
  <2>1. CountRight'
    <3>1. counted = 0 BY <1>5 DEF ReaderInv, CountRight, ListsNothing
    <3>. QED BY <1>1, <1>2, <1>5, <3>1 DEF CountRight, ListsNothing, Indexed, Spelt, Shows
  <2>2. WalkRight'
    <3> SUFFICES ASSUME quiet, walk.on, IsListing(p)
                 PROVE  walk'.shown = FirstRows(p, q, Fewer(Offset(ParsePage(q.page)) + Limit, Count(p, q)))'
      BY <1>1 DEF WalkRight
    <3>1. ParsePage(q.page) = 1 /\ walk.shown = FirstRows(p, q, Offset(ParsePage(q.page)))
      BY <1>5 DEF ReaderInv, WalkRight, ListsNothing
    <3>2. Offset(1) = 0 BY PagingConstants DEF Offset
    <3>3. Count(p, q) = 0 BY <1>5 DEF ListsNothing
    <3>4. Fewer(Offset(1) + Limit, 0) = 0 BY <3>2, PagingConstants DEF Fewer
    <3>. QED BY <1>1, <1>2, <3>1, <3>2, <3>3, <3>4
  <2>. QED BY <1>1, <1>3, <2>1, <2>2 DEF ReaderInv
<1>. QED BY <1>4, <1>5

LEMMA TurnRight ==
  ASSUME ReaderInv, NEW next \in {"history", "id"}, Turns(next),
         step \in {"ask", "history"}, ~(linked /\ quiet)
  PROVE  ReaderInv'
BY DEF Turns, ReaderInv, NamedRight, CountRight, WalkRight

LEMMA EditRight ==
  ASSUME ReaderInv, Edited
  PROVE  ReaderInv'
BY DEF Edited, ReaderInv, NamedRight, CountRight, WalkRight

LEMMA RowsRight ==
  ASSUME ReaderInv, ReadsRows, step = "ask", Spelt(at), Lists(at.path, at.query)
  PROVE  ReaderInv'
<1>1. /\ at' = at /\ step' = "rows" /\ counted' = Count(at.path, at.query)
      /\ UNCHANGED <<reply, hops, linked, quiet, walk, library>>
  BY DEF ReadsRows
<1> DEFINE p == at.path
           q == at.query
<1>2. Lists(p, q)' /\ Count(p, q)' = Count(p, q) /\ \A n : FirstRows(p, q, n)' = FirstRows(p, q, n)
  <2>1. /\ \A x, y : Lists(x, y)' <=> Lists(x, y)
        /\ \A x, y : Count(x, y)' = Count(x, y)
        /\ \A x, y, n : FirstRows(x, y, n)' = FirstRows(x, y, n)
    BY <1>1, SameShows, SameRows
  <2>. QED BY <1>1, <2>1
<1>3. NamedRight' BY <1>1 DEF ReaderInv, NamedRight
<1>4. CountRight' BY <1>1, <1>2 DEF CountRight, Spelt
<1>5. WalkRight' BY <1>1, <1>2 DEF ReaderInv, WalkRight
<1>. QED BY <1>1, <1>3, <1>4, <1>5 DEF ReaderInv

LEMMA ShowRowsRight ==
  ASSUME ReaderInv, ShowRows
  PROVE  ReaderInv'
<1> DEFINE p == at.path
           q == at.query
           rows == Find(p, q)
           page == ParsePage(q.page)
           before == Offset(page)
           n == Fewer(before + Limit, Count(p, q))
           gone == p.kind \in {"one", "letter"} \/ (p.kind \in {"front", "news"} /\ page > 1)
<1>1. /\ at' = at /\ step = "rows" /\ step' = "done"
      /\ reply' = IF rows = << >> /\ gone THEN "missing" ELSE "page"
      /\ walk' = [walk EXCEPT !.shown = @ \o rows]
      /\ UNCHANGED <<counted, hops, linked, quiet, library>>
  BY DEF ShowRows
<1>2. /\ Lists(p, q)' <=> Lists(p, q)
      /\ Shows(p, q)' <=> Shows(p, q)
      /\ Count(p, q)' = Count(p, q)
      /\ \A k : FirstRows(p, q, k)' = FirstRows(p, q, k)
  <2>1. /\ \A x, y : Lists(x, y)' <=> Lists(x, y)
        /\ \A x, y : Shows(x, y)' <=> Shows(x, y)
        /\ \A x, y : Count(x, y)' = Count(x, y)
        /\ \A x, y, k : FirstRows(x, y, k)' = FirstRows(x, y, k)
    BY <1>1, SameShows, SameRows
  <2>. QED BY <1>1, <2>1
<1>3. /\ Spelt(at) /\ q.page \in Int
      /\ quiet => Lists(p, q) /\ counted = Count(p, q)
  BY <1>1 DEF ReaderInv, CountRight
<1>4. quiet => /\ Lists(p, q) /\ (Count(p, q) > 0 => rows # << >>)
               /\ FirstRows(p, q, before) \o rows = FirstRows(p, q, n)
  BY <1>3, RowsOfAPage
<1>5. Count(p, q) \in Nat BY ListingsFinite
<1>6. Lists(p, q) /\ Count(p, q) = 0 => ~gone
  <2> SUFFICES ASSUME Lists(p, q), Count(p, q) = 0 PROVE ~gone
    OBVIOUS
  <2>1. p.kind \notin {"one", "letter"}
    <3>1. ~(Count(p, q) > 0) OBVIOUS
    <3>2. p.kind \in {"front", "news", "comments"} BY <3>1 DEF Lists
    <3>. QED BY <3>2
  <2>2. page \in Nat \ {0} BY <1>3, Parsed
  <2>3. ~IsPageBeyondTotal(page, 0) BY DEF Lists
  <2>4. page = 1
    <3>1. Offset(page) \in Nat BY <2>2, Offsets
    <3>. QED BY <2>2, <2>3, <3>1, NotBeyond
  <2>. QED BY <2>1, <2>4
<1> HIDE DEF rows, gone, before, page, n
<1>7. quiet => reply' = "page" BY <1>1, <1>4, <1>5, <1>6
<1>8. NamedRight' BY <1>1, <1>7 DEF ReaderInv, NamedRight
<1>9. CountRight'
  <2>1. Spelt(at)' /\ at'.host = "site" BY <1>1, <1>3 DEF Spelt
  <2>. QED BY <1>1, <1>2, <1>3, <2>1 DEF CountRight, Shows
<1>10. /\ walk' = [on |-> walk.on, shown |-> walk.shown \o rows]
       /\ walk.on \in BOOLEAN
  BY <1>1 DEF ReaderInv
<1>11. WalkRight'
  <2>1. quiet /\ walk.on => walk.shown = FirstRows(p, q, before)
    BY <1>1 DEF ReaderInv, WalkRight, before, page
  <2>2. quiet /\ walk.on => walk'.shown = FirstRows(p, q, n) BY <1>4, <1>10, <2>1
  <2>. QED BY <1>1, <1>2, <1>10, <2>2 DEF WalkRight, n, before, page
<1>. QED BY <1>1, <1>3, <1>8, <1>9, <1>10, <1>11 DEF ReaderInv

(* An address that shows nothing of its own was not named by the site.     *)
LEMMA NotNamed ==
  ASSUME ReaderInv, step = "ask",
         ~Spelt(at) \/ (~Lists(at.path, at.query) /\ ~ShowsOne(at.path, at.query))
  PROVE  ~(linked /\ quiet)
BY DEF ReaderInv, NamedRight, Shows

LEMMA RoutedRight ==
  ASSUME PagesInv, ReaderInv, Routed
  PROVE  /\ step = "ask" /\ at.host = "site" /\ Spelt(at)
         /\ IsPath(at.path) /\ IsQuery(at.query) /\ at.query.page \in Int
BY Asked DEF Routed, Unstored, Bare, Elsewhere, Spelt, ReaderInv

(* What a route takes off a query.                                         *)
LEMMA StillAsks ==
  ASSUME NEW q, IsQuery(q)
  PROVE  /\ WithoutListingParams(q).page = q.page
         /\ LET w == WithoutSearch(q) IN
            /\ w.page = q.page /\ w.by = q.by /\ w.dir = q.dir /\ ~Searches(w)
            /\ RefusedOrdering(w) <=> RefusedOrdering(q)
<1> DEFINE u == [q EXCEPT !.search = "none", !.by = "", !.dir = ""]
<1>1. u.page = q.page BY DEF IsQuery
<1>2. WithoutListingParams(q) = u BY DEF WithoutListingParams
<1> HIDE DEF u
<1>3. WithoutListingParams(q).page = q.page BY <1>1, <1>2
<1> DEFINE w == WithoutSearch(q)
<1>4. w.page = q.page /\ w.by = q.by /\ w.dir = q.dir /\ w.search = "none"
  BY DEF IsQuery, WithoutSearch
<1> HIDE DEF w
<1>5. ~Searches(w) /\ (RefusedOrdering(w) <=> RefusedOrdering(q))
  BY <1>4 DEF Searches, RefusedOrdering
<1>. QED BY <1>3, <1>4, <1>5 DEF w

(* Each page, by its route.                                                *)
LEMMA VisitsRight ==
  ASSUME PagesInv, ReaderInv,
         \/ \E a \in Typed : Type(a)
         \/ \E a \in Bookmarks : Bookmark(a)
         \/ \E a \in Sitemap : FollowSitemap(a)
         \/ FollowCanonical
  PROVE  ReaderInv'
<1>1. \E a, named : /\ Goes(a, named) /\ walk' = Walk(a) /\ a.query.page \in Int
                    /\ named /\ quiet' => WellNamed(a)
  <2>1. CASE \E a \in Typed : Type(a) BY <2>1, AddressAssumption DEF Type
  <2>2. CASE \E a \in Bookmarks : Bookmark(a) BY <2>2, AddressAssumption DEF Bookmark
  <2>3. CASE \E a \in Sitemap : FollowSitemap(a)
    BY <2>3, SitemapShows DEF PagesInv, FollowSitemap, WellNamed
  <2>4. CASE FollowCanonical
    <3>1. /\ step = "done" /\ reply = "page" /\ ~IsNoindex(at) /\ Indexed(at)
          /\ Goes(Canonical(at), TRUE) /\ walk' = Walk(Canonical(at)) /\ quiet' = quiet
      BY <2>4 DEF FollowCanonical, Indexed
    <3>2. quiet => Shows(at.path, at.query) BY <3>1 DEF ReaderInv, CountRight
    <3>3. at.query.page \in Int BY DEF ReaderInv
    <3>4. quiet => WellNamed(Canonical(at)) BY <3>1, <3>2, <3>3, CanonicalShows
    <3>5. Canonical(at).query.page \in Int
      <4>1. ParsePage(at.query.page) \in Int BY <3>3, Parsed
      <4>. QED BY <4>1, UrlParts DEF Canonical, IsPage
    <3>. QED BY <3>1, <3>4, <3>5
  <2>. QED BY <2>1, <2>2, <2>3, <2>4
<1>. QED BY <1>1, GoesRight

LEMMA ListingsIndexed ==
  ASSUME ReaderInv, step = "done", reply = "page", IsListing(at.path)
  PROVE  Indexed(at)
<1>1. at.path.kind \notin {"gallery", "file"} BY DEF IsListing
<1>2. ~(at.path.kind = "one" /\ at.path.name \in Documents) BY RoutesAssumption DEF IsListing
<1>3. at.host = "site" \/ at.path = PlayerFile BY DEF ReaderInv, CountRight
<1>4. PlayerFile.kind = "file" BY Paths DEF PlayerFile
<1>. QED BY <1>1, <1>2, <1>3, <1>4 DEF Indexed

LEMMA FollowNextRight ==
  ASSUME PagesInv, ReaderInv, FollowNext
  PROVE  ReaderInv'
<1> DEFINE p == at.path
           q == at.query
           page == ParsePage(q.page)
<1>1. PICK b : b = NextPageHref(at) OBVIOUS
<1>2. /\ step = "done" /\ reply = "page" /\ IsListing(p) /\ HasNext(page, counted)
      /\ at' = b /\ step' = "ask" /\ counted' = 0 /\ hops' = 0 /\ linked'
      /\ walk' = walk /\ quiet' = quiet /\ UNCHANGED library
  BY <1>1 DEF FollowNext, Goes
<1>3. IsAddress(at) /\ q.page \in Int BY DEF PagesInv, ReaderInv
<1>4. page \in Nat \ {0} BY <1>3, Parsed
<1>5. b.query.page \in Int
  <2>1. b.query.page = page + 1 BY <1>1, <1>3, NextPages DEF IsNextPage
  <2> HIDE DEF page
  <2>. QED BY <1>4, <2>1
<1>6. walk = [on |-> walk.on, shown |-> walk.shown] /\ walk.on \in BOOLEAN BY DEF ReaderInv
<1>7. CASE ~quiet
  BY <1>2, <1>5, <1>6, <1>7 DEF ReaderInv, NamedRight, CountRight, WalkRight
<1>8. CASE quiet
  <2>1. Indexed(at) BY <1>2, ListingsIndexed
  <2>2. Spelt(at) /\ counted = IF Lists(p, q) THEN Count(p, q) ELSE 0
    BY <1>2, <1>8, <2>1 DEF ReaderInv, CountRight
  <2>3. ~HasNext(page, 0)
    <3>1. TotalPages(0) = 1 BY DEF TotalPages
    <3> HIDE DEF page
    <3>. QED BY <1>4, <3>1 DEF HasNext
  <2>4. Lists(p, q) /\ counted = Count(p, q) BY <1>2, <2>2, <2>3
  <2>5. /\ WellNamed(b) /\ Lists(b.path, b.query) /\ b.path = p
        /\ ParsePage(b.query.page) = page + 1
        /\ Offset(page + 1) < Count(p, q)
        /\ \A n : FirstRows(b.path, b.query, n) = FirstRows(p, q, n)
    BY <1>1, <1>2, <1>3, <2>2, <2>4, NextShows
  <2>6. Shows(b.path, b.query)' /\ Lists(b.path, b.query)'
        /\ \A n : FirstRows(b.path, b.query, n)' = FirstRows(b.path, b.query, n)
    BY <1>2, <2>5, SameShows, SameRows DEF WellNamed
  <2>7. walk.on => walk.shown = FirstRows(b.path, b.query, Offset(page + 1))
    <3> SUFFICES ASSUME walk.on PROVE walk.shown = FirstRows(p, q, Offset(page + 1))
      BY <2>5
    <3>1. walk.shown = FirstRows(p, q, Fewer(Offset(page) + Limit, Count(p, q)))
      BY <1>2, <1>8 DEF ReaderInv, WalkRight
    <3>2. Offset(page + 1) = Offset(page) + Limit BY <1>4, Offsets
    <3>3. Fewer(Offset(page + 1), Count(p, q)) = Offset(page + 1) BY <2>5 DEF Fewer
    <3>. QED BY <3>1, <3>2, <3>3
  <2>8. NamedRight'
    <3>1. Spelt(at)' BY <1>2, <2>5 DEF WellNamed, Spelt
    <3>2. Shows(at.path, at.query)' BY <1>2, <2>6
    <3>. QED BY <1>2, <3>1, <3>2 DEF NamedRight
  <2>9. CountRight' BY <1>2 DEF CountRight
  <2>10. WalkRight'
    <3>1. \A n : FirstRows(at.path, at.query, n)' = FirstRows(b.path, b.query, n) BY <1>2, <2>6
    <3>2. Lists(at.path, at.query)' BY <1>2, <2>6
    <3>. QED BY <1>2, <2>5, <2>7, <3>1, <3>2 DEF WalkRight
  <2>. QED BY <1>2, <1>5, <1>6, <2>8, <2>9, <2>10 DEF ReaderInv
<1>. QED BY <1>7, <1>8

LEMMA SpellingsRight ==
  ASSUME PagesInv, ReaderInv, CanonicalHost \/ Https \/ TrailingSlash \/ LowerCase
  PROVE  ReaderInv'
<1>1. at = [host |-> at.host, https |-> at.https, slash |-> at.slash, caps |-> at.caps,
            path |-> at.path, query |-> at.query]
  BY DEF PagesInv, IsAddress
<1>2. step = "ask" /\ ~Spelt(at)
  BY DEF CanonicalHost, Https, TrailingSlash, LowerCase, Unstored, Elsewhere, Spelt
<1>3. \E a : Redirects(a, TRUE) /\ a.query = at.query
  <2>1. /\ [at EXCEPT !.host = "site", !.https = TRUE].query = at.query
        /\ [at EXCEPT !.https = TRUE].query = at.query
        /\ [at EXCEPT !.slash = FALSE].query = at.query
        /\ [at EXCEPT !.caps = FALSE].query = at.query
    BY <1>1
  <2>. QED BY <2>1 DEF CanonicalHost, Https, TrailingSlash, LowerCase
<1>4. at.query.page \in Int BY DEF ReaderInv
<1>. QED BY <1>2, <1>3, <1>4, NotNamed, RedirectRight

LEMMA GuessesRight ==
  ASSUME PagesInv, ReaderInv, Recall \/ Favicon \/ SitemapXml
  PROVE  ReaderInv'
<1>1. /\ step = "ask" /\ at.path.kind = "one" /\ at.path.name \in Guesses
      /\ \E a \in Ends : \E keeps : Redirects(a, keeps)
  <2>1. CASE Recall BY <2>1 DEF Recall, PagesInv, KeptEnds
  <2>2. CASE Favicon BY <2>2 DEF Favicon, At, Routed, Unstored, Guesses, Ends
  <2>3. CASE SitemapXml BY <2>3 DEF SitemapXml, At, Routed, Unstored, Guesses, Ends
  <2>. QED BY <2>1, <2>2, <2>3
<1>2. at.path.name \in {"random"} \cup Documents BY <1>1 DEF Guesses, Documents
<1>3. ~Lists(at.path, at.query) /\ ~ShowsOne(at.path, at.query) BY <1>1, <1>2, KindsOfPages
<1>4. \A a \in Ends : a.query.page \in Int
  <2>1. \A p : Link(p, NoQuery).query = NoQuery BY DEF Link
  <2>. QED BY <2>1, NoPageAsked DEF Ends
<1>. QED BY <1>1, <1>3, <1>4, NotNamed, RedirectRight

(* The files and the documents list nothing and have no address to name.   *)
LEMMA FilesRight ==
  ASSUME PagesInv, ReaderInv, PlayerHost \/ StaticFile \/ SitemapIndex
  PROVE  ReaderInv'
<1>0. PlayerFile.kind = "file" BY Paths DEF PlayerFile
<1>1. CASE PlayerHost
  <2>1. /\ step = "ask" /\ at.host = "player"
        /\ Answers(IF at.path = PlayerFile THEN "page" ELSE "missing")
    BY <1>1 DEF PlayerHost, Unstored
  <2>2. ~(linked /\ quiet) BY <2>1, NotNamed DEF Spelt
  <2>3. at.path = PlayerFile => ListsNothing
    BY <1>0, <2>1, KindsOfPages DEF ListsNothing, Indexed
  <2>. QED BY <2>1, <2>2, <2>3, AnswerRight
<1>2. CASE StaticFile
  <2>1. Routed /\ at.path.kind = "file" /\ Answers("page") BY <1>2 DEF StaticFile, At
  <2>2. ListsNothing BY <2>1, RoutedRight, KindsOfPages DEF ListsNothing, Indexed
  <2>. QED BY <2>1, <2>2, AnswerRight
<1>3. CASE SitemapIndex
  <2>1. /\ Routed /\ at.path.kind = "one" /\ at.path.name = "sitemap-index.xml"
        /\ Answers("page")
    BY <1>3 DEF SitemapIndex, At
  <2>2. at.path.name \in Documents BY <2>1 DEF Documents
  <2>3. ListsNothing BY <2>1, <2>2, RoutedRight, KindsOfPages DEF ListsNothing, Indexed
  <2>. QED BY <2>1, <2>3, AnswerRight
<1>. QED BY <1>1, <1>2, <1>3

LEMMA FixedPageRight ==
  ASSUME PagesInv, ReaderInv, FixedPage
  PROVE  ReaderInv'
<1>1. Routed /\ at.path.kind = "one" /\ at.path.name \in Fixed BY DEF FixedPage, At
<1>2. /\ step = "ask" /\ at.host = "site" /\ Spelt(at)
      /\ IsQuery(at.query) /\ at.query.page \in Int
  BY <1>1, RoutedRight
<1>3. /\ ~Lists(at.path, at.query) /\ ~IsListing(at.path)
      /\ ShowsOne(at.path, at.query) <=> ~HasListingParam(at.query)
  BY <1>1, KindsOfPages
<1>4. CASE HasListingParam(at.query)
  <2>1. SentTo(at.path, WithoutListingParams(at.query)) BY <1>4 DEF FixedPage
  <2>2. WithoutListingParams(at.query).page \in Int BY <1>2, StillAsks
  <2>. QED BY <1>2, <1>3, <1>4, <2>1, <2>2, NotNamed, SentRight
<1>5. CASE ~HasListingParam(at.query)
  <2>1. Answers("page") BY <1>5 DEF FixedPage
  <2>2. ListsNothing BY <1>2, <1>3, <1>5 DEF ListsNothing
  <2>. QED BY <2>1, <2>2, AnswerRight
<1>. QED BY <1>4, <1>5

LEMMA RankingRight ==
  ASSUME PagesInv, ReaderInv, Routed, at.path.kind = "one",
         at.path.name \in {"most-played"} \cup DOMAIN Curated, Ranking(Chosen(at.path.name))
  PROVE  ReaderInv'
<1>1. /\ step = "ask" /\ at.host = "site" /\ Spelt(at)
      /\ IsQuery(at.query) /\ at.query.page \in Int
  BY RoutedRight
<1>2. /\ ~Lists(at.path, at.query) /\ ~IsListing(at.path)
      /\ ShowsOne(at.path, at.query)
           <=> ~HasListingParam(at.query) /\ at.query.page = NoPage /\ Chosen(at.path.name) # {}
  BY KindsOfPages
<1> DEFINE w == WithoutListingParams(at.query)
           q == [w EXCEPT !.page = NoPage]
<1>3. CASE HasListingParam(at.query) \/ at.query.page # NoPage
  <2>1. SentTo(at.path, q) BY <1>3 DEF Ranking
  <2>2. q.page \in Int
    <3>1. IsQuery(w) BY <1>1, Dropped
    <3> HIDE DEF w
    <3>2. q.page = NoPage BY <3>1, Turned
    <3> HIDE DEF q
    <3>. QED BY <3>2 DEF NoPage
  <2> HIDE DEF q
  <2>. QED BY <1>1, <1>2, <1>3, <2>1, <2>2, NotNamed, SentRight
<1>4. CASE ~(HasListingParam(at.query) \/ at.query.page # NoPage)
  <2>1. Answers(IF Chosen(at.path.name) = {} THEN "missing" ELSE "page")
    BY <1>4 DEF Ranking
  <2>2. CASE Chosen(at.path.name) = {}
    <3>1. ~(linked /\ quiet) BY <1>1, <1>2, <2>2, NotNamed
    <3>. QED BY <2>1, <2>2, <3>1, AnswerRight
  <2>3. CASE Chosen(at.path.name) # {}
    <3>1. ListsNothing BY <1>1, <1>2, <1>4, <2>3 DEF ListsNothing
    <3>. QED BY <2>1, <2>3, <3>1, AnswerRight
  <2>. QED BY <2>2, <2>3
<1>. QED BY <1>3, <1>4

LEMMA RankingsRight ==
  ASSUME PagesInv, ReaderInv, MostPlayed \/ CuratedList
  PROVE  ReaderInv'
<1>1. CASE MostPlayed
  <2>1. /\ Routed /\ at.path.kind = "one" /\ at.path.name = "most-played"
        /\ Ranking(Rows(shelf) \cap Played)
    BY <1>1 DEF MostPlayed, At
  <2>2. Chosen(at.path.name) = Rows(shelf) \cap Played BY <2>1 DEF Chosen
  <2>. QED BY <2>1, <2>2, RankingRight
<1>2. CASE CuratedList
  <2> DEFINE games == {g \in Rows(shelf) :
                         Curated[at.path.name] = "" \/ shelf[g].genre = Curated[at.path.name]}
  <2>1. /\ Routed /\ at.path.kind = "one" /\ at.path.name \in DOMAIN Curated /\ Ranking(games)
    BY <1>2 DEF CuratedList, At
  <2>2. at.path.name # "most-played" BY <2>1, RoutesAssumption DEF Own
  <2>3. Chosen(at.path.name) = games BY <2>2 DEF Chosen
  <2>. QED BY <2>1, <2>3, RankingRight
<1>. QED BY <1>1, <1>2

LEMMA RandomRight ==
  ASSUME PagesInv, ReaderInv, Random
  PROVE  ReaderInv'
<1>1. Routed /\ at.path.kind = "one" /\ at.path.name = "random" BY DEF Random, At
<1>2. step = "ask" BY <1>1, RoutedRight
<1>3. ~(linked /\ quiet) BY <1>1, <1>2, KindsOfPages, NotNamed
<1>4. CASE \E g \in Rows(shelf) : SentTo(One(shelf[g].slug), NoQuery)
  BY <1>2, <1>3, <1>4, NoPageAsked, SentRight
<1>5. CASE Answers("missing") BY <1>3, <1>5, AnswerRight
<1>. QED BY <1>4, <1>5 DEF Random

LEMMA GamePageRight ==
  ASSUME PagesInv, ReaderInv, GamePage
  PROVE  ReaderInv'
<1>1. /\ Routed /\ at.path.kind = "one" /\ at.path.name \notin Reserved
      /\ at.path.name \in Genres => Count(at.path, NoQuery) = 0
  BY DEF GamePage, Elsewise, At
<1>2. /\ step = "ask" /\ at.host = "site" /\ Spelt(at)
      /\ IsQuery(at.query) /\ at.query.page \in Int
  BY <1>1, RoutedRight
<1>3. ~InGenre(at.path.name) BY <1>1, SameGenre
<1>4. /\ ~Lists(at.path, at.query) /\ (IsListing(at.path) => Count(at.path, at.query) = 0)
      /\ ShowsOne(at.path, at.query)
           <=> ~HasListingParam(at.query) /\ FindBySlug(at.path.name) # {}
  BY <1>1, <1>3, KindsOfPages
<1>5. CASE FindBySlug(at.path.name) = {}
  <2>1. Turns("history") BY <1>5 DEF GamePage
  <2>. QED BY <1>2, <1>4, <1>5, <2>1, NotNamed, TurnRight
<1>6. CASE FindBySlug(at.path.name) # {} /\ HasListingParam(at.query)
  <2>1. SentTo(at.path, WithoutListingParams(at.query)) BY <1>6 DEF GamePage
  <2>2. WithoutListingParams(at.query).page \in Int BY <1>2, StillAsks
  <2>. QED BY <1>2, <1>4, <1>6, <2>1, <2>2, NotNamed, SentRight
<1>7. CASE FindBySlug(at.path.name) # {} /\ ~HasListingParam(at.query)
  <2>1. Answers("page") BY <1>7 DEF GamePage
  <2>2. ListsNothing BY <1>2, <1>4, <1>7 DEF ListsNothing
  <2>. QED BY <2>1, <2>2, AnswerRight
<1>. QED BY <1>5, <1>6, <1>7

LEMMA GalleryRight ==
  ASSUME PagesInv, ReaderInv, Gallery
  PROVE  ReaderInv'
<1>1. Routed /\ at.path.kind = "gallery" BY DEF Gallery, At
<1>2. step = "ask" /\ at.host = "site" BY <1>1, RoutedRight
<1>3. ~Lists(at.path, at.query) /\ ~IsListing(at.path) /\ ~ShowsOne(at.path, at.query)
  BY <1>1, KindsOfPages
<1>4. ~(linked /\ quiet) BY <1>2, <1>3, NotNamed
<1>5. ListsNothing BY <1>1, <1>2, <1>3 DEF ListsNothing, Indexed
<1>6. CASE Turns("history") BY <1>2, <1>4, <1>6, TurnRight
<1>7. CASE \E what : Answers(what) BY <1>4, <1>5, <1>7, AnswerRight
<1>. QED BY <1>6, <1>7 DEF Gallery

LEMMA ArticleRight ==
  ASSUME PagesInv, ReaderInv, Article
  PROVE  ReaderInv'
<1>1. Routed /\ at.path.kind = "article" BY DEF Article, At
<1>2. /\ step = "ask" /\ at.host = "site" /\ Spelt(at)
      /\ IsQuery(at.query) /\ at.query.page \in Int
  BY <1>1, RoutedRight
<1> DEFINE live == \E n \in Told : headline[n] = at.path.name
<1>3. /\ ~Lists(at.path, at.query) /\ ~IsListing(at.path)
      /\ ShowsOne(at.path, at.query) <=> ~HasListingParam(at.query) /\ live
  BY <1>1, KindsOfPages
<1>4. CASE ~live
  <2>1. Turns("history") BY <1>4 DEF Article
  <2>. QED BY <1>2, <1>3, <1>4, <2>1, NotNamed, TurnRight
<1>5. CASE live /\ HasListingParam(at.query)
  <2>1. SentTo(at.path, WithoutListingParams(at.query)) BY <1>5 DEF Article
  <2>2. WithoutListingParams(at.query).page \in Int BY <1>2, StillAsks
  <2>. QED BY <1>2, <1>3, <1>5, <2>1, <2>2, NotNamed, SentRight
<1>6. CASE live /\ ~HasListingParam(at.query)
  <2>1. Answers("page") BY <1>6 DEF Article
  <2>2. ListsNothing BY <1>2, <1>3, <1>6 DEF ListsNothing
  <2>. QED BY <2>1, <2>2, AnswerRight
<1>. QED BY <1>4, <1>5, <1>6

LEMMA HistoryRight ==
  ASSUME ReaderInv, ReadHistory \/ ReadId \/ ReadNewsHistory
  PROVE  ReaderInv'
<1>1. step \in {"history", "id"} /\ (ReadHistory => step = "history")
  BY DEF ReadHistory, ReadId, ReadNewsHistory
<1>2. ~(linked /\ quiet) BY <1>1 DEF ReaderInv, NamedRight
<1>3. CASE \E p : SentTo(p, NoQuery) BY <1>1, <1>2, <1>3, NoPageAsked, SentRight
<1>4. CASE Answers("missing") BY <1>2, <1>4, AnswerRight
<1>5. CASE step = "history" /\ Turns("id") BY <1>2, <1>5, TurnRight
<1>. QED BY <1>1, <1>3, <1>4, <1>5 DEF ReadHistory, ReadId, ReadNewsHistory

(* The listings read their rows when there are any to read.                *)
LEMMA JudgedRight ==
  ASSUME PagesInv, ReaderInv, Routed, Judged, ~ShowsOne(at.path, at.query),
         \/ at.path.kind = "one" /\ at.path.name \in Genres
         \/ at.path.kind = "letter" /\ at.path.name \notin DOMAIN Respelt
         \/ at.path.kind \in {"developer", "publisher", "year"}
  PROVE  ReaderInv'
<1> DEFINE p == at.path
           q == at.query
           w == WithoutSearch(q)
<1>1. step = "ask" /\ Spelt(at) /\ IsQuery(q) /\ q.page \in Int BY RoutedRight
<1>2. /\ w.page = q.page /\ w.by = q.by /\ w.dir = q.dir /\ ~Searches(w)
      /\ RefusedOrdering(w) <=> RefusedOrdering(q)
  BY <1>1, StillAsks
<1>3. ~HasSearch(q) => Count(p, w) = Count(p, q)
  <2>1. ~HasSearch(q) => ~Searches(q) BY DEF HasSearch, Searches
  <2> HIDE DEF w
  <2>. QED BY <1>2, <2>1, SameQuestion
<1>4. Count(p, q) \in Nat BY ListingsFinite
<1>5. Lists(p, q) <=> /\ ~HasSearch(q) /\ ~RefusedOrdering(q) /\ Count(p, q) > 0 /\ ~Beyond
  BY DEF Lists, Beyond
<1>6. \/ ReadsRows /\ Lists(p, q)
      \/ SentTo(p, w) /\ HasSearch(q)
      \/ (\E what : what # "page" /\ Answers(what)) /\ ~Lists(p, q)
  <2> HIDE DEF p, q, w
  <2>1. \/ ReadsRows /\ ~HasSearch(q) /\ ~RefusedOrdering(w) /\ Count(p, w) # 0 /\ ~Beyond
        \/ SentTo(p, w) /\ HasSearch(q)
        \/ /\ \E what : what # "page" /\ Answers(what)
           /\ Count(p, w) = 0 \/ (~HasSearch(q) /\ (RefusedOrdering(w) \/ Beyond))
    BY DEF Judged, p, q, w
  <2>. QED BY <1>2, <1>3, <1>4, <1>5, <2>1
<1>7. Lists(p, q) => ~HasSearch(q) BY <1>5
<1> HIDE DEF w
<1>8. ~Lists(p, q) => ~(linked /\ quiet) BY <1>1, NotNamed
<1>9. CASE ReadsRows /\ Lists(p, q) BY <1>1, <1>9, RowsRight
<1>10. CASE SentTo(p, w) /\ HasSearch(q) BY <1>1, <1>2, <1>7, <1>8, <1>10, SentRight
<1>11. CASE (\E what : what # "page" /\ Answers(what)) /\ ~Lists(p, q)
  BY <1>8, <1>11, AnswerRight
<1>. QED BY <1>6, <1>9, <1>10, <1>11

LEMMA GroupsRight ==
  ASSUME PagesInv, ReaderInv,
         GenrePage \/ LetterPage \/ DeveloperPage \/ PublisherPage \/ YearPage
  PROVE  ReaderInv'
<1>1. CASE GenrePage
  <2>1. /\ Routed /\ at.path.kind = "one" /\ at.path.name \notin Reserved
        /\ at.path.name \in Genres /\ Count(at.path, NoQuery) > 0 /\ Judged
    BY <1>1 DEF GenrePage, Elsewise, At
  <2>2. InGenre(at.path.name) BY <2>1, SameGenre
  <2>3. ~ShowsOne(at.path, at.query) BY <2>1, <2>2, KindsOfPages
  <2>. QED BY <2>1, <2>3, JudgedRight
<1>2. CASE LetterPage \/ DeveloperPage \/ PublisherPage \/ YearPage
  <2>1. /\ Routed /\ Judged /\ at.path.kind \in {"letter", "developer", "publisher", "year"}
        /\ at.path.kind = "letter" => at.path.name \notin DOMAIN Respelt
    BY <1>2 DEF LetterPage, DeveloperPage, PublisherPage, YearPage, At
  <2>2. ~ShowsOne(at.path, at.query) BY <2>1, KindsOfPages
  <2>. QED BY <2>1, <2>2, JudgedRight
<1>. QED BY <1>1, <1>2

LEMMA RespeltLetterRight ==
  ASSUME PagesInv, ReaderInv, RespeltLetter
  PROVE  ReaderInv'
<1>1. /\ Routed /\ at.path.kind = "letter" /\ at.path.name \in DOMAIN Respelt
      /\ \E p : SentTo(p, at.query)
  BY DEF RespeltLetter, At
<1>2. step = "ask" /\ at.query.page \in Int BY <1>1, RoutedRight
<1>3. ~ShowsOne(at.path, at.query) BY <1>1, KindsOfPages
<1>4. ~Lists(at.path, at.query) BY <1>1 DEF Lists
<1>. QED BY <1>1, <1>2, <1>3, <1>4, NotNamed, SentRight

LEMMA HomePageRight ==
  ASSUME PagesInv, ReaderInv, HomePage
  PROVE  ReaderInv'
<1>1. Routed /\ at.path.kind = "front" BY DEF HomePage, At
<1>2. step = "ask" /\ Spelt(at) /\ IsQuery(at.query) /\ at.query.page \in Int
  BY <1>1, RoutedRight
<1>3. Lists(at.path, at.query) <=> /\ at.query.genre = "" /\ at.query.search # "long"
                                   /\ ~RefusedOrdering(at.query) /\ ~Beyond
  BY <1>1 DEF Lists, Beyond
<1>4. ~Lists(at.path, at.query) => ~(linked /\ quiet)
  BY <1>1, <1>2, KindsOfPages, NotNamed
<1>5. CASE at.query.genre # ""
  <2> DEFINE w == WithoutSearch(at.query)
             q == [w EXCEPT !.genre = ""]
  <2>1. \E p : SentTo(p, q) BY <1>5 DEF HomePage
  <2>2. q.page \in Int
    <3>1. IsQuery(w) /\ w.page = at.query.page BY <1>2, Dropped, StillAsks
    <3> HIDE DEF w
    <3>2. q.page = w.page BY <3>1 DEF IsQuery
    <3> HIDE DEF q
    <3>. QED BY <1>2, <3>1, <3>2
  <2> HIDE DEF q
  <2>. QED BY <1>2, <1>3, <1>4, <1>5, <2>1, <2>2, SentRight
<1>6. CASE at.query.genre = ""
  <2>1. \/ ReadsRows /\ Lists(at.path, at.query)
        \/ (\E what : what # "page" /\ Answers(what)) /\ ~Lists(at.path, at.query)
    BY <1>3, <1>6 DEF HomePage
  <2>. QED BY <1>2, <1>4, <2>1, RowsRight, AnswerRight
<1>. QED BY <1>5, <1>6

LEMMA ArchivesRight ==
  ASSUME PagesInv, ReaderInv, NewsIndex \/ CommentsOverview
  PROVE  ReaderInv'
<1>1. Routed /\ at.path.kind \in {"news", "comments"} /\ Archive
  BY DEF NewsIndex, CommentsOverview, At
<1>2. step = "ask" /\ Spelt(at) /\ IsQuery(at.query) /\ at.query.page \in Int
  BY <1>1, RoutedRight
<1>3. Lists(at.path, at.query) <=> ~HasListingParam(at.query) /\ ~Beyond
  BY <1>1 DEF Lists, Beyond
<1>4. ~Lists(at.path, at.query) => ~(linked /\ quiet)
  BY <1>1, <1>2, KindsOfPages, NotNamed
<1>5. WithoutListingParams(at.query).page \in Int BY <1>2, StillAsks
<1>6. \/ SentTo(at.path, WithoutListingParams(at.query)) /\ ~Lists(at.path, at.query)
      \/ ReadsRows /\ Lists(at.path, at.query)
      \/ (\E what : what # "page" /\ Answers(what)) /\ ~Lists(at.path, at.query)
  BY <1>1, <1>3 DEF Archive
<1>. QED BY <1>2, <1>4, <1>5, <1>6, SentRight, RowsRight, AnswerRight

LEMMA EditsRight ==
  ASSUME ReaderInv,
         \/ \E g \in Ids : Withdraw(g) \/ \E edition \in Editions[g] : Save(g, edition)
         \/ \E n \in Articles : Retract(n) \/ \E slug \in Headlines[n] : Announce(n, slug)
  PROVE  ReaderInv'
BY EditRight DEF Withdraw, Save, Retract, Announce

LEMMA ReaderKeeps == PagesInv /\ ReaderInv /\ [BrowserNext]_browserVars => ReaderInv'
<1> SUFFICES ASSUME PagesInv, ReaderInv, [BrowserNext]_browserVars PROVE ReaderInv'
  OBVIOUS
<1>1. CASE PagesNext
  BY <1>1, VisitsRight, FollowNextRight, SpellingsRight, GuessesRight, FilesRight, FixedPageRight,
     RankingsRight, RandomRight, GamePageRight, GalleryRight, ArticleRight, HistoryRight, GroupsRight,
     RespeltLetterRight, HomePageRight, ArchivesRight, ShowRowsRight, EditsRight
  DEF PagesNext
<1>2. CASE UNCHANGED pageVars
  <2>1. /\ at' = at /\ step' = step /\ reply' = reply /\ counted' = counted /\ hops' = hops
        /\ linked' = linked /\ quiet' = quiet /\ walk' = walk /\ UNCHANGED library
    BY <1>2 DEF pageVars, library
  <2>2. /\ \A x, y : Lists(x, y)' <=> Lists(x, y)
        /\ \A x, y : Shows(x, y)' <=> Shows(x, y)
        /\ \A x, y : Count(x, y)' = Count(x, y)
        /\ \A x, y, n : FirstRows(x, y, n)' = FirstRows(x, y, n)
    BY <2>1, SameShows, SameRows
  <2>3. NamedRight' BY <2>1, <2>2 DEF ReaderInv, NamedRight, Spelt
  <2>4. CountRight' BY <2>1, <2>2 DEF ReaderInv, CountRight, Spelt, Indexed
  <2>5. WalkRight' BY <2>1, <2>2 DEF ReaderInv, WalkRight, IsListing
  <2>. QED BY <2>1, <2>3, <2>4, <2>5 DEF ReaderInv
<1>. QED BY <1>1, <1>2 DEF BrowserNext, browserVars

LEMMA ReaderHolds == BrowserSpec => [](PagesInv /\ ReaderInv)
<1>1. BrowserInit => PagesInv /\ ReaderInv BY PagesBegin, ReaderBegins DEF BrowserInit
<1>. QED BY <1>1, PagesKeep, ReaderKeeps, PTL DEF BrowserSpec

(***************************************************************************)
(* What the site names itself, in its sitemap, as the canonical address of *)
(* a page or as the next page of a listing, is there: while nothing is     *)
(* edited it is neither missing nor refused nor sent elsewhere             *)
(* (routes/sitemap.ts, utils/pagination.ts).                               *)
(***************************************************************************)
THEOREM NothingDeadCorrect == BrowserSpec => []NothingDead
<1>1. ReaderInv => NothingDead BY DEF ReaderInv, NamedRight, NothingDead
<1>. QED BY <1>1, ReaderHolds, PTL

(***************************************************************************)
(* The pages of a listing, walked from its first to its last while nothing *)
(* is edited, have shown every row that it lists and each of them once, in *)
(* whatever order it was asked for: the count, the OFFSET and the ties of  *)
(* Game.find, News.findAll and Comment.findRecent fit each other.          *)
(***************************************************************************)
THEOREM EveryGameListedCorrect == BrowserSpec => []EveryGameListed
<1>1. PagesInv /\ ReaderInv => EveryGameListed
  <2> SUFFICES ASSUME PagesInv, ReaderInv, step = "done", reply = "page", quiet, walk.on,
                      IsListing(at.path), ~HasNext(ParsePage(at.query.page), counted)
               PROVE  /\ Len(walk.shown) = Cardinality(Listed(at.path, at.query))
                      /\ ToSet(walk.shown) = Listed(at.path, at.query)
    BY DEF EveryGameListed
  <2> DEFINE p == at.path
             q == at.query
             page == ParsePage(q.page)
             total == Count(p, q)
  <2>1. page \in Nat \ {0} /\ total \in Nat BY Parsed, ListingsFinite DEF ReaderInv
  <2>2. walk.shown = FirstRows(p, q, Fewer(Offset(page) + Limit, total))
    BY DEF ReaderInv, WalkRight
  <2>3. Indexed(at) BY ListingsIndexed
  <2>4. Shows(p, q) /\ counted = IF Lists(p, q) THEN total ELSE 0
    BY <2>3 DEF ReaderInv, CountRight
  <2>5. ~Lists(p, q) => total = 0
    <3> SUFFICES ASSUME ShowsOne(p, q) PROVE total = 0
      BY <2>4 DEF Shows
    <3>1. /\ p.kind = "one" /\ p.name \notin Reserved /\ ~InGenre(p.name)
      BY RoutesAssumption DEF ShowsOne, IsListing, Own
    <3>. QED BY <3>1, KindsOfPages
  <2>6. Fewer(Offset(page) + Limit, total) = total
    <3>1. Offset(page) \in Nat /\ Offset(page + 1) = Offset(page) + Limit BY <2>1, Offsets
    <3>2. CASE Lists(p, q)
      <4>1. counted = total BY <2>4, <3>2
      <4> HIDE DEF page, total
      <4>2. ~HasNext(page, total) BY <4>1 DEF page
      <4>3. ~(Offset(page + 1) < total) BY <2>1, <4>2, NextIsThere
      <4>. QED BY <2>1, <3>1, <4>3, PagingConstants DEF Fewer
    <3>3. CASE ~Lists(p, q)
      <4> HIDE DEF page, total
      <4>. QED BY <2>5, <3>1, <3>3, PagingConstants DEF Fewer
    <3>. QED BY <3>2, <3>3
  <2>7. walk.shown = FirstRows(p, q, Count(p, q)) BY <2>2, <2>6
  <2>8. Shelved BY DEF PagesInv
  <2>9. Lists(p, q) \/ Count(p, q) = 0 BY <2>5
  <2> HIDE DEF p, q
  <2>10. Len(walk.shown) = Cardinality(Listed(p, q)) /\ ToSet(walk.shown) = Listed(p, q)
    BY <2>7, <2>8, <2>9, RowsOfAll
  <2>. QED BY <2>10 DEF p, q
<1>. QED BY <1>1, ReaderHolds, PTL

-----------------------------------------------------------------------------
(* The favourites and the recently played list *)

(* A game is in a list once.                                               *)
NoRepeats(list) == \A i, j \in DOMAIN list : list[i] = list[j] => i = j

(* The two lists in storage.                                               *)
ListsTyped(lists) ==
  /\ lists \in [Keys -> Seq(Games)]
  /\ \A k \in Keys : NoRepeats(lists[k])
  /\ Len(lists["played"]) <= RecentLimit

(* A tab is a record of these fields.                                      *)
HasFields(d) ==
  d = [page |-> d.page, hearts |-> d.hearts, badge |-> d.badge, shown |-> d.shown,
       hydrations |-> d.hydrations, requests |-> d.requests, cache |-> d.cache, tally |-> d.tally]

(* The types of what a tab holds and shows.                                *)
TabTyped(d, t) ==
  /\ HasFields(d)
  /\ d.hearts \in [Games -> {"none", "on", "off"}]
  /\ DOMAIN d.shown = Containers(t)
  /\ t \notin Profile => d.shown["strip"] = [state |-> "blank", games |-> d.shown["strip"].games]
  /\ t \in Profile => DOMAIN d.shown["stats"] \subseteq Keys

(* An answer held every game of its batch that the server still has.       *)
RequestsRight(d, cat) ==
  \A n \in DOMAIN d.requests :
    /\ d.requests[n] = [state |-> d.requests[n].state, found |-> d.requests[n].found]
    /\ d.requests[n].state \in {"sent", "answered", "failed"}
    /\ d.requests[n].state = "answered" => ToSet(n[1]) \cap cat \subseteq d.requests[n].found

(* The cache maps a batch to a request that was made for it.               *)
CacheRight(d) == \A b \in DOMAIN d.cache : d.cache[b] \in DOMAIN d.requests /\ d.cache[b][1] = b

(* A hydration is of a list, for one of the tab's containers, and waits    *)
(* for requests that together ask for all of it.                           *)
HydrationsRight(H, d, t) ==
  /\ IsFiniteSet(H)
  /\ \A h \in H :
       /\ h = [where |-> h.where, key |-> h.key, ids |-> h.ids, waits |-> h.waits]
       /\ h.ids \in Seq(Games) /\ h.key \in Keys
       /\ h.where \in Containers(t) \cup {"superseded"}
       /\ h.where # "superseded" => h.key \in Reads(h.where)
       /\ t \notin Profile => h.key = "played"
       /\ h.waits \subseteq DOMAIN d.requests
       /\ ToSet(h.ids) \subseteq UNION {ToSet(n[1]) : n \in h.waits}

(* A container whose newest render has still to draw.                      *)
Pending(H, w) == \E h \in H : h.where = w

(* Of the two lists the stats wait for, each has come or is under way,     *)
(* once.                                                                   *)
StatsCovered(d, H) ==
  /\ DOMAIN d.tally \subseteq Keys
  /\ \A k \in DOMAIN d.tally : d.tally[k].state \in {"drawn", "failed"}
  /\ Pending(H, "stats") =>
       \A k \in Keys : k \in DOMAIN d.tally \/ \E h \in H : h.where = "stats" /\ h.key = k
  /\ \A h \in H : h.where = "stats" =>
       /\ h.key \notin DOMAIN d.tally
       /\ \A x \in H : x.where = "stats" /\ x.key = h.key => x = h

(* A tab t with the hydrations H still to draw, while the server has cat:  *)
(* all but what it shows.                                                  *)
Sound(d, H, t, cat) ==
  /\ TabTyped(d, t)
  /\ RequestsRight(d, cat)
  /\ CacheRight(d)
  /\ HydrationsRight(H, d, t)
  /\ StatsCovered(d, H)

(* Between turns of the event loop, whatever is still to be drawn waits    *)
(* for an answer.                                                          *)
Waits(d) == \A h \in d.hydrations : \E n \in h.waits : d.requests[n].state = "sent"

(* The same games, but for those the server has lost.                      *)
Same(games, list, cat) == games \cap cat = ToSet(list) \cap cat

(* The hearts that are shown are those of the lists.                       *)
HeartsTrue(d, lists, cat) ==
  \A g \in cat : d.hearts[g] \in {"none", Heart(ToSet(lists["favorites"]), g)}

(* A container shows what the lists hold.                                  *)
ShownTrue(d, lists, w, cat) ==
  CASE w = "strip" -> d.shown[w].games \cap cat \subseteq ToSet(lists["played"])
    [] w = "stats" -> \A k \in DOMAIN d.shown[w] : Same(d.shown[w][k].games, lists[k], cat)
    [] OTHER -> d.shown[w].state = "drawn" => Same(d.shown[w].games, lists[w], cat)

(* A tab is true of the lists but for the containers of W, about to be     *)
(* rendered: its number and its hearts are theirs, a hydration that was    *)
(* not superseded is of the list as it is now, and each container either   *)
(* waits for one or shows the list.                                        *)
Truth(d, lists, H, t, cat, W) ==
  /\ d.badge = Cardinality(ToSet(lists["favorites"]))
  /\ t \notin Profile \/ (~Pending(H, "favorites") /\ "favorites" \notin W) =>
       HeartsTrue(d, lists, cat)
  /\ \A h \in H : h.where \notin W \cup {"superseded"} => Same(ToSet(h.ids), lists[h.key], cat)
  /\ \A w \in Containers(t) \ W : Pending(H, w) \/ ShownTrue(d, lists, w, cat)
  /\ "stats" \in Containers(t) \ W =>
       \A k \in DOMAIN d.tally : d.tally[k].state = "drawn" => Same(d.tally[k].games, lists[k], cat)

(* The inductive invariant: all of it for every tab, and the truth for     *)
(* those that are on screen and have heard every other.                    *)
FavInv ==
  /\ acts \in Nat /\ imports \in Nat
  /\ catalogue \subseteq Games
  /\ ListsTyped(stored)
  /\ DOMAIN tab = Tabs
  /\ \A t \in Tabs :
       /\ Sound(tab[t], tab[t].hydrations, t, catalogue)
       /\ Waits(tab[t])
       /\ tab[t].page = "open" /\ t \notin news =>
            Truth(tab[t], stored, tab[t].hydrations, t, catalogue, {})

-----------------------------------------------------------------------------
(* Lists *)

(* Of sets of members of a finite set, one has none of the others in it.   *)
LEMMA LeastSet ==
  ASSUME NEW V, IsFiniteSet(V), NEW T \in SUBSET SUBSET V, T # {}
  PROVE  \E s \in T : \A u \in T : u \subseteq s => u = s
<1>1. FiniteSubsetsOf(V) = SUBSET V BY FS_FiniteSubsetsOfFinite
<1>2. IsWellFoundedOn(StrictSubsetOrdering(V), SUBSET V)
  BY <1>1, FS_StrictSubsetOrderingWellFounded
<1>3. PICK s \in T : \A u \in T : <<u, s>> \notin StrictSubsetOrdering(V)
  <2> HIDE DEF StrictSubsetOrdering
  <2>1. T \subseteq SUBSET V OBVIOUS
  <2>. QED BY <1>2, <2>1, WFMin, Zenon
<1>. QED BY <1>3 DEF StrictSubsetOrdering

(* A set of numbers has a least one.                                       *)
LEMMA LeastNumber ==
  ASSUME NEW T \in SUBSET Nat, T # {}
  PROVE  \E m \in T : \A k \in T : m <= k
<1>1. PICK m \in T : \A k \in T : <<k, m>> \notin OpToRel(<, Nat)
  <2> HIDE DEF OpToRel
  <2>1. T \subseteq Nat OBVIOUS
  <2>. QED BY <2>1, NatLessThanWellFounded, WFMin, Zenon
<1>2. ASSUME NEW k \in T, k < m PROVE FALSE
  BY <1>1, <1>2 DEF OpToRel
<1>. QED BY <1>2

(* it solves the recursion of Within up to n *)
Filters(it, list, S, n) ==
  it = [i \in 0..n |-> IF i = 0 THEN <<>>
                       ELSE IF list[i] \in S THEN Append(it[i - 1], list[i]) ELSE it[i - 1]]

(* Within is the last value of any function that solves its recursion; one *)
(* exists, and what it gives is Array.filter's result.                     *)
LEMMA WithinIs ==
  ASSUME NEW list, NEW S
  PROVE  Within(list, S) = (CHOOSE it : Filters(it, list, S, Len(list)))[Len(list)]
  BY Zenon DEF Within, Filters

(* What a solution gives at one index.                                     *)
LEMMA FiltersStep ==
  ASSUME NEW list, NEW S, NEW n \in Nat, NEW it, Filters(it, list, S, n), NEW i \in 0..n
  PROVE  it[i] = IF i = 0 THEN <<>>
                 ELSE IF list[i] \in S THEN Append(it[i - 1], list[i]) ELSE it[i - 1]
  BY DEF Filters

(* The recursion has a solution: the least index without one has none      *)
(* before it either.                                                       *)
LEMMA FiltersExist ==
  ASSUME NEW list, NEW S, NEW n \in Nat
  PROVE  \E it : Filters(it, list, S, n)
<1> DEFINE Bad == {m \in Nat : ~ \E it : Filters(it, list, S, m)}
<1>1. SUFFICES ASSUME Bad # {} PROVE FALSE OBVIOUS
<1>2. PICK m \in Bad : \A k \in Bad : m <= k
  <2>1. Bad \in SUBSET Nat OBVIOUS
  <2> HIDE DEF Bad
  <2>. QED BY <1>1, <2>1, LeastNumber
<1>3. m # 0
  <2>1. Filters([i \in 0..0 |-> <<>>], list, S, 0) BY DEF Filters
  <2>. QED BY <1>2, <2>1
<1>4. PICK p \in Nat : m = p + 1
  <2>1. m \in Nat /\ m - 1 \in Nat /\ m = (m - 1) + 1 BY <1>2, <1>3
  <2>. QED BY <2>1
<1>5. PICK f : Filters(f, list, S, p)
  <2>1. p \notin Bad BY <1>2, <1>4
  <2>. QED BY <2>1
<1> DEFINE g == [i \in 0..m |-> IF i = 0 THEN <<>>
                       ELSE IF list[i] \in S THEN Append(f[i - 1], list[i]) ELSE f[i - 1]]
<1>6. ASSUME NEW i \in 0..p PROVE g[i] = f[i]
  <2>1. f[i] = IF i = 0 THEN <<>>
               ELSE IF list[i] \in S THEN Append(f[i - 1], list[i]) ELSE f[i - 1]
    BY <1>5 DEF Filters
  <2>. QED BY <1>4, <2>1
<1>7. \A i \in 0..m : i # 0 => g[i - 1] = f[i - 1]
  <2>1. \A i \in 0..m : i # 0 => i - 1 \in 0..p BY <1>4
  <2> HIDE DEF g
  <2>. QED BY <1>6, <2>1
<1>8. Filters(g, list, S, m) BY <1>7 DEF Filters
<1>. QED BY <1>2, <1>8

(* The image of a finite set is finite.                                    *)
LEMMA ImageFinite ==
  ASSUME NEW f, IsFiniteSet(DOMAIN f), f = [x \in DOMAIN f |-> f[x]]
  PROVE  IsFiniteSet({f[x] : x \in DOMAIN f})
<1> DEFINE T == {f[x] : x \in DOMAIN f}
<1>1. f \in Surjection(DOMAIN f, T) BY DEF Surjection
<1>. QED BY <1>1, FS_Surjection

(* The games of a list, by its indices.                                    *)
LEMMA ToSetIs ==
  ASSUME NEW X, NEW list \in Seq(X)
  PROVE  ToSet(list) = {list[i] : i \in 1..Len(list)} /\ ToSet(list) \subseteq X
  BY DEF ToSet

(* A list with one more at its end. *)
LEMMA AppendedList ==
  ASSUME NEW X, NEW list \in Seq(X), NEW g \in X
  PROVE  /\ Append(list, g) \in Seq(X)
         /\ ToSet(Append(list, g)) = ToSet(list) \cup {g}
         /\ Len(Append(list, g)) = Len(list) + 1
         /\ NoRepeats(list) /\ g \notin ToSet(list) => NoRepeats(Append(list, g))
<1>1. /\ Append(list, g) \in Seq(X) /\ Len(Append(list, g)) = Len(list) + 1
      /\ \A i \in 1..Len(list) : Append(list, g)[i] = list[i]
      /\ Append(list, g)[Len(list) + 1] = g
  BY AppendProperties
<1>2. ToSet(Append(list, g)) = ToSet(list) \cup {g}
  <2> DEFINE longer == Append(list, g)
  <2> HIDE DEF longer
  <2>1. ToSet(longer) = {longer[i] : i \in 1..(Len(list) + 1)} BY <1>1, ToSetIs DEF longer
  <2>2. 1..(Len(list) + 1) = 1..Len(list) \cup {Len(list) + 1} OBVIOUS
  <2>3. ToSet(longer) = {longer[i] : i \in 1..Len(list)} \cup {g} BY <1>1, <2>1, <2>2 DEF longer
  <2>. QED BY <1>1, <2>3, ToSetIs DEF longer
<1>3. ASSUME NoRepeats(list), g \notin ToSet(list) PROVE NoRepeats(Append(list, g))
  BY <1>1, <1>3, ToSetIs DEF NoRepeats
<1>. QED BY <1>1, <1>2, <1>3

(* What a filter keeps. *)
LEMMA WithinRight ==
  ASSUME NEW X, NEW list \in Seq(X), NEW S
  PROVE  /\ Within(list, S) \in Seq(X)
         /\ ToSet(Within(list, S)) = ToSet(list) \cap S
         /\ Len(Within(list, S)) <= Len(list)
         /\ NoRepeats(list) => NoRepeats(Within(list, S))
<1> DEFINE n == Len(list)
           it == CHOOSE f : Filters(f, list, S, n)
           Upto(i) == {list[j] : j \in 1..i}
           Right(i) == /\ it[i] \in Seq(X)
                       /\ ToSet(it[i]) = Upto(i) \cap S
                       /\ Len(it[i]) <= i
                       /\ NoRepeats(list) => NoRepeats(it[i])
           Bad == {i \in 0..n : ~Right(i)}
<1>1. n \in Nat OBVIOUS
<1>2. Filters(it, list, S, n) BY <1>1, FiltersExist
<1> HIDE DEF it
<1>3. ASSUME Bad # {} PROVE FALSE
  <2>1. PICK i \in Bad : \A k \in Bad : i <= k
    <3>1. Bad \in SUBSET Nat BY <1>1
    <3> HIDE DEF Bad
    <3>. QED BY <1>3, <3>1, LeastNumber
  <2>2. i # 0
    <3>1. it[0] = <<>>
      <4>1. 0 \in 0..n BY <1>1
      <4>. QED BY <1>2, <4>1 DEF Filters
    <3>2. Right(0) BY <3>1 DEF NoRepeats, ToSet
    <3>. QED BY <2>1, <3>2
  <2>3. i \in 1..n /\ i - 1 \in 0..n /\ Right(i - 1)
    <3>1. i \in 1..n /\ i - 1 \in 0..n /\ ~(i <= i - 1) BY <1>1, <2>1, <2>2
    <3>. QED BY <2>1, <3>1
  <2>4. it[i] = IF list[i] \in S THEN Append(it[i - 1], list[i]) ELSE it[i - 1]
    BY <1>1, <1>2, <2>2, <2>3, FiltersStep
  <2>5. Upto(i) = Upto(i - 1) \cup {list[i]} /\ list[i] \in X BY <1>1, <2>3
  <2>6. CASE list[i] \notin S BY <2>1, <2>3, <2>4, <2>5, <2>6
  <2>7. CASE list[i] \in S
    <3>1. it[i] = Append(it[i - 1], list[i]) BY <2>4, <2>7
    <3>2. NoRepeats(list) => list[i] \notin ToSet(it[i - 1])
      BY <1>1, <2>3 DEF NoRepeats
    <3>3. Right(i)
      <4> HIDE DEF Upto
      <4>1. /\ it[i] \in Seq(X) /\ ToSet(it[i]) = ToSet(it[i - 1]) \cup {list[i]}
            /\ Len(it[i]) = Len(it[i - 1]) + 1
            /\ NoRepeats(it[i - 1]) /\ list[i] \notin ToSet(it[i - 1]) => NoRepeats(it[i])
        BY <2>3, <2>5, <3>1, AppendedList
      <4>2. ToSet(it[i]) = Upto(i) \cap S BY <2>3, <2>5, <2>7, <4>1
      <4>3. Len(it[i]) <= i
        <5>1. it[i - 1] \in Seq(X) /\ Len(it[i - 1]) <= i - 1 BY <2>3
        <5>. QED BY <2>3, <4>1, <5>1
      <4>. QED BY <2>3, <3>2, <4>1, <4>2, <4>3
    <3>. QED BY <2>1, <3>3
  <2>. QED BY <2>6, <2>7
<1>4. Right(n)
  <2>1. n \in 0..n BY <1>1
  <2> HIDE DEF Right, n
  <2>. QED BY <1>3, <2>1
<1>5. Upto(n) = ToSet(list) BY ToSetIs
<1>6. Within(list, S) = it[n] BY WithinIs DEF it
<1>. QED BY <1>1, <1>4, <1>5, <1>6

(* A list without some games keeps the others.                             *)
LEMMA WithoutRight ==
  ASSUME NEW X, NEW list \in Seq(X), NEW S
  PROVE  /\ Without(list, S) \in Seq(X)
         /\ ToSet(Without(list, S)) = ToSet(list) \ S
         /\ Len(Without(list, S)) <= Len(list)
         /\ NoRepeats(list) => NoRepeats(Without(list, S))
  BY WithinRight DEF Without

(* The beginning of a list. *)
LEMMA FirstOfRight ==
  ASSUME NEW X, NEW list \in Seq(X), NEW n \in Nat
  PROVE  /\ FirstOf(list, n) \in Seq(X)
         /\ ToSet(FirstOf(list, n)) \subseteq ToSet(list)
         /\ Len(FirstOf(list, n)) = IF Len(list) < n THEN Len(list) ELSE n
         /\ NoRepeats(list) => NoRepeats(FirstOf(list, n))
<1> DEFINE m == IF Len(list) < n THEN Len(list) ELSE n
<1>1. m \in 0..Len(list) OBVIOUS
<1>2. FirstOf(list, n) = SubSeq(list, 1, m) BY DEF FirstOf
<1>3. /\ FirstOf(list, n) \in Seq(X) /\ Len(FirstOf(list, n)) = m
      /\ \A i \in 1..m : FirstOf(list, n)[i] = list[i]
  BY <1>1, <1>2
<1>. QED BY <1>1, <1>3, ToSetIs DEF NoRepeats

(* Every index is in the batch that starts at or before it.                *)
LEMMA Rounds ==
  ASSUME NEW B \in Nat \ {0}, NEW i \in Nat \ {0}
  PROVE  \E k \in 1..i : i < k + B /\ (k - 1) % B = 0
<1> DEFINE k == i - ((i - 1) % B)
<1>1. k \in 1..i /\ i < k + B /\ (k - 1) % B = 0 OBVIOUS
<1> HIDE DEF k
<1>. QED BY <1>1

(* Every game of a list is in one of its batches. *)
LEMMA BatchesCover ==
  ASSUME NEW ids \in Seq(Games), BatchSize \in Nat \ {0}
  PROVE  /\ ToSet(ids) \subseteq UNION {ToSet(b) : b \in Batches(ids)}
         /\ ids = <<>> => Batches(ids) = {}
<1>1. ASSUME NEW i \in 1..Len(ids)
      PROVE  \E b \in Batches(ids) : ids[i] \in ToSet(b)
  <2>1. PICK k \in 1..i : i < k + BatchSize /\ (k - 1) % BatchSize = 0
    <3>1. i \in Nat \ {0} BY <1>1
    <3>. QED BY <3>1, Rounds
  <2> DEFINE z == IF k + BatchSize > Len(ids) THEN Len(ids) ELSE k + BatchSize - 1
             b == SubSeq(ids, k, z)
  <2>2. k \in 1..Len(ids) /\ i <= z /\ z <= Len(ids) /\ z \in Nat BY <2>1
  <2>3. b \in Batches(ids) BY <2>1, <2>2 DEF Batches
  <2> HIDE DEF z
  <2>4. i - k + 1 \in 1..Len(b) /\ b[i - k + 1] = ids[i] BY <2>1, <2>2
  <2>5. b \in Seq(Games) BY <2>2
  <2> HIDE DEF b
  <2>6. ids[i] \in ToSet(b) BY <2>4, <2>5, ToSetIs
  <2>. QED BY <2>3, <2>6
<1>2. ToSet(ids) = {ids[i] : i \in 1..Len(ids)} BY ToSetIs
<1>3. ids = <<>> => Batches(ids) = {} BY DEF Batches
<1>. QED BY <1>1, <1>2, <1>3

-----------------------------------------------------------------------------
(* What the operators do to a tab *)

(* What Over gives on either domain.                                       *)
LEMMA Overrides ==
  ASSUME NEW f, NEW g
  PROVE  /\ DOMAIN Over(f, g) = DOMAIN f \cup DOMAIN g
         /\ \A x \in DOMAIN f : Over(f, g)[x] = f[x]
         /\ \A x \in DOMAIN g : x \notin DOMAIN f => Over(f, g)[x] = g[x]
  BY DEF Over

(* Nothing has no keys and no values.                                      *)
LEMMA NothingIs == DOMAIN Nothing = {} /\ Range(Nothing) = {}
  BY DEF Nothing, Range

(* Tidy drops only requests that nothing holds.                            *)
LEMMA TidyRight ==
  ASSUME NEW d, NEW t, NEW cat, Sound(d, d.hydrations, t, cat)
  PROVE  /\ Sound(Tidy(d), Tidy(d).hydrations, t, cat)
         /\ Tidy(d).page = d.page /\ Tidy(d).hearts = d.hearts /\ Tidy(d).badge = d.badge
         /\ Tidy(d).shown = d.shown /\ Tidy(d).hydrations = d.hydrations
         /\ Tidy(d).cache = d.cache /\ Tidy(d).tally = d.tally
         /\ \A n \in DOMAIN Tidy(d).requests : /\ n \in DOMAIN d.requests
                                               /\ Tidy(d).requests[n] = d.requests[n]
         /\ \A h \in d.hydrations : h.waits \subseteq DOMAIN Tidy(d).requests
<1> DEFINE left == {n \in DOMAIN d.requests : \/ n \in Range(d.cache)
                                              \/ \E h \in d.hydrations : n \in h.waits}
           e == Tidy(d)
<1>1. HasFields(d) BY DEF Sound, TabTyped
<1>2. /\ HasFields(e)
      /\ e.page = d.page /\ e.hearts = d.hearts /\ e.badge = d.badge /\ e.shown = d.shown
      /\ e.hydrations = d.hydrations /\ e.cache = d.cache /\ e.tally = d.tally
      /\ e.requests = Restrict(d.requests, left)
  BY <1>1 DEF HasFields, Tidy
<1>3. /\ DOMAIN e.requests = left
      /\ \A n \in left : e.requests[n] = d.requests[n]
  BY <1>2 DEF Restrict
<1> HIDE DEF e
<1>4. \A h \in d.hydrations : h.waits \subseteq left BY DEF Sound, HydrationsRight
<1>5. \A b \in DOMAIN d.cache : d.cache[b] \in left BY DEF Sound, CacheRight, Range
<1> HIDE DEF left
<1>6. TabTyped(e, t) BY <1>2 DEF Sound, TabTyped
<1>7. left \subseteq DOMAIN d.requests BY DEF left
<1>8. RequestsRight(e, cat) BY <1>3, <1>7 DEF Sound, RequestsRight
<1>9. CacheRight(e) BY <1>2, <1>3, <1>5 DEF Sound, CacheRight
<1>10. HydrationsRight(e.hydrations, e, t)
  BY <1>2, <1>3, <1>4, Zenon DEF Sound, HydrationsRight
<1>11. StatsCovered(e, e.hydrations) BY <1>2 DEF Sound, StatsCovered
<1>. QED BY <1>2, <1>3, <1>4, <1>6, <1>7, <1>8, <1>9, <1>10, <1>11 DEF Sound, e

(* A tab and what it is when its cache has been emptied.                   *)
Invalidated(d, e, t, cat) ==
  /\ Sound(e, e.hydrations, t, cat)
  /\ e.page = d.page /\ e.hearts = d.hearts /\ e.badge = d.badge
  /\ e.shown = d.shown /\ e.hydrations = d.hydrations /\ e.tally = d.tally
  /\ DOMAIN e.cache = {}
  /\ Waits(d) => Waits(e)

(* InvalidateCollectionCache leaves a sound tab, with what it shows.       *)
LEMMA InvalidateRight ==
  ASSUME NEW d, NEW t, NEW cat, Sound(d, d.hydrations, t, cat),
         NEW e, e = InvalidateCollectionCache(d)
  PROVE  Invalidated(d, e, t, cat)
<1> DEFINE c == [d EXCEPT !.cache = Nothing]
<1>1. HasFields(d) BY DEF Sound, TabTyped
<1>2. /\ HasFields(c)
      /\ c.page = d.page /\ c.hearts = d.hearts /\ c.badge = d.badge /\ c.shown = d.shown
      /\ c.hydrations = d.hydrations /\ c.requests = d.requests /\ c.tally = d.tally
      /\ c.cache = Nothing
  BY <1>1 DEF HasFields
<1>3. e = Tidy(c) BY DEF InvalidateCollectionCache
<1> HIDE DEF c
<1>4. TabTyped(c, t) BY <1>2 DEF Sound, TabTyped
<1>5. RequestsRight(c, cat) BY <1>2 DEF Sound, RequestsRight
<1>6. CacheRight(c) BY <1>2, NothingIs DEF CacheRight
<1>7. HydrationsRight(c.hydrations, c, t) BY <1>2, Zenon DEF Sound, HydrationsRight
<1>8. StatsCovered(c, c.hydrations) BY <1>2 DEF Sound, StatsCovered
<1>9. Sound(c, c.hydrations, t, cat) BY <1>4, <1>5, <1>6, <1>7, <1>8 DEF Sound
<1>10. /\ Sound(e, e.hydrations, t, cat)
       /\ e.page = c.page /\ e.hearts = c.hearts /\ e.badge = c.badge
       /\ e.shown = c.shown /\ e.hydrations = c.hydrations
       /\ e.cache = c.cache /\ e.tally = c.tally
       /\ \A n \in DOMAIN e.requests : e.requests[n] = c.requests[n]
       /\ \A h \in c.hydrations : h.waits \subseteq DOMAIN e.requests
  BY <1>3, <1>9, TidyRight
<1>11. Waits(d) => Waits(e) BY <1>2, <1>10 DEF Waits
<1>. QED BY <1>2, <1>10, <1>11, NothingIs DEF Invalidated

(* Renders of W that were out no longer draw. *)
LEMMA BeginRenderRight ==
  ASSUME NEW d, NEW t, NEW cat, Sound(d, d.hydrations, t, cat),
         NEW W \in SUBSET Containers(t), NEW lists,
         NEW e, e = BeginRender(d, W)
  PROVE  /\ Sound(e, e.hydrations, t, cat)
         /\ e.page = d.page /\ e.hearts = d.hearts /\ e.badge = d.badge
         /\ e.shown = d.shown /\ e.requests = d.requests /\ e.cache = d.cache
         /\ "stats" \in W => DOMAIN e.tally = {}
         /\ \A w \in W : ~Pending(e.hydrations, w)
         /\ Waits(d) => Waits(e)
         /\ Truth(d, lists, d.hydrations, t, cat, W) => Truth(e, lists, e.hydrations, t, cat, W)
<1> DEFINE Past(h) == IF h.where \in W THEN [h EXCEPT !.where = "superseded"] ELSE h
<1>1. HasFields(d) BY DEF Sound, TabTyped
<1>2. /\ HasFields(e)
      /\ e.page = d.page /\ e.hearts = d.hearts /\ e.badge = d.badge /\ e.shown = d.shown
      /\ e.requests = d.requests /\ e.cache = d.cache
      /\ e.hydrations = {Past(h) : h \in d.hydrations}
      /\ e.tally = IF "stats" \in W THEN Nothing ELSE d.tally
  BY <1>1 DEF HasFields, BeginRender
<1>3. ASSUME NEW h \in d.hydrations
      PROVE  /\ Past(h).where = IF h.where \in W THEN "superseded" ELSE h.where
             /\ Past(h).key = h.key /\ Past(h).ids = h.ids /\ Past(h).waits = h.waits
             /\ Past(h) = [where |-> Past(h).where, key |-> h.key, ids |-> h.ids, waits |-> h.waits]
             /\ h.where \notin W => Past(h) = h
  <2>1. h = [where |-> h.where, key |-> h.key, ids |-> h.ids, waits |-> h.waits]
    BY DEF Sound, HydrationsRight
  <2>. QED BY <2>1
<1>4. \A g \in e.hydrations : \E h \in d.hydrations : g = Past(h) BY <1>2
<1>5. \A h \in d.hydrations : Past(h) \in e.hydrations BY <1>2
<1>6. IsFiniteSet(e.hydrations)
  <2>1. IsFiniteSet(d.hydrations) BY DEF Sound, HydrationsRight
  <2> DEFINE f == [h \in d.hydrations |-> Past(h)]
  <2>2. e.hydrations = {f[h] : h \in DOMAIN f} BY <1>2
  <2> HIDE DEF Past
  <2>3. DOMAIN f = d.hydrations /\ f = [h \in DOMAIN f |-> f[h]] OBVIOUS
  <2> HIDE DEF f
  <2>. QED BY <2>1, <2>2, <2>3, ImageFinite
<1> HIDE DEF Past
<1>7. "superseded" \notin W BY DEF Containers
<1>8. TabTyped(e, t) BY <1>2 DEF Sound, TabTyped
<1>9. RequestsRight(e, cat) /\ CacheRight(e) BY <1>2 DEF Sound, RequestsRight, CacheRight
<1>10. HydrationsRight(e.hydrations, e, t)
  <2> SUFFICES ASSUME NEW g \in e.hydrations
               PROVE  /\ g = [where |-> g.where, key |-> g.key, ids |-> g.ids, waits |-> g.waits]
                      /\ g.ids \in Seq(Games) /\ g.key \in Keys
                      /\ g.where \in Containers(t) \cup {"superseded"}
                      /\ g.where # "superseded" => g.key \in Reads(g.where)
                      /\ t \notin Profile => g.key = "played"
                      /\ g.waits \subseteq DOMAIN e.requests
                      /\ ToSet(g.ids) \subseteq UNION {ToSet(n[1]) : n \in g.waits}
    BY <1>6 DEF HydrationsRight
  <2>1. PICK h \in d.hydrations : g = Past(h) BY <1>4
  <2>2. /\ h.ids \in Seq(Games) /\ h.key \in Keys
        /\ h.where \in Containers(t) \cup {"superseded"}
        /\ h.where # "superseded" => h.key \in Reads(h.where)
        /\ t \notin Profile => h.key = "played"
        /\ h.waits \subseteq DOMAIN d.requests
        /\ ToSet(h.ids) \subseteq UNION {ToSet(n[1]) : n \in h.waits}
    BY DEF Sound, HydrationsRight
  <2>. QED BY <1>2, <1>3, <2>1, <2>2
<1>11. /\ \A w \in W : ~Pending(e.hydrations, w)
       /\ \A w : w \notin W \cup {"superseded"} =>
            (Pending(e.hydrations, w) <=> Pending(d.hydrations, w))
  BY <1>3, <1>4, <1>5, <1>7 DEF Pending
<1>12. StatsCovered(e, e.hydrations)
  <2>1. CASE "stats" \in W
    <3>1. DOMAIN e.tally = {} BY <1>2, <2>1, NothingIs
    <3>. QED BY <1>11, <2>1, <3>1 DEF StatsCovered, Pending
  <2>2. CASE "stats" \notin W
    <3>1. \A g \in e.hydrations : g.where = "stats" => g \in d.hydrations BY <1>3, <1>4
    <3>2. \A h \in d.hydrations : h.where = "stats" => h \in e.hydrations BY <1>3, <1>5, <2>2
    <3>. QED BY <1>2, <2>2, <3>1, <3>2 DEF Sound, StatsCovered, Pending
  <2>. QED BY <2>1, <2>2
<1>13. Waits(d) => Waits(e) BY <1>2, <1>3, <1>4 DEF Waits
<1>14. ASSUME Truth(d, lists, d.hydrations, t, cat, W)
       PROVE  Truth(e, lists, e.hydrations, t, cat, W)
  <2>1. ASSUME NEW g \in e.hydrations, g.where \notin W \cup {"superseded"}
        PROVE  g \in d.hydrations
    BY <1>3, <1>4, <2>1
  <2>2. t \notin Profile \/ (~Pending(e.hydrations, "favorites") /\ "favorites" \notin W) =>
          HeartsTrue(e, lists, cat)
    BY <1>2, <1>11, <1>14 DEF Truth, HeartsTrue
  <2>3. \A w \in Containers(t) \ W : Pending(e.hydrations, w) \/ ShownTrue(e, lists, w, cat)
    BY <1>2, <1>11, <1>14 DEF Truth, ShownTrue, Containers
  <2>. QED BY <1>2, <1>14, <2>1, <2>2, <2>3 DEF Truth
<1>. QED BY <1>2, <1>8, <1>9, <1>10, <1>11, <1>12, <1>13, <1>14, NothingIs DEF Sound

(* A request is made for every batch the cache does not hold.              *)
LEMMA FetchRight ==
  ASSUME NEW d, NEW cat, HasFields(d), RequestsRight(d, cat), CacheRight(d), NEW batches,
         NEW f, f = FetchBatches(d, batches)
  PROVE  /\ HasFields(f)
         /\ f.page = d.page /\ f.hearts = d.hearts /\ f.badge = d.badge /\ f.shown = d.shown
         /\ f.hydrations = d.hydrations /\ f.tally = d.tally
         /\ RequestsRight(f, cat) /\ CacheRight(f)
         /\ \A n \in DOMAIN d.requests : /\ n \in DOMAIN f.requests
                                         /\ d.requests[n].state = "sent" =>
                                              f.requests[n].state = "sent"
         /\ batches \subseteq DOMAIN f.cache
         /\ DOMAIN d.cache = {} => \A b \in batches : f.requests[f.cache[b]].state = "sent"
<1> DEFINE fresh == batches \ DOMAIN d.cache
           Number(b) == CHOOSE i \in 1..(Cardinality(DOMAIN d.requests) + 1) :
                          /\ <<b, i>> \notin DOMAIN d.requests
                          /\ \A j \in 1..(i - 1) : <<b, j>> \in DOMAIN d.requests
           made == [b \in fresh |-> <<b, Number(b)>>]
           sent == [n \in Range(made) |-> [state |-> "sent", found |-> {}]]
<1>1. f = [d EXCEPT !.cache = Over(made, @), !.requests = Over(sent, @)]
  BY DEF FetchBatches
<1>2. DOMAIN made = fresh /\ \A b \in fresh : made[b][1] = b /\ made[b] \in Range(made)
  BY DEF Range
<1>3. DOMAIN sent = Range(made) /\ \A n \in DOMAIN sent : sent[n] = [state |-> "sent", found |-> {}]
  OBVIOUS
<1> HIDE DEF made, sent
<1>4. /\ HasFields(f)
      /\ f.page = d.page /\ f.hearts = d.hearts /\ f.badge = d.badge /\ f.shown = d.shown
      /\ f.hydrations = d.hydrations /\ f.tally = d.tally
      /\ f.cache = Over(made, d.cache) /\ f.requests = Over(sent, d.requests)
  BY <1>1 DEF HasFields
<1>5. /\ DOMAIN f.requests = DOMAIN sent \cup DOMAIN d.requests
      /\ \A n \in DOMAIN sent : f.requests[n] = [state |-> "sent", found |-> {}]
      /\ \A n \in DOMAIN d.requests : n \notin DOMAIN sent => f.requests[n] = d.requests[n]
  <2>1. /\ DOMAIN f.requests = DOMAIN sent \cup DOMAIN d.requests
        /\ \A n \in DOMAIN sent : f.requests[n] = sent[n]
        /\ \A n \in DOMAIN d.requests : n \notin DOMAIN sent => f.requests[n] = d.requests[n]
    BY <1>4 DEF Over
  <2>. QED BY <1>3, <2>1
<1>6. /\ DOMAIN f.cache = fresh \cup DOMAIN d.cache
      /\ \A b \in fresh : f.cache[b] = made[b]
      /\ \A b \in DOMAIN d.cache : f.cache[b] = d.cache[b]
  <2>1. /\ DOMAIN f.cache = DOMAIN made \cup DOMAIN d.cache
        /\ \A b \in DOMAIN made : f.cache[b] = made[b]
        /\ \A b \in DOMAIN d.cache : b \notin DOMAIN made => f.cache[b] = d.cache[b]
    BY <1>4 DEF Over
  <2>2. \A b \in DOMAIN d.cache : b \notin fresh OBVIOUS
  <2> HIDE DEF fresh
  <2>. QED BY <1>2, <2>1, <2>2
<1>7. RequestsRight(f, cat) BY <1>5 DEF RequestsRight
<1>8. CacheRight(f) BY <1>2, <1>3, <1>5, <1>6 DEF CacheRight
<1>9. \A n \in DOMAIN d.requests : /\ n \in DOMAIN f.requests
                                   /\ d.requests[n].state = "sent" => f.requests[n].state = "sent"
  BY <1>5
<1>10. batches \subseteq DOMAIN f.cache BY <1>6
<1>11. DOMAIN d.cache = {} => \A b \in batches : f.requests[f.cache[b]].state = "sent"
  BY <1>2, <1>3, <1>5, <1>6
<1>. QED BY <1>4, <1>7, <1>8, <1>9, <1>10, <1>11

(* A render waits for every list it reads, as the list is now; with the    *)
(* cache empty it waits for the server.                                    *)
Rendered(d, W, r, lists, t, cat) ==
  /\ Sound(r, r.hydrations, t, cat)
  /\ r.page = d.page /\ r.hearts = d.hearts
  /\ Truth(d, lists, d.hydrations, t, cat, W) => Truth(r, lists, r.hydrations, t, cat, {})
  /\ DOMAIN d.cache = {} /\ Waits(d) =>
       \A h \in r.hydrations : \/ ToSet(h.ids) = {}
                               \/ \E n \in h.waits : r.requests[n].state = "sent"

(* Render: the containers of W are to be drawn from the lists, and all     *)
(* others show what they showed.                                           *)
LEMMA RenderRight ==
  ASSUME NEW d, NEW t, NEW cat, Sound(d, d.hydrations, t, cat), BatchSize \in Nat \ {0},
         NEW W \in SUBSET Containers(t), NEW lists, lists \in [Keys -> Seq(Games)],
         NEW r, r = Render(d, W, lists)
  PROVE  Rendered(d, W, r, lists, t, cat)
<1> DEFINE asks == {a \in W \X Keys : a[2] \in Reads(a[1])}
           batches == UNION {Batches(lists[a[2]]) : a \in asks}
           b0 == BeginRender(d, W)
           f == FetchBatches(b0, batches)
           new(a) == [where |-> a[1], key |-> a[2], ids |-> lists[a[2]],
                      waits |-> {f.cache[b] : b \in Batches(lists[a[2]])}]
<1>1. r = [f EXCEPT !.hydrations = @ \cup {new(a) : a \in asks}] BY DEF Render
<1>2. \A a \in asks : /\ new(a).where = a[1] /\ new(a).key = a[2] /\ new(a).ids = lists[a[2]]
                      /\ new(a).waits = {f.cache[b] : b \in Batches(lists[a[2]])}
                      /\ new(a) = [where |-> new(a).where, key |-> new(a).key,
                                   ids |-> new(a).ids, waits |-> new(a).waits]
  OBVIOUS
<1>3. \A a \in asks : /\ a[1] \in W /\ a[2] \in Keys /\ a[2] \in Reads(a[1])
                      /\ a = <<a[1], a[2]>>
  OBVIOUS
<1>4. \A w \in W, k \in Keys : k \in Reads(w) => <<w, k>> \in asks OBVIOUS
<1>5. \A a \in asks : \A b \in Batches(lists[a[2]]) : b \in batches OBVIOUS
<1>6. IsFiniteSet(asks)
  <2>1. IsFiniteSet(Keys)
    <3>1. Keys = {"favorites"} \cup {"played"} BY DEF Keys
    <3>. QED BY <3>1, FS_Singleton, FS_Union
  <2>2. IsFiniteSet(W)
    <3>1. W \subseteq {"favorites"} \cup ({"played"} \cup ({"stats"} \cup {"strip"}))
      BY DEF Containers
    <3>2. IsFiniteSet({"favorites"} \cup ({"played"} \cup ({"stats"} \cup {"strip"})))
      BY FS_Singleton, FS_Union
    <3>. QED BY <3>1, <3>2, FS_Subset
  <2>. QED BY <2>1, <2>2, FS_Product, FS_Subset
<1>7. IsFiniteSet({new(a) : a \in asks})
  <2> DEFINE all == [a \in asks |-> new(a)]
  <2>1. {new(a) : a \in asks} = {all[a] : a \in DOMAIN all} OBVIOUS
  <2> HIDE DEF new
  <2>2. DOMAIN all = asks /\ all = [a \in DOMAIN all |-> all[a]] OBVIOUS
  <2> HIDE DEF all, asks
  <2>. QED BY <1>6, <2>1, <2>2, ImageFinite
<1> HIDE DEF new, asks, batches
<1>8. /\ Sound(b0, b0.hydrations, t, cat)
      /\ b0.page = d.page /\ b0.hearts = d.hearts /\ b0.badge = d.badge
      /\ b0.shown = d.shown /\ b0.requests = d.requests /\ b0.cache = d.cache
      /\ "stats" \in W => DOMAIN b0.tally = {}
      /\ \A w \in W : ~Pending(b0.hydrations, w)
      /\ Waits(d) => Waits(b0)
      /\ Truth(d, lists, d.hydrations, t, cat, W) => Truth(b0, lists, b0.hydrations, t, cat, W)
  BY BeginRenderRight
<1> HIDE DEF b0
<1>9. HasFields(b0) /\ RequestsRight(b0, cat) /\ CacheRight(b0) BY <1>8 DEF Sound, TabTyped
<1>10. /\ HasFields(f)
       /\ f.page = b0.page /\ f.hearts = b0.hearts /\ f.badge = b0.badge /\ f.shown = b0.shown
       /\ f.hydrations = b0.hydrations /\ f.tally = b0.tally
       /\ RequestsRight(f, cat) /\ CacheRight(f)
       /\ \A n \in DOMAIN b0.requests : /\ n \in DOMAIN f.requests
                                        /\ b0.requests[n].state = "sent" =>
                                             f.requests[n].state = "sent"
       /\ batches \subseteq DOMAIN f.cache
       /\ DOMAIN b0.cache = {} => \A b \in batches : f.requests[f.cache[b]].state = "sent"
  BY <1>9, FetchRight
<1> HIDE DEF f
<1> DEFINE N == {new(a) : a \in asks}
<1>11. /\ HasFields(r)
       /\ r.page = f.page /\ r.hearts = f.hearts /\ r.badge = f.badge /\ r.shown = f.shown
       /\ r.requests = f.requests /\ r.cache = f.cache /\ r.tally = f.tally
       /\ r.hydrations = b0.hydrations \cup N
  BY <1>1, <1>10 DEF HasFields
<1>12. \A h \in N : \E a \in asks : h = new(a) OBVIOUS
<1>13. \A a \in asks : new(a) \in N OBVIOUS
<1> HIDE DEF N
<1>14. ASSUME NEW a \in asks
       PROVE  /\ lists[a[2]] \in Seq(Games)
              /\ new(a).waits \subseteq DOMAIN r.requests
              /\ ToSet(lists[a[2]]) \subseteq UNION {ToSet(n[1]) : n \in new(a).waits}
              /\ DOMAIN d.cache = {} => \A n \in new(a).waits : r.requests[n].state = "sent"
              /\ ToSet(lists[a[2]]) # {} => new(a).waits # {}
  <2>1. lists[a[2]] \in Seq(Games) BY <1>3
  <2>2. ToSet(lists[a[2]]) \subseteq UNION {ToSet(b) : b \in Batches(lists[a[2]])}
    BY <2>1, BatchesCover
  <2>3. \A b \in Batches(lists[a[2]]) : b \in DOMAIN f.cache /\ f.cache[b] \in new(a).waits
    BY <1>2, <1>5, <1>10
  <2>4. \A b \in Batches(lists[a[2]]) : f.cache[b] \in DOMAIN f.requests /\ f.cache[b][1] = b
    BY <1>10, <2>3 DEF CacheRight
  <2>5. \A n \in new(a).waits : \E b \in Batches(lists[a[2]]) : n = f.cache[b] BY <1>2
  <2>6. new(a).waits \subseteq DOMAIN r.requests BY <1>11, <2>4, <2>5
  <2>7. ToSet(lists[a[2]]) \subseteq UNION {ToSet(n[1]) : n \in new(a).waits} BY <2>2, <2>3, <2>4
  <2>8. DOMAIN d.cache = {} => \A n \in new(a).waits : r.requests[n].state = "sent"
    BY <1>5, <1>8, <1>10, <1>11, <2>5
  <2>. QED BY <2>1, <2>6, <2>7, <2>8
<1>15. TabTyped(r, t) BY <1>8, <1>10, <1>11 DEF Sound, TabTyped
<1>16. RequestsRight(r, cat) /\ CacheRight(r)
  <2>1. r.requests = f.requests /\ r.cache = f.cache BY <1>11
  <2>2. RequestsRight(f, cat) BY <1>10
  <2>3. RequestsRight(r, cat) BY <2>1, <2>2 DEF RequestsRight
  <2>. QED BY <1>10, <2>1, <2>3 DEF CacheRight
<1>17. HydrationsRight(r.hydrations, r, t)
  <2>1. IsFiniteSet(r.hydrations)
    <3>1. IsFiniteSet(b0.hydrations) BY <1>8 DEF Sound, HydrationsRight
    <3>2. IsFiniteSet(N) BY <1>7 DEF N
    <3>3. IsFiniteSet(b0.hydrations \cup N) BY <3>1, <3>2, FS_Union
    <3>. QED BY <1>11, <3>3
  <2>2. ASSUME NEW h \in r.hydrations
        PROVE  /\ h = [where |-> h.where, key |-> h.key, ids |-> h.ids, waits |-> h.waits]
               /\ h.ids \in Seq(Games) /\ h.key \in Keys
               /\ h.where \in Containers(t) \cup {"superseded"}
               /\ h.where # "superseded" => h.key \in Reads(h.where)
               /\ t \notin Profile => h.key = "played"
               /\ h.waits \subseteq DOMAIN r.requests
               /\ ToSet(h.ids) \subseteq UNION {ToSet(n[1]) : n \in h.waits}
    <3>1. CASE h \in b0.hydrations
      <4>1. /\ h = [where |-> h.where, key |-> h.key, ids |-> h.ids, waits |-> h.waits]
            /\ h.ids \in Seq(Games) /\ h.key \in Keys
            /\ h.where \in Containers(t) \cup {"superseded"}
            /\ h.where # "superseded" => h.key \in Reads(h.where)
            /\ t \notin Profile => h.key = "played"
            /\ h.waits \subseteq DOMAIN b0.requests
            /\ ToSet(h.ids) \subseteq UNION {ToSet(n[1]) : n \in h.waits}
        BY <1>8, <3>1 DEF Sound, HydrationsRight
      <4>2. h.waits \subseteq DOMAIN r.requests BY <1>10, <1>11, <4>1
      <4>. QED BY <4>1, <4>2
    <3>2. CASE h \in N
      <4>1. PICK a \in asks : h = new(a) BY <1>12, <3>2
      <4>2. t \notin Profile => a[2] = "played" BY <1>3 DEF Containers, Reads
      <4>. QED BY <1>2, <1>3, <1>14, <4>1, <4>2
    <3>. QED BY <1>11, <3>1, <3>2
  <2>. QED BY <2>1, <2>2 DEF HydrationsRight
<1>18. \A w \in W : Pending(r.hydrations, w)
  <2> SUFFICES ASSUME NEW w \in W PROVE Pending(r.hydrations, w)
    OBVIOUS
  <2>1. PICK k \in Keys : k \in Reads(w) BY DEF Reads, Keys
  <2>2. new(<<w, k>>) \in r.hydrations BY <1>4, <1>11, <1>13, <2>1
  <2>3. new(<<w, k>>).where = w BY <1>2, <1>4, <2>1
  <2>. QED BY <2>2, <2>3 DEF Pending
<1>19. \A w : w \notin W => (Pending(r.hydrations, w) <=> Pending(b0.hydrations, w))
  BY <1>2, <1>3, <1>11, <1>12 DEF Pending
<1>20. StatsCovered(r, r.hydrations)
  <2>1. CASE "stats" \notin W
    <3>1. \A h \in N : h.where # "stats" BY <1>2, <1>3, <1>12, <2>1
    <3>2. /\ \A h \in r.hydrations : h.where = "stats" => h \in b0.hydrations
          /\ b0.hydrations \subseteq r.hydrations
      BY <1>11, <3>1
    <3>3. StatsCovered(b0, b0.hydrations) /\ r.tally = b0.tally BY <1>8, <1>10, <1>11 DEF Sound
    <3>. QED BY <3>2, <3>3 DEF StatsCovered, Pending
  <2>2. CASE "stats" \in W
    <3>1. DOMAIN r.tally = {} BY <1>8, <1>10, <1>11, <2>2
    <3>2. \A k \in Keys : k \in Reads("stats") BY DEF Reads
    <3>3. ASSUME NEW k \in Keys PROVE \E h \in r.hydrations : h.where = "stats" /\ h.key = k
      <4>1. <<"stats", k>> \in asks BY <1>4, <2>2, <3>2
      <4>2. new(<<"stats", k>>) \in r.hydrations BY <1>11, <1>13, <4>1
      <4>. QED BY <1>2, <4>1, <4>2
    <3>4. ASSUME NEW h \in r.hydrations, h.where = "stats" PROVE h = new(<<"stats", h.key>>)
      <4>1. h \in N BY <1>8, <1>11, <2>2, <3>4 DEF Pending
      <4>2. PICK a \in asks : h = new(a) BY <1>12, <4>1
      <4>. QED BY <1>2, <1>3, <3>4, <4>2
    <3>5. \A h, x \in r.hydrations : h.where = "stats" /\ x.where = "stats" /\ x.key = h.key =>
            x = h
      BY <3>4
    <3>. QED BY <3>1, <3>3, <3>5 DEF StatsCovered
  <2>. QED BY <2>1, <2>2
<1>21. ASSUME Truth(d, lists, d.hydrations, t, cat, W)
       PROVE  Truth(r, lists, r.hydrations, t, cat, {})
  <2>1. Truth(b0, lists, b0.hydrations, t, cat, W) BY <1>8, <1>21
  <2>2. r.badge = b0.badge /\ r.hearts = b0.hearts /\ r.shown = b0.shown /\ r.tally = b0.tally
    BY <1>10, <1>11
  <2>3. t \notin Profile \/ ~Pending(r.hydrations, "favorites") => HeartsTrue(r, lists, cat)
    BY <1>18, <1>19, <2>1, <2>2 DEF Truth, HeartsTrue
  <2>4. \A h \in r.hydrations : h.where # "superseded" => Same(ToSet(h.ids), lists[h.key], cat)
    <3> SUFFICES ASSUME NEW h \in r.hydrations, h.where # "superseded"
                 PROVE  Same(ToSet(h.ids), lists[h.key], cat)
      OBVIOUS
    <3>1. CASE h \in b0.hydrations
      <4>1. h.where \notin W BY <1>8, <3>1 DEF Pending
      <4>. QED BY <2>1, <3>1, <4>1 DEF Truth
    <3>2. CASE h \in N
      <4>1. PICK a \in asks : h = new(a) BY <1>12, <3>2
      <4>. QED BY <1>2, <4>1 DEF Same
    <3>. QED BY <1>11, <3>1, <3>2
  <2>5. \A w \in Containers(t) : Pending(r.hydrations, w) \/ ShownTrue(r, lists, w, cat)
    <3> SUFFICES ASSUME NEW w \in Containers(t), w \notin W
                 PROVE  Pending(r.hydrations, w) \/ ShownTrue(r, lists, w, cat)
      BY <1>18
    <3>1. Pending(b0.hydrations, w) \/ ShownTrue(b0, lists, w, cat) BY <2>1 DEF Truth
    <3>. QED BY <1>19, <2>2, <3>1 DEF ShownTrue
  <2>6. "stats" \in Containers(t) =>
          \A k \in DOMAIN r.tally : r.tally[k].state = "drawn" => Same(r.tally[k].games, lists[k], cat)
    BY <1>8, <2>1, <2>2 DEF Truth
  <2>. QED BY <2>1, <2>2, <2>3, <2>4, <2>5, <2>6 DEF Truth
<1>22. ASSUME DOMAIN d.cache = {}, Waits(d), NEW h \in r.hydrations
       PROVE  ToSet(h.ids) = {} \/ \E n \in h.waits : r.requests[n].state = "sent"
  <2>1. CASE h \in b0.hydrations
    <3>1. PICK n \in h.waits : b0.requests[n].state = "sent" BY <1>8, <1>22, <2>1 DEF Waits
    <3>2. n \in DOMAIN b0.requests BY <1>8, <2>1 DEF Sound, HydrationsRight
    <3>. QED BY <1>10, <1>11, <3>1, <3>2
  <2>2. CASE h \in N
    <3>1. PICK a \in asks : h = new(a) BY <1>12, <2>2
    <3>. QED BY <1>2, <1>14, <1>22, <3>1
  <2>. QED BY <1>11, <2>1, <2>2
<1>. QED BY <1>8, <1>10, <1>11, <1>15, <1>16, <1>17, <1>20, <1>21, <1>22 DEF Sound, Rendered

-----------------------------------------------------------------------------
(* A list whose games have come *)

(* What the server still has, it has answered.                             *)
LEMMA FoundRight ==
  ASSUME NEW d, NEW t, NEW cat, NEW H, Sound(d, H, t, cat), NEW h \in H
  PROVE  /\ ToSet(Found(d, h)) \subseteq ToSet(h.ids)
         /\ ToSet(Found(d, h)) = ToSet(h.ids) \cap UNION {d.requests[n].found : n \in h.waits}
         /\ (\A n \in h.waits : d.requests[n].state = "answered") =>
              ToSet(Found(d, h)) \cap cat = ToSet(h.ids) \cap cat
<1> DEFINE F == UNION {d.requests[n].found : n \in h.waits}
<1>1. h.ids \in Seq(Games) /\ h.waits \subseteq DOMAIN d.requests
      /\ ToSet(h.ids) \subseteq UNION {ToSet(n[1]) : n \in h.waits}
  BY DEF Sound, HydrationsRight
<1>2. ToSet(Found(d, h)) = ToSet(h.ids) \cap F BY <1>1, WithinRight DEF Found
<1>3. ASSUME \A n \in h.waits : d.requests[n].state = "answered",
             NEW g \in ToSet(h.ids) \cap cat
      PROVE  g \in F
  <2>1. PICK n \in h.waits : g \in ToSet(n[1]) BY <1>1
  <2>2. g \in d.requests[n].found BY <1>1, <1>3, <2>1 DEF Sound, RequestsRight
  <2>. QED BY <2>2
<1>. QED BY <1>2, <1>3

(* What a list drawn at its end leaves of the hydrations.                  *)
LEMMA FewerRight ==
  ASSUME NEW d, NEW t, NEW cat, NEW H, Sound(d, H, t, cat), NEW h \in H,
         NEW e, HasFields(e), e.requests = d.requests, e.cache = d.cache
  PROVE  /\ RequestsRight(e, cat) /\ CacheRight(e)
         /\ HydrationsRight(H \ {h}, e, t)
<1>1. RequestsRight(e, cat) /\ CacheRight(e) BY DEF Sound, RequestsRight, CacheRight
<1>2. IsFiniteSet(H) BY DEF Sound, HydrationsRight
<1>3. IsFiniteSet(H \ {h}) BY <1>2, FS_Subset
<1>4. ASSUME NEW x \in H
      PROVE  /\ x = [where |-> x.where, key |-> x.key, ids |-> x.ids, waits |-> x.waits]
             /\ x.ids \in Seq(Games) /\ x.key \in Keys
             /\ x.where \in Containers(t) \cup {"superseded"}
             /\ x.where # "superseded" => x.key \in Reads(x.where)
             /\ t \notin Profile => x.key = "played"
             /\ x.waits \subseteq DOMAIN d.requests
             /\ ToSet(x.ids) \subseteq UNION {ToSet(n[1]) : n \in x.waits}
  BY DEF Sound, HydrationsRight
<1>. QED BY <1>1, <1>3, <1>4 DEF HydrationsRight

(* One hydration less.                                                     *)
LEMMA PendingLess ==
  ASSUME NEW H, NEW h \in H
  PROVE  /\ \A w : w # h.where => (Pending(H \ {h}, w) <=> Pending(H, w))
         /\ \A w : Pending(H \ {h}, w) => Pending(H, w)
  BY DEF Pending

(* What every game the server has is in, the other list has it too.        *)
Thinned(old, new, cat) ==
  \A k \in Keys : /\ ToSet(new[k]) \subseteq ToSet(old[k])
                  /\ ToSet(old[k]) \cap cat \subseteq ToSet(new[k])

(* A tab and the lists that were sound and true with H to draw, and are so *)
(* still with I.                                                           *)
Carried(d, old, H, e, new, I, t, cat) ==
  /\ Sound(e, I, t, cat)
  /\ e.page = d.page /\ e.hydrations = d.hydrations /\ e.requests = d.requests
  /\ ListsTyped(new) /\ Thinned(old, new, cat)
  /\ Truth(d, old, H, t, cat, {}) => Truth(e, new, I, t, cat, {})

(* A draw may take hearts off the page, and turns none.                    *)
HeartsLeft(d, e) == \A g \in Games : e.hearts[g] \in {d.hearts[g], "none"}

(* A list is as thin as itself.                                            *)
LEMMA ThinnedSame == \A lists, cat : Thinned(lists, lists, cat)
  BY DEF Thinned

(* Drawing what has come leaves the tab as true as it was.                 *)
LEMMA DrawRight ==
  ASSUME NEW d, NEW t, NEW cat \in SUBSET Games, NEW H, Sound(d, H, t, cat), NEW h \in H,
         ContinueLimit \in Nat, NEW lists, ListsTyped(lists),
         NEW complete \in BOOLEAN, complete <=> \A n \in h.waits : d.requests[n].state = "answered",
         NEW e, e = Draw(d, h, complete)
  PROVE  /\ Carried(d, lists, H, e, lists, H \ {h}, t, cat)
         /\ ToSet(h.ids) = {} => HeartsLeft(d, e)
<1>0. SUFFICES
        /\ Sound(e, H \ {h}, t, cat)
        /\ e.page = d.page /\ e.hydrations = d.hydrations /\ e.requests = d.requests
        /\ ToSet(h.ids) = {} => \A g \in Games : e.hearts[g] \in {d.hearts[g], "none"}
        /\ Truth(d, lists, H, t, cat, {}) => Truth(e, lists, H \ {h}, t, cat, {})
  BY ThinnedSame DEF Carried, HeartsLeft
<1> DEFINE found == Found(d, h)
           list == Drawn(found, complete)
<1>1. HasFields(d) /\ TabTyped(d, t) /\ StatsCovered(d, H) BY DEF Sound, TabTyped
<1>2. /\ h.where \in Containers(t) \cup {"superseded"} /\ h.key \in Keys
      /\ h.where # "superseded" => h.key \in Reads(h.where)
      /\ h.ids \in Seq(Games)
  BY DEF Sound, HydrationsRight
<1>3. /\ ToSet(found) \subseteq ToSet(h.ids)
      /\ complete => ToSet(found) \cap cat = ToSet(h.ids) \cap cat
  BY FoundRight
<1>4. /\ list.state \in {"drawn", "failed"}
      /\ list.state = "drawn" => complete /\ list.games = ToSet(found)
      /\ (list.state # "drawn" => list.games = {}) /\ list.games \subseteq ToSet(h.ids)
  BY <1>3 DEF Drawn
<1>5. found \in Seq(Games) BY <1>2, WithinRight DEF Found
<1>6. ToSet(FirstOf(found, ContinueLimit)) \subseteq ToSet(h.ids) BY <1>3, <1>5, FirstOfRight
<1>7. e = CASE h.where = "favorites" -> LoadFavoriteGames(d, list)
            [] h.where = "played" -> LoadRecentlyPlayedGames(d, list)
            [] h.where = "strip" -> LoadContinuePlaying(d, found)
            [] h.where = "stats" -> RenderCollectionStats(d, h.key, list)
            [] h.where = "superseded" -> d
  BY DEF Draw
<1> HIDE DEF found, list
<1>8. /\ Truth(d, lists, H, t, cat, {}) /\ h.where # "superseded" =>
           Same(ToSet(h.ids), lists[h.key], cat)
      /\ Truth(d, lists, H, t, cat, {}) /\ h.where # "superseded" /\ list.state = "drawn" =>
           Same(list.games, lists[h.key], cat)
  BY <1>3, <1>4 DEF Truth, Same
<1>9. CASE h.where = "superseded"
  <2>1. e = d BY <1>7, <1>9
  <2>2. RequestsRight(e, cat) /\ CacheRight(e) /\ HydrationsRight(H \ {h}, e, t)
    BY <1>1, <2>1, FewerRight
  <2>3. StatsCovered(e, H \ {h}) BY <1>1, <1>9, <2>1 DEF StatsCovered, Pending
  <2>4. ASSUME Truth(d, lists, H, t, cat, {}) PROVE Truth(e, lists, H \ {h}, t, cat, {})
    <3>1. \A w \in Containers(t) : w # "superseded" BY DEF Containers
    <3>. QED BY <1>9, <2>1, <2>4, <3>1, PendingLess DEF Truth
  <2>5. Sound(e, H \ {h}, t, cat) BY <1>1, <2>1, <2>2, <2>3 DEF Sound
  <2>6. \A g \in Games : e.hearts[g] \in {d.hearts[g], "none"} BY <2>1
  <2>. QED BY <2>1, <2>4, <2>5, <2>6
<1>10. CASE h.where = "favorites"
  <2>1. e = LoadFavoriteGames(d, list) BY <1>7, <1>10
  <2>2. t \in Profile /\ h.key = "favorites" BY <1>2, <1>10 DEF Containers, Reads
  <2>3. /\ HasFields(e)
        /\ e.page = d.page /\ e.badge = d.badge /\ e.hydrations = d.hydrations
        /\ e.requests = d.requests /\ e.cache = d.cache /\ e.tally = d.tally
        /\ e.shown = [d.shown EXCEPT !["favorites"] = list]
        /\ e.hearts = [g \in Games |-> IF g \in list.games THEN "on" ELSE "none"]
    BY <1>1, <2>1 DEF LoadFavoriteGames, HasFields
  <2>4. TabTyped(e, t)
    <3>1. e.hearts \in [Games -> {"none", "on", "off"}] BY <2>3
    <3>2. DOMAIN e.shown = Containers(t) /\ DOMAIN e.shown["stats"] \subseteq Keys
      BY <1>1, <2>2, <2>3 DEF TabTyped, Containers
    <3>. QED BY <2>2, <2>3, <3>1, <3>2 DEF TabTyped
  <2>5. RequestsRight(e, cat) /\ CacheRight(e) /\ HydrationsRight(H \ {h}, e, t)
    BY <2>3, FewerRight
  <2>6. StatsCovered(e, H \ {h}) BY <1>1, <1>10, <2>3 DEF StatsCovered, Pending
  <2>7. ASSUME Truth(d, lists, H, t, cat, {}) PROVE Truth(e, lists, H \ {h}, t, cat, {})
    <3>1. list.games \cap cat \subseteq ToSet(lists["favorites"])
      BY <1>4, <1>8, <1>10, <2>2, <2>7 DEF Same
    <3>2. HeartsTrue(e, lists, cat) BY <2>3, <3>1 DEF HeartsTrue, Heart
    <3>4. ShownTrue(e, lists, "favorites", cat)
      BY <1>1, <1>8, <1>10, <2>2, <2>3, <2>7 DEF ShownTrue, Same, TabTyped, Containers
    <3>5. ASSUME NEW w \in Containers(t), w # "favorites"
          PROVE  Pending(H \ {h}, w) \/ ShownTrue(e, lists, w, cat)
      <4>1. e.shown[w] = d.shown[w] BY <1>1, <2>3, <3>5 DEF TabTyped
      <4>. QED BY <1>10, <2>7, <3>5, <4>1, PendingLess DEF Truth, ShownTrue
    <3>. QED BY <2>3, <2>7, <3>2, <3>4, <3>5 DEF Truth
  <2>8. Sound(e, H \ {h}, t, cat) BY <2>4, <2>5, <2>6 DEF Sound
  <2>9. ToSet(h.ids) = {} => \A g \in Games : e.hearts[g] \in {d.hearts[g], "none"} BY <1>4, <2>3
  <2>. QED BY <2>3, <2>7, <2>8, <2>9
<1>11. CASE h.where = "played"
  <2>1. e = LoadRecentlyPlayedGames(d, list) BY <1>7, <1>11
  <2>2. t \in Profile /\ h.key = "played" BY <1>2, <1>11 DEF Containers, Reads
  <2>3. /\ HasFields(e)
        /\ e.page = d.page /\ e.badge = d.badge /\ e.hydrations = d.hydrations
        /\ e.requests = d.requests /\ e.cache = d.cache /\ e.tally = d.tally
        /\ e.shown = [d.shown EXCEPT !["played"] = list]
        /\ e.hearts = d.hearts
    BY <1>1, <2>1 DEF LoadRecentlyPlayedGames, HasFields
  <2>4. TabTyped(e, t)
    <3>1. DOMAIN e.shown = Containers(t) /\ DOMAIN e.shown["stats"] \subseteq Keys
      BY <1>1, <2>2, <2>3 DEF TabTyped, Containers
    <3>. QED BY <1>1, <2>2, <2>3, <3>1 DEF TabTyped
  <2>5. RequestsRight(e, cat) /\ CacheRight(e) /\ HydrationsRight(H \ {h}, e, t)
    BY <2>3, FewerRight
  <2>6. StatsCovered(e, H \ {h}) BY <1>1, <1>11, <2>3 DEF StatsCovered, Pending
  <2>7. ASSUME Truth(d, lists, H, t, cat, {}) PROVE Truth(e, lists, H \ {h}, t, cat, {})
    <3>1. ShownTrue(e, lists, "played", cat)
      BY <1>1, <1>8, <1>11, <2>2, <2>3, <2>7 DEF ShownTrue, Same, TabTyped, Containers
    <3>2. ASSUME NEW w \in Containers(t), w # "played"
          PROVE  Pending(H \ {h}, w) \/ ShownTrue(e, lists, w, cat)
      <4>1. e.shown[w] = d.shown[w] BY <1>1, <2>3, <3>2 DEF TabTyped
      <4>. QED BY <1>11, <2>7, <3>2, <4>1, PendingLess DEF Truth, ShownTrue
    <3>. QED BY <1>11, <2>3, <2>7, <3>1, <3>2, PendingLess DEF Truth, HeartsTrue
  <2>8. Sound(e, H \ {h}, t, cat) BY <2>4, <2>5, <2>6 DEF Sound
  <2>. QED BY <2>3, <2>7, <2>8
<1>12. CASE h.where = "strip"
  <2>1. e = LoadContinuePlaying(d, found) BY <1>7, <1>12
  <2>2. t \notin Profile /\ h.key = "played" BY <1>2, <1>12 DEF Containers, Reads
  <2>3. /\ HasFields(e)
        /\ e.page = d.page /\ e.badge = d.badge /\ e.hydrations = d.hydrations
        /\ e.requests = d.requests /\ e.cache = d.cache /\ e.tally = d.tally
        /\ e.shown = [d.shown EXCEPT !["strip"].games = ToSet(FirstOf(found, ContinueLimit))]
        /\ e.hearts = d.hearts
    BY <1>1, <2>1 DEF LoadContinuePlaying, HasFields
  <2>4. /\ DOMAIN e.shown = Containers(t)
        /\ e.shown["strip"] = [state |-> "blank", games |-> ToSet(FirstOf(found, ContinueLimit))]
    <3>1. "strip" \in DOMAIN d.shown BY <1>1, <2>2 DEF TabTyped, Containers
    <3>2. d.shown["strip"] = [state |-> "blank", games |-> d.shown["strip"].games]
      BY <1>1, <2>2 DEF TabTyped
    <3>3. DOMAIN d.shown = Containers(t) BY <1>1 DEF TabTyped
    <3>. QED BY <2>3, <3>1, <3>2, <3>3
  <2>5. TabTyped(e, t) BY <1>1, <2>2, <2>3, <2>4 DEF TabTyped
  <2>6. RequestsRight(e, cat) /\ CacheRight(e) /\ HydrationsRight(H \ {h}, e, t)
    BY <2>3, FewerRight
  <2>7. StatsCovered(e, H \ {h}) BY <1>1, <1>12, <2>3 DEF StatsCovered, Pending
  <2>8. ASSUME Truth(d, lists, H, t, cat, {}) PROVE Truth(e, lists, H \ {h}, t, cat, {})
    <3>1. ShownTrue(e, lists, "strip", cat)
      BY <1>6, <1>8, <1>12, <2>2, <2>4, <2>8 DEF ShownTrue, Same
    <3>2. Containers(t) = {"strip"} BY <2>2 DEF Containers
    <3>. QED BY <1>12, <2>2, <2>3, <2>8, <3>1, <3>2, PendingLess DEF Truth, HeartsTrue
  <2>9. Sound(e, H \ {h}, t, cat) BY <2>5, <2>6, <2>7 DEF Sound
  <2>. QED BY <2>3, <2>8, <2>9
<1>13. CASE h.where = "stats"
  <2>1. e = RenderCollectionStats(d, h.key, list) BY <1>7, <1>13
  <2>2. t \in Profile BY <1>2, <1>13 DEF Containers
  <2> DEFINE tally == Over([x \in {h.key} |-> list], d.tally)
             drawn == IF \E x \in Keys : tally[x].state = "failed" THEN Nothing ELSE tally
  <2>3. /\ DOMAIN tally = {h.key} \cup DOMAIN d.tally
        /\ tally[h.key] = list
        /\ \A k \in DOMAIN d.tally : k # h.key => tally[k] = d.tally[k]
    BY DEF Over
  <2>4. e = IF DOMAIN tally # Keys THEN [d EXCEPT !.tally = tally]
            ELSE [d EXCEPT !.tally = Nothing, !.shown["stats"] = drawn]
    BY <2>1 DEF RenderCollectionStats
  <2> HIDE DEF tally
  <2>5. /\ HasFields(e)
        /\ e.page = d.page /\ e.badge = d.badge /\ e.hydrations = d.hydrations
        /\ e.requests = d.requests /\ e.cache = d.cache /\ e.hearts = d.hearts
        /\ DOMAIN tally # Keys => e.tally = tally /\ e.shown = d.shown
        /\ DOMAIN tally = Keys => e.tally = Nothing /\ e.shown = [d.shown EXCEPT !["stats"] = drawn]
    BY <1>1, <2>4 DEF HasFields
  <2>6. /\ DOMAIN tally \subseteq Keys
        /\ \A k \in DOMAIN tally : tally[k].state \in {"drawn", "failed"}
    BY <1>1, <1>2, <1>4, <2>3 DEF StatsCovered
  <2>7. DOMAIN drawn \subseteq Keys BY <2>6, NothingIs
  <2>8. "stats" \in DOMAIN d.shown BY <1>1, <2>2 DEF TabTyped, Containers
  <2>9. TabTyped(e, t)
    <3>1. DOMAIN e.shown = Containers(t) /\ DOMAIN e.shown["stats"] \subseteq Keys
      BY <1>1, <2>2, <2>5, <2>7, <2>8 DEF TabTyped
    <3>. QED BY <1>1, <2>2, <2>5, <3>1 DEF TabTyped
  <2>10. RequestsRight(e, cat) /\ CacheRight(e) /\ HydrationsRight(H \ {h}, e, t)
    BY <2>5, FewerRight
  <2>11. \A x \in H \ {h} : x.where = "stats" => x.key # h.key /\ x.key \notin DOMAIN tally
    BY <1>1, <1>13, <2>3 DEF StatsCovered
  <2>12. \A k \in Keys : k \in DOMAIN tally \/ \E x \in H \ {h} : x.where = "stats" /\ x.key = k
    <3>1. Pending(H, "stats") BY <1>13 DEF Pending
    <3>2. \A k \in Keys : k \in DOMAIN d.tally \/ \E x \in H : x.where = "stats" /\ x.key = k
      BY <1>1, <3>1 DEF StatsCovered
    <3>. QED BY <2>3, <3>2
  <2>13. \A x, y \in H \ {h} : x.where = "stats" /\ y.where = "stats" /\ x.key = y.key => x = y
    BY <1>1 DEF StatsCovered
  <2>14. DOMAIN tally = Keys => ~Pending(H \ {h}, "stats")
    <3>1. \A x \in H : x.key \in Keys BY DEF Sound, HydrationsRight
    <3>. QED BY <2>11, <3>1 DEF Pending
  <2>15. DOMAIN tally # Keys => Pending(H \ {h}, "stats")
    BY <2>6, <2>12 DEF Pending
  <2>16. StatsCovered(e, H \ {h})
    <3>1. CASE DOMAIN tally # Keys BY <2>5, <2>6, <2>11, <2>12, <2>13, <3>1 DEF StatsCovered
    <3>2. CASE DOMAIN tally = Keys
      <4>1. DOMAIN e.tally = {} BY <2>5, <3>2, NothingIs
      <4>. QED BY <2>14, <3>2, <4>1 DEF StatsCovered, Pending
    <3>. QED BY <3>1, <3>2
  <2>17. ASSUME Truth(d, lists, H, t, cat, {}) PROVE Truth(e, lists, H \ {h}, t, cat, {})
    <3>1. \A k \in DOMAIN tally : tally[k].state = "drawn" => Same(tally[k].games, lists[k], cat)
      BY <1>8, <1>13, <2>2, <2>3, <2>17 DEF Truth, Containers
    <3>2. Pending(H \ {h}, "stats") \/ ShownTrue(e, lists, "stats", cat)
      <4>1. SUFFICES ASSUME DOMAIN tally = Keys PROVE ShownTrue(e, lists, "stats", cat)
        BY <2>15
      <4>2. e.shown["stats"] = drawn BY <2>5, <2>8, <4>1
      <4>3. \A k \in DOMAIN drawn : Same(drawn[k].games, lists[k], cat)
        <5>1. CASE \E x \in Keys : tally[x].state = "failed" BY <5>1, NothingIs
        <5>2. CASE ~ \E x \in Keys : tally[x].state = "failed" BY <2>6, <3>1, <4>1, <5>2
        <5>. QED BY <5>1, <5>2
      <4>. QED BY <4>2, <4>3 DEF ShownTrue
    <3>3. ASSUME NEW w \in Containers(t), w # "stats"
          PROVE  Pending(H \ {h}, w) \/ ShownTrue(e, lists, w, cat)
      <4>1. e.shown[w] = d.shown[w] BY <1>1, <2>5, <3>3 DEF TabTyped
      <4>. QED BY <1>13, <2>17, <3>3, <4>1, PendingLess DEF Truth, ShownTrue
    <3>4. \A k \in DOMAIN e.tally : e.tally[k].state = "drawn" =>
            Same(e.tally[k].games, lists[k], cat)
      <4>1. CASE DOMAIN tally # Keys BY <2>5, <3>1, <4>1
      <4>2. CASE DOMAIN tally = Keys BY <2>5, <4>2, NothingIs
      <4>. QED BY <4>1, <4>2
    <3>5. t \notin Profile \/ ~Pending(H \ {h}, "favorites") => HeartsTrue(e, lists, cat)
      BY <1>13, <2>5, <2>17, PendingLess DEF Truth, HeartsTrue
    <3>. QED BY <2>5, <2>17, <3>2, <3>3, <3>4, <3>5 DEF Truth
  <2>18. Sound(e, H \ {h}, t, cat) BY <2>9, <2>10, <2>16 DEF Sound
  <2>. QED BY <2>5, <2>17, <2>18
<1>14. h.where \in {"superseded", "favorites", "played", "strip", "stats"} BY <1>2 DEF Containers
<1>. QED BY <1>9, <1>10, <1>11, <1>12, <1>13, <1>14

(* A hydration that, if answered, finds all its games and so prunes        *)
(* nothing.                                                                *)
Quiet(h, requests) ==
  (\A n \in h.waits : requests[n].state = "answered") =>
    ToSet(h.ids) \subseteq UNION {requests[n].found : n \in h.waits}

(* Lists that lost only what the server has lost are shown as truly.       *)
LEMMA TruthOfThinned ==
  ASSUME NEW d, NEW t, NEW cat, NEW H, NEW lists, NEW W, Truth(d, lists, H, t, cat, W),
         HydrationsRight(H, d, t), TabTyped(d, t), StatsCovered(d, H),
         NEW new, Thinned(lists, new, cat),
         NEW e, e.shown = d.shown, e.tally = d.tally,
         e.badge = Cardinality(ToSet(new["favorites"])),
         HeartsTrue(d, lists, cat) => HeartsTrue(e, new, cat)
  PROVE  Truth(e, new, H, t, cat, W)
<1>1. ASSUME NEW k \in Keys, NEW games, Same(games, lists[k], cat) PROVE Same(games, new[k], cat)
  BY <1>1 DEF Same, Thinned
<1>2. ASSUME NEW h \in H, h.where \notin W \cup {"superseded"}
      PROVE Same(ToSet(h.ids), new[h.key], cat)
  BY <1>1, <1>2 DEF Truth, HydrationsRight
<1>3. ASSUME NEW w \in Containers(t) \ W PROVE Pending(H, w) \/ ShownTrue(e, new, w, cat)
  <2>1. SUFFICES ASSUME ShownTrue(d, lists, w, cat) PROVE ShownTrue(e, new, w, cat)
    BY <1>3 DEF Truth
  <2>2. CASE w = "strip" BY <2>1, <2>2 DEF ShownTrue, Thinned, Keys
  <2>3. CASE w = "stats"
    <3>1. t \in Profile BY <2>3 DEF Containers
    <3>2. DOMAIN d.shown[w] \subseteq Keys BY <2>3, <3>1 DEF TabTyped
    <3>. QED BY <1>1, <2>1, <2>3, <3>2 DEF ShownTrue
  <2>4. CASE w \notin {"strip", "stats"}
    <3>1. w \in Keys BY <2>4 DEF Containers, Keys
    <3>. QED BY <1>1, <2>1, <2>4, <3>1 DEF ShownTrue
  <2>. QED BY <2>2, <2>3, <2>4
<1>4. "stats" \in Containers(t) \ W =>
        \A k \in DOMAIN e.tally : e.tally[k].state = "drawn" => Same(e.tally[k].games, new[k], cat)
  BY <1>1 DEF Truth, StatsCovered
<1>. QED BY <1>2, <1>3, <1>4 DEF Truth

(* The count and the hearts, and nothing else.                             *)
LEMMA CountShows ==
  ASSUME NEW d, HasFields(d), NEW favorites, NEW e, e = UpdateFavoritesCount(d, favorites)
  PROVE  /\ HasFields(e) /\ e.badge = Cardinality(favorites)
         /\ e.page = d.page /\ e.hearts = d.hearts /\ e.shown = d.shown
         /\ e.hydrations = d.hydrations
         /\ e.requests = d.requests /\ e.cache = d.cache /\ e.tally = d.tally
<1>1. e = [d EXCEPT !.badge = Cardinality(favorites)] BY DEF UpdateFavoritesCount
<1>. QED BY <1>1 DEF HasFields

(* SyncFavoriteButtons sets the hearts that are shown.                     *)
LEMMA SyncRight ==
  ASSUME NEW d, HasFields(d), NEW favorites, NEW e, e = SyncFavoriteButtons(d, favorites)
  PROVE  /\ HasFields(e)
         /\ e.hearts = [g \in Games |-> IF d.hearts[g] = "none" THEN "none"
                                      ELSE Heart(favorites, g)]
         /\ e.page = d.page /\ e.badge = d.badge /\ e.shown = d.shown /\ e.hydrations = d.hydrations
         /\ e.requests = d.requests /\ e.cache = d.cache /\ e.tally = d.tally
<1>1. e = [d EXCEPT !.hearts = [g \in Games |-> IF @[g] = "none" THEN "none"
                                                ELSE Heart(favorites, g)]]
  BY DEF SyncFavoriteButtons
<1>. QED BY <1>1 DEF HasFields

(* An emptied cache.                                                       *)
LEMMA EmptiedRight ==
  ASSUME NEW d, HasFields(d), NEW e, e = [d EXCEPT !.cache = Nothing]
  PROVE  /\ HasFields(e) /\ e.cache = Nothing
         /\ e.page = d.page /\ e.hearts = d.hearts /\ e.badge = d.badge /\ e.shown = d.shown
         /\ e.hydrations = d.hydrations /\ e.requests = d.requests /\ e.tally = d.tally
  BY DEF HasFields

(* Nothing that is gone is in the catalogue.                               *)
Apart(gone, cat) == gone \cap cat = {}

(* What the server says is gone leaves the list it was in.                 *)
Lighter(lists, key, gone, saved) ==
  IF saved THEN [lists EXCEPT ![key] = Without(lists[key], gone)] ELSE lists

(* The tab after a prune: its cache empty, and its hearts and number set   *)
(* if favourites went.                                                     *)
Synced(d, key, favorites, saved) ==
  LET c == [d EXCEPT !.cache = Nothing]
  IN IF saved /\ key = "favorites"
     THEN SyncFavoriteButtons(UpdateFavoritesCount(c, favorites), favorites)
     ELSE c

(* A prune takes nothing that the server has.                              *)
LEMMA PruneRight ==
  ASSUME NEW d, NEW t, NEW cat \in SUBSET Games, NEW H, Sound(d, H, t, cat),
         RecentLimit \in Nat, NEW key \in Keys, NEW gone, Apart(gone, cat),
         NEW lists, ListsTyped(lists), NEW saved \in BOOLEAN,
         NEW new, new = Lighter(lists, key, gone, saved),
         NEW e, e = Synced(d, key, ToSet(new["favorites"]), saved)
  PROVE  Carried(d, lists, H, e, new, H, t, cat)
<1>1. HasFields(d) BY DEF Sound, TabTyped
<1>2. new = IF saved THEN [lists EXCEPT ![key] = Without(lists[key], gone)] ELSE lists
  BY DEF Lighter
<1>3. /\ HasFields(e)
      /\ e.page = d.page /\ e.shown = d.shown
      /\ e.hydrations = d.hydrations /\ e.requests = d.requests /\ e.tally = d.tally
      /\ e.cache = Nothing
      /\ saved /\ key = "favorites" =>
           /\ e.badge = Cardinality(ToSet(new["favorites"]))
           /\ e.hearts = [g \in Games |-> IF d.hearts[g] = "none" THEN "none"
                                          ELSE Heart(ToSet(new["favorites"]), g)]
      /\ ~(saved /\ key = "favorites") => e.badge = d.badge /\ e.hearts = d.hearts
  <2> DEFINE c == [d EXCEPT !.cache = Nothing]
             u == UpdateFavoritesCount(c, ToSet(new["favorites"]))
             s == SyncFavoriteButtons(u, ToSet(new["favorites"]))
  <2>1. e = IF saved /\ key = "favorites" THEN s ELSE c BY DEF Synced
  <2>2. /\ HasFields(c) /\ c.cache = Nothing
        /\ c.page = d.page /\ c.hearts = d.hearts /\ c.badge = d.badge /\ c.shown = d.shown
        /\ c.hydrations = d.hydrations /\ c.requests = d.requests /\ c.tally = d.tally
    BY <1>1, EmptiedRight
  <2> HIDE DEF c
  <2>3. /\ HasFields(u) /\ u.badge = Cardinality(ToSet(new["favorites"]))
        /\ u.page = c.page /\ u.hearts = c.hearts /\ u.shown = c.shown
        /\ u.hydrations = c.hydrations
        /\ u.requests = c.requests /\ u.cache = c.cache /\ u.tally = c.tally
    BY <2>2, CountShows
  <2> HIDE DEF u
  <2>4. /\ HasFields(s)
        /\ s.hearts = [g \in Games |-> IF u.hearts[g] = "none" THEN "none"
                                     ELSE Heart(ToSet(new["favorites"]), g)]
        /\ s.page = u.page /\ s.badge = u.badge /\ s.shown = u.shown /\ s.hydrations = u.hydrations
        /\ s.requests = u.requests /\ s.cache = u.cache /\ s.tally = u.tally
    BY <2>3, SyncRight
  <2> HIDE DEF s
  <2>. QED BY <2>1, <2>2, <2>3, <2>4
<1>4. e.hearts \in [Games -> {"none", "on", "off"}]
  <2>1. CASE saved /\ key = "favorites" BY <1>3, <2>1 DEF Heart
  <2>2. CASE ~(saved /\ key = "favorites") BY <1>3, <2>2 DEF Sound, TabTyped
  <2>. QED BY <2>1, <2>2
<1>5. TabTyped(e, t) BY <1>3, <1>4 DEF Sound, TabTyped
<1>6. RequestsRight(e, cat) BY <1>3 DEF Sound, RequestsRight
<1>7. CacheRight(e) BY <1>3, NothingIs DEF CacheRight
<1>8. HydrationsRight(H, e, t) BY <1>3, Zenon DEF Sound, HydrationsRight
<1>9. StatsCovered(e, H) BY <1>3 DEF Sound, StatsCovered
<1>10. Sound(e, H, t, cat) BY <1>5, <1>6, <1>7, <1>8, <1>9 DEF Sound
<1>11. lists \in [Keys -> Seq(Games)] /\ lists[key] \in Seq(Games) /\ "favorites" \in Keys
  BY DEF ListsTyped, Keys
<1>12. /\ Without(lists[key], gone) \in Seq(Games)
       /\ ToSet(Without(lists[key], gone)) = ToSet(lists[key]) \ gone
       /\ Len(Without(lists[key], gone)) <= Len(lists[key])
       /\ NoRepeats(lists[key]) => NoRepeats(Without(lists[key], gone))
  BY <1>11, WithoutRight
<1>13. saved => /\ new \in [Keys -> Seq(Games)] /\ new[key] = Without(lists[key], gone)
                /\ \A k \in Keys : k # key => new[k] = lists[k]
  BY <1>2, <1>11, <1>12
<1>14. ListsTyped(new)
  <2>1. CASE saved
    <3>1. \A k \in Keys : NoRepeats(new[k]) BY <1>12, <1>13, <2>1 DEF ListsTyped
    <3>2. Len(new["played"]) <= RecentLimit
      <4>1. CASE key = "played"
        <5>0. lists[key] \in Seq(Games) /\ new[key] \in Seq(Games) BY <1>11, <1>13, <2>1
        <5>1. Len(lists[key]) \in Nat /\ Len(new[key]) \in Nat BY <5>0, LenProperties
        <5>2. Len(lists[key]) <= RecentLimit BY <4>1 DEF ListsTyped
        <5>3. Len(new[key]) <= Len(lists[key]) BY <1>12, <1>13, <2>1
        <5>. QED BY <4>1, <5>1, <5>2, <5>3
      <4>2. CASE key # "played" BY <1>13, <2>1, <4>2 DEF ListsTyped, Keys
      <4>. QED BY <4>1, <4>2
    <3>. QED BY <1>13, <2>1, <3>1, <3>2 DEF ListsTyped
  <2>2. CASE ~saved BY <1>2, <2>2
  <2>. QED BY <2>1, <2>2
<1>15. Thinned(lists, new, cat)
  <2>1. CASE saved BY <1>12, <1>13, <2>1 DEF Thinned, Apart
  <2>2. CASE ~saved BY <1>2, <2>2 DEF Thinned
  <2>. QED BY <2>1, <2>2
<1>16. ASSUME Truth(d, lists, H, t, cat, {}) PROVE Truth(e, new, H, t, cat, {})
  <2>1. e.badge = Cardinality(ToSet(new["favorites"]))
    <3>1. CASE saved /\ key = "favorites" BY <1>3, <3>1
    <3>2. CASE ~(saved /\ key = "favorites")
      <4>1. new["favorites"] = lists["favorites"] BY <1>2, <1>11, <1>13, <3>2
      <4>. QED BY <1>3, <1>16, <3>2, <4>1 DEF Truth
    <3>. QED BY <3>1, <3>2
  <2>2. HeartsTrue(d, lists, cat) => HeartsTrue(e, new, cat)
    <3>1. CASE saved /\ key = "favorites" BY <1>3, <3>1 DEF HeartsTrue
    <3>2. CASE ~(saved /\ key = "favorites")
      <4>1. new["favorites"] = lists["favorites"] BY <1>2, <1>11, <1>13, <3>2
      <4>. QED BY <1>3, <3>2, <4>1 DEF HeartsTrue
    <3>. QED BY <3>1, <3>2
  <2>3. HydrationsRight(H, d, t) /\ TabTyped(d, t) /\ StatsCovered(d, H) BY DEF Sound
  <2>4. e.shown = d.shown /\ e.tally = d.tally BY <1>3
  <2>. QED BY <1>15, <1>16, <2>1, <2>2, <2>3, <2>4, TruthOfThinned
<1>. QED BY <1>3, <1>10, <1>14, <1>15, <1>16 DEF Carried

(* What drawing V of the hydrations H makes of a tab and the lists.        *)
Went(from, H, V, o, t, cat) ==
  /\ o = [tab |-> o.tab, lists |-> o.lists]
  /\ Carried(from.tab, from.lists, H, o.tab, o.lists, H \ V, t, cat)
  /\ (\A h \in V : Quiet(h, from.tab.requests)) => o.lists = from.lists
  /\ (\A h \in V : ToSet(h.ids) = {}) => HeartsLeft(from.tab, o.tab)

(* One list that has come: pruned, then drawn.                             *)
LEMMA HydrateRight ==
  ASSUME NEW from, NEW t, NEW cat \in SUBSET Games, NEW H, Sound(from.tab, H, t, cat), NEW h \in H,
         ListsTyped(from.lists), ContinueLimit \in Nat, RecentLimit \in Nat, NEW saved \in BOOLEAN,
         NEW o, o = Hydrate(h, from, saved)
  PROVE  Went(from, H, {h}, o, t, cat)
<1> DEFINE d == from.tab
           complete == \A n \in h.waits : d.requests[n].state = "answered"
           gone == ToSet(h.ids) \ UNION {d.requests[n].found : n \in h.waits}
           prune == complete /\ gone # {}
           lists == IF prune /\ saved THEN [from.lists EXCEPT ![h.key] = Pruned(h, gone, from.lists)]
                    ELSE from.lists
           favorites == ToSet(lists["favorites"])
           spared == IF prune THEN [d EXCEPT !.cache = Nothing] ELSE d
           synced == IF prune /\ saved /\ h.key = "favorites"
                     THEN SyncFavoriteButtons(UpdateFavoritesCount(spared, favorites), favorites)
                     ELSE spared
<1>1. o = [tab |-> Draw(synced, h, complete), lists |-> lists] BY DEF Hydrate
<1>2. h.key \in Keys BY DEF Sound, HydrationsRight
<1>3. complete => gone \cap cat = {}
  <2>1. /\ ToSet(Found(d, h)) = ToSet(h.ids) \cap UNION {d.requests[n].found : n \in h.waits}
        /\ complete => ToSet(Found(d, h)) \cap cat = ToSet(h.ids) \cap cat
    BY FoundRight
  <2>. QED BY <2>1
<1>4. prune => gone \cap cat = {} BY <1>3
<1>5. Quiet(h, d.requests) => ~prune BY DEF Quiet
<1>6. ToSet(h.ids) = {} => ~prune OBVIOUS
<1>7. lists = IF prune /\ saved
              THEN [from.lists EXCEPT ![h.key] = Without(from.lists[h.key], gone)] ELSE from.lists
  BY DEF Pruned
<1> HIDE DEF gone, prune, lists
<1>9. /\ Carried(d, from.lists, H, synced, lists, H, t, cat)
      /\ ~prune => synced = d /\ lists = from.lists
  <2>1. CASE ~prune
    <3>1. Thinned(from.lists, from.lists, cat) BY ThinnedSame
    <3>2. synced = d /\ lists = from.lists BY <1>7, <2>1
    <3>. QED BY <3>1, <3>2 DEF Carried
  <2>2. CASE prune
    <3>1. lists = Lighter(from.lists, h.key, gone, saved) BY <1>7, <2>2 DEF Lighter
    <3>2. synced = Synced(d, h.key, ToSet(lists["favorites"]), saved) BY <2>2 DEF Synced
    <3>3. Apart(gone, cat) BY <1>4, <2>2 DEF Apart
    <3> HIDE DEF spared, synced
    <3>4. Sound(d, H, t, cat) OBVIOUS
    <3> HIDE DEF d
    <3>5. Carried(d, from.lists, H, synced, lists, H, t, cat)
      BY <1>2, <3>1, <3>2, <3>3, <3>4, PruneRight
    <3>. QED BY <2>2, <3>5
  <2>. QED BY <2>1, <2>2
<1> HIDE DEF synced
<1>10. o.tab = Draw(synced, h, complete) /\ o.lists = lists BY <1>1
<1>11. /\ complete <=> \A n \in h.waits : synced.requests[n].state = "answered"
       /\ Sound(synced, H, t, cat) /\ ListsTyped(lists)
  BY <1>9 DEF Carried
<1>12. /\ Carried(synced, lists, H, o.tab, lists, H \ {h}, t, cat)
       /\ ToSet(h.ids) = {} => HeartsLeft(synced, o.tab)
  <2>1. PICK c \in BOOLEAN : c = complete OBVIOUS
  <2>2. o.tab = Draw(synced, h, c) BY <1>10, <2>1
  <2>3. c <=> \A n \in h.waits : synced.requests[n].state = "answered" BY <1>11, <2>1
  <2> HIDE DEF complete
  <2>. QED BY <1>11, <2>2, <2>3, DrawRight
<1>13. Carried(from.tab, from.lists, H, o.tab, o.lists, H \ {h}, t, cat)
  BY <1>9, <1>10, <1>12 DEF Carried, Thinned
<1>14. o = [tab |-> o.tab, lists |-> o.lists] BY <1>1
<1>. QED BY <1>5, <1>6, <1>9, <1>10, <1>12, <1>13, <1>14 DEF Went

-----------------------------------------------------------------------------
(* All that has come *)

(* Steps that carry the truth make one that does.                          *)
LEMMA CarriedOn ==
  ASSUME NEW d, NEW old, NEW H, NEW e, NEW mid, NEW I, NEW f, NEW new, NEW J, NEW t, NEW cat,
         Carried(d, old, H, e, mid, I, t, cat), Carried(e, mid, I, f, new, J, t, cat)
  PROVE  Carried(d, old, H, f, new, J, t, cat)
<1>1. Thinned(old, new, cat) BY DEF Carried, Thinned
<1>. QED BY <1>1 DEF Carried

(* The element FoldSet takes next.                                         *)
Picked(s) == CHOOSE x \in s : TRUE

(* it solves the recursion of Settle's fold below V *)
Runs(it, V, base, saved) ==
  it = [s \in SUBSET V |-> IF s = {} THEN base ELSE Hydrate(Picked(s), it[s \ {Picked(s)}], saved)]

(* What Settle does with all that is ready.                                *)
HydrateAll(base, V, saved) == FoldSet(LAMBDA h, from : Hydrate(h, from, saved), base, V)

(* FoldSet is the last value of a function that solves its recursion.      *)
LEMMA FoldIs ==
  ASSUME NEW V, NEW base, NEW saved
  PROVE  HydrateAll(base, V, saved) = (CHOOSE it : Runs(it, V, base, saved))[V]
  BY Zenon DEF HydrateAll, FoldSet, MapThenFoldSet, Runs, Picked

(* It is one of the set.                                                   *)
LEMMA PickedIn == \A s : s # {} => Picked(s) \in s
  BY DEF Picked

(* What a solution gives on one set.                                       *)
LEMMA RunsStep ==
  ASSUME NEW V, NEW base, NEW saved, NEW it, Runs(it, V, base, saved), NEW s \in SUBSET V
  PROVE  it[s] = IF s = {} THEN base ELSE Hydrate(Picked(s), it[s \ {Picked(s)}], saved)
  BY DEF Runs

(* What it gives on the empty one.                                         *)
LEMMA RunsNone ==
  ASSUME NEW V, NEW base, NEW saved, NEW it, Runs(it, V, base, saved)
  PROVE  it[{}] = base
  BY DEF Runs

(* Two solutions agree on a finite set, whatever sets they are defined on. *)
LEMMA RunsUnique ==
  ASSUME NEW V, NEW U \in SUBSET V, NEW base, NEW saved, NEW f, NEW g, IsFiniteSet(U),
         Runs(f, V, base, saved), Runs(g, U, base, saved)
  PROVE  f[U] = g[U]
<1> DEFINE Bad == {s \in SUBSET U : f[s] # g[s]}
<1>2. SUFFICES ASSUME Bad # {} PROVE FALSE OBVIOUS
<1>3. PICK s \in Bad : \A u \in Bad : u \subseteq s => u = s
  <2>1. Bad \in SUBSET SUBSET U OBVIOUS
  <2> HIDE DEF Bad
  <2>. QED BY <1>2, <2>1, LeastSet
<1>4. s # {} BY <1>3, RunsNone
<1>5. s \ {Picked(s)} \in SUBSET U /\ s \ {Picked(s)} \notin Bad BY <1>3, <1>4, PickedIn
<1>. QED BY <1>3, <1>4, <1>5, RunsStep

(* A finite set has a solution.                                            *)
LEMMA RunsExist ==
  ASSUME NEW V, IsFiniteSet(V), NEW base, NEW saved
  PROVE  \E it : Runs(it, V, base, saved)
<1> DEFINE Bad == {s \in SUBSET V : ~ \E it : Runs(it, s, base, saved)}
<1>1. SUFFICES ASSUME Bad # {} PROVE FALSE OBVIOUS
<1>2. PICK U \in Bad : \A u \in Bad : u \subseteq U => u = U
  <2>1. Bad \in SUBSET SUBSET V OBVIOUS
  <2> HIDE DEF Bad
  <2>. QED BY <1>1, <2>1, LeastSet
<1> DEFINE Of(s) == CHOOSE it : Runs(it, s, base, saved)
<1>3. ASSUME NEW s \in SUBSET U, s # U PROVE Runs(Of(s), s, base, saved)
  <2>1. \E it : Runs(it, s, base, saved) BY <1>2, <1>3
  <2>. QED BY <2>1
<1> HIDE DEF Of
<1> DEFINE it == [s \in SUBSET U |-> IF s = {} THEN base
                  ELSE Hydrate(Picked(s), Of(s \ {Picked(s)})[s \ {Picked(s)}], saved)]
<1>4. ASSUME NEW s \in SUBSET U, s # U PROVE Of(s)[s] = it[s]
  <2>1. CASE s = {} BY <1>3, <1>4, <2>1, RunsStep
  <2>2. CASE s # {}
    <3> DEFINE r == s \ {Picked(s)}
    <3>1. r \in SUBSET s /\ r \in SUBSET U /\ r # U BY <2>2, PickedIn
    <3>2. Of(s)[s] = Hydrate(Picked(s), Of(s)[r], saved) BY <1>3, <1>4, <2>2, RunsStep
    <3>3. IsFiniteSet(r) BY <3>1, FS_Subset
    <3>4. Of(s)[r] = Of(r)[r] BY <1>3, <1>4, <3>1, <3>3, RunsUnique
    <3>. QED BY <2>2, <3>2, <3>4
  <2>. QED BY <2>1, <2>2
<1>5. ASSUME NEW s \in SUBSET U
      PROVE  it[s] = IF s = {} THEN base ELSE Hydrate(Picked(s), it[s \ {Picked(s)}], saved)
  <2>1. CASE s = {} BY <2>1
  <2>2. CASE s # {}
    <3>1. s \ {Picked(s)} \in SUBSET U /\ s \ {Picked(s)} # U BY <2>2, PickedIn
    <3>. QED BY <1>4, <2>2, <3>1
  <2>. QED BY <2>1, <2>2
<1>6. Runs(it, U, base, saved) BY <1>5 DEF Runs
<1>. QED BY <1>2, <1>6

(* In whatever order they are drawn. *)
LEMMA RunRight ==
  ASSUME NEW base, NEW t, NEW cat \in SUBSET Games, NEW H, Sound(base.tab, H, t, cat),
         ListsTyped(base.lists), ContinueLimit \in Nat, RecentLimit \in Nat, NEW saved \in BOOLEAN,
         NEW V \in SUBSET H, IsFiniteSet(V), base = [tab |-> base.tab, lists |-> base.lists],
         NEW end, end = HydrateAll(base, V, saved)
  PROVE  Went(base, H, V, end, t, cat)
<1>1. PICK it : Runs(it, V, base, saved) /\ end = it[V]
  <2>1. \E it : Runs(it, V, base, saved) BY RunsExist
  <2>2. Runs((CHOOSE it : Runs(it, V, base, saved)), V, base, saved) BY <2>1
  <2>. QED BY <2>2, FoldIs
<1> DEFINE Right(s) ==
             /\ Carried(base.tab, base.lists, H, it[s].tab, it[s].lists, H \ s, t, cat)
             /\ (\A h \in s : Quiet(h, base.tab.requests)) => it[s].lists = base.lists
             /\ (\A h \in s : ToSet(h.ids) = {}) => HeartsLeft(base.tab, it[s].tab)
           Bad == {s \in SUBSET V : ~Right(s)}
<1>2. ASSUME Bad # {} PROVE FALSE
  <2>1. PICK s \in Bad : \A u \in Bad : u \subseteq s => u = s
    <3>1. Bad \in SUBSET SUBSET V OBVIOUS
    <3> HIDE DEF Bad
    <3>. QED BY <1>2, <3>1, LeastSet
  <2>2. CASE s = {}
    <3>1. it[s] = base /\ H \ s = H BY <1>1, <2>2, RunsNone
    <3>2. Right(s) BY <2>2, <3>1, ThinnedSame DEF Carried, HeartsLeft
    <3>. QED BY <2>1, <3>2
  <2>3. CASE s # {}
    <3> DEFINE h == Picked(s)
               u == s \ {h}
    <3>1. h \in s /\ u \in SUBSET V /\ u # s /\ u \subseteq s BY <2>1, <2>3, PickedIn
    <3>2. Right(u) BY <2>1, <3>1
    <3>3. it[s] = Hydrate(h, it[u], saved) BY <1>1, <2>1, <2>3, RunsStep
    <3>4. h \in H \ u /\ (H \ u) \ {h} = H \ s BY <2>1, <3>1
    <3>5. s = u \cup {h} BY <3>1
    <3> HIDE DEF h, u
    <3>6. /\ Sound(it[u].tab, H \ u, t, cat) /\ ListsTyped(it[u].lists)
          /\ it[u].tab.requests = base.tab.requests
      BY <3>2 DEF Carried
    <3>7. Went(it[u], H \ u, {h}, it[s], t, cat) BY <3>3, <3>4, <3>6, HydrateRight
    <3>8. Carried(base.tab, base.lists, H, it[s].tab, it[s].lists, H \ s, t, cat)
      BY <3>2, <3>4, <3>7, CarriedOn DEF Went
    <3>9. (\A x \in s : Quiet(x, base.tab.requests)) => it[s].lists = base.lists
      BY <3>2, <3>5, <3>6, <3>7 DEF Went
    <3>10. (\A x \in s : ToSet(x.ids) = {}) => HeartsLeft(base.tab, it[s].tab)
      BY <3>2, <3>5, <3>7 DEF HeartsLeft, Went
    <3>. QED BY <2>1, <3>8, <3>9, <3>10
  <2>. QED BY <2>2, <2>3
<1>3. Right(V)
  <2>1. V \in SUBSET V OBVIOUS
  <2> HIDE DEF Right
  <2>. QED BY <1>2, <2>1
<1>4. end = [tab |-> end.tab, lists |-> end.lists]
  <2>1. CASE V = {}
    <3>1. it[V] = base BY <1>1, <2>1, RunsNone
    <3>. QED BY <1>1, <3>1
  <2>2. CASE V # {}
    <3>1. end = Hydrate(Picked(V), it[V \ {Picked(V)}], saved)
      <4>1. V \in SUBSET V OBVIOUS
      <4>. QED BY <1>1, <2>2, <4>1, RunsStep
    <3>2. ASSUME NEW h, NEW from
          PROVE  Hydrate(h, from, saved) = [tab |-> Hydrate(h, from, saved).tab,
                                          lists |-> Hydrate(h, from, saved).lists]
      BY DEF Hydrate
    <3>. QED BY <3>1, <3>2
  <2>. QED BY <2>1, <2>2
<1>. QED BY <1>1, <1>3, <1>4 DEF Went

(* A tab that has drawn all that has come waits for the rest. *)
Followed(d, old, e, new, t, cat) ==
  /\ Sound(e, e.hydrations, t, cat) /\ Waits(e)
  /\ e.page = d.page
  /\ ListsTyped(new) /\ Thinned(old, new, cat)
  /\ Truth(d, old, d.hydrations, t, cat, {}) => Truth(e, new, e.hydrations, t, cat, {})

(* A hydration with a request that is still out.                           *)
Out(h, requests) == \E n \in h.waits : requests[n].state = "sent"

(* What a turn of the event loop makes of a tab and the lists: all is      *)
(* drawn that has come, nothing is lost that the server has, and nothing   *)
(* at all if no answer prunes.                                             *)
Settles(d, lists, end, t, cat) ==
  /\ Followed(d, lists, end.tab, end.lists, t, cat)
  /\ (\A h \in d.hydrations : Out(h, d.requests) \/ Quiet(h, d.requests)) => end.lists = lists
  /\ (\A h \in d.hydrations : Out(h, d.requests) \/ ToSet(h.ids) = {}) => HeartsLeft(d, end.tab)

(* Settle does that.                                                       *)
LEMMA SettleRight ==
  ASSUME NEW d, NEW t, NEW cat \in SUBSET Games, Sound(d, d.hydrations, t, cat), NEW lists,
         ListsTyped(lists), ContinueLimit \in Nat, RecentLimit \in Nat, NEW saved \in BOOLEAN,
         NEW end, end = Settle(d, lists, saved)
  PROVE  Settles(d, lists, end, t, cat)
<1> DEFINE H == d.hydrations
           ready == {h \in d.hydrations : \A n \in h.waits : d.requests[n].state # "sent"}
           c == [d EXCEPT !.hydrations = @ \ ready]
           base == [tab |-> c, lists |-> lists]
           run == HydrateAll(base, ready, saved)
<1>1. end = [run EXCEPT !.tab = Tidy(@)] BY Zenon DEF Settle, HydrateAll
<1>2. HasFields(d) BY DEF Sound, TabTyped
<1>3. /\ HasFields(c)
      /\ c.page = d.page /\ c.hearts = d.hearts /\ c.badge = d.badge /\ c.shown = d.shown
      /\ c.hydrations = H \ ready /\ c.requests = d.requests /\ c.cache = d.cache
      /\ c.tally = d.tally
  BY <1>2 DEF HasFields
<1>4. base.tab = c /\ base.lists = lists OBVIOUS
<1>5. ready \in SUBSET H /\ \A h \in H : h \in ready <=> ~Out(h, d.requests) BY DEF Out
<1> HIDE DEF c, base, ready
<1>6. IsFiniteSet(ready)
  <2>1. IsFiniteSet(H) BY DEF Sound, HydrationsRight
  <2>. QED BY <1>5, <2>1, FS_Subset
<1>7. base = [tab |-> base.tab, lists |-> base.lists] BY DEF base
<1>8. Sound(base.tab, H, t, cat)
  <2>1. TabTyped(c, t) BY <1>3 DEF Sound, TabTyped
  <2>2. RequestsRight(c, cat) BY <1>3 DEF Sound, RequestsRight
  <2>3. CacheRight(c) BY <1>3 DEF Sound, CacheRight
  <2>4. HydrationsRight(H, c, t) BY <1>3, Zenon DEF Sound, HydrationsRight
  <2>5. StatsCovered(c, H) BY <1>3 DEF Sound, StatsCovered
  <2>. QED BY <1>4, <2>1, <2>2, <2>3, <2>4, <2>5 DEF Sound
<1>9. Went(base, H, ready, run, t, cat) BY <1>4, <1>5, <1>6, <1>7, <1>8, RunRight
<1> HIDE DEF run
<1>10. end.tab = Tidy(run.tab) /\ end.lists = run.lists BY <1>1, <1>9 DEF Went
<1> DEFINE r == run.tab
<1>11. /\ Sound(r, r.hydrations, t, cat) /\ r.hydrations = H \ ready /\ r.requests = d.requests
       /\ r.page = d.page
       /\ ListsTyped(run.lists) /\ Thinned(lists, run.lists, cat)
  BY <1>3, <1>4, <1>9 DEF Carried, Went
<1>12. Truth(d, lists, d.hydrations, t, cat, {}) => Truth(r, run.lists, r.hydrations, t, cat, {})
  <2>1. ASSUME Truth(d, lists, d.hydrations, t, cat, {}) PROVE Truth(c, lists, H, t, cat, {})
    <3>1. HeartsTrue(d, lists, cat) => HeartsTrue(c, lists, cat) BY <1>3 DEF HeartsTrue
    <3>2. HydrationsRight(H, d, t) /\ TabTyped(d, t) /\ StatsCovered(d, H) BY DEF Sound
    <3>3. c.badge = Cardinality(ToSet(lists["favorites"])) BY <1>3, <2>1 DEF Truth
    <3>. QED BY <1>3, <2>1, <3>1, <3>2, <3>3, ThinnedSame, TruthOfThinned
  <2>. QED BY <1>4, <1>9, <1>11, <2>1 DEF Carried, Went
<1> HIDE DEF r
<1>13. /\ Sound(Tidy(r), Tidy(r).hydrations, t, cat)
       /\ Tidy(r).page = r.page /\ Tidy(r).hearts = r.hearts /\ Tidy(r).badge = r.badge
       /\ Tidy(r).shown = r.shown /\ Tidy(r).hydrations = r.hydrations
       /\ Tidy(r).cache = r.cache /\ Tidy(r).tally = r.tally
       /\ \A n \in DOMAIN Tidy(r).requests : /\ n \in DOMAIN r.requests
                                              /\ Tidy(r).requests[n] = r.requests[n]
       /\ \A h \in r.hydrations : h.waits \subseteq DOMAIN Tidy(r).requests
  BY <1>11, TidyRight
<1>14. end.tab = Tidy(r) BY <1>10 DEF r
<1>15. Waits(end.tab)
  <2> SUFFICES ASSUME NEW h \in end.tab.hydrations
               PROVE \E n \in h.waits : end.tab.requests[n].state = "sent"
    BY DEF Waits
  <2>1. h \in H \ ready /\ h \in r.hydrations BY <1>11, <1>13, <1>14
  <2>2. PICK n \in h.waits : d.requests[n].state = "sent" BY <1>5, <2>1 DEF Out
  <2>. QED BY <1>11, <1>13, <1>14, <2>1, <2>2
<1>16. Truth(r, run.lists, r.hydrations, t, cat, {}) =>
         Truth(end.tab, run.lists, end.tab.hydrations, t, cat, {})
  <2>1. SUFFICES ASSUME Truth(r, run.lists, r.hydrations, t, cat, {})
                 PROVE  Truth(end.tab, run.lists, r.hydrations, t, cat, {})
    BY <1>13, <1>14
  <2>2. HeartsTrue(r, run.lists, cat) => HeartsTrue(end.tab, run.lists, cat)
    BY <1>13, <1>14 DEF HeartsTrue
  <2>3. HydrationsRight(r.hydrations, r, t) /\ TabTyped(r, t) /\ StatsCovered(r, r.hydrations)
    BY <1>11 DEF Sound
  <2>4. end.tab.badge = Cardinality(ToSet(run.lists["favorites"])) BY <1>13, <1>14, <2>1 DEF Truth
  <2>5. end.tab.shown = r.shown /\ end.tab.tally = r.tally BY <1>13, <1>14
  <2>. QED BY <2>1, <2>2, <2>3, <2>4, <2>5, ThinnedSame, TruthOfThinned
<1>17. Followed(d, lists, end.tab, end.lists, t, cat)
  BY <1>10, <1>11, <1>12, <1>13, <1>14, <1>15, <1>16 DEF Followed
<1>18. (\A h \in H : Out(h, d.requests) \/ Quiet(h, d.requests)) => end.lists = lists
  BY <1>3, <1>4, <1>5, <1>9, <1>10 DEF Went
<1>19. (\A h \in H : Out(h, d.requests) \/ ToSet(h.ids) = {}) => HeartsLeft(d, end.tab)
  BY <1>3, <1>4, <1>5, <1>9, <1>13, <1>14 DEF HeartsLeft, r, Went
<1>. QED BY <1>17, <1>18, <1>19 DEF Settles

-----------------------------------------------------------------------------
(* A page drawn anew *)

(* A tab whose hearts, number and page alone have changed.                 *)
LEMMA SoundOf ==
  ASSUME NEW d, NEW H, NEW t, NEW cat, Sound(d, H, t, cat), NEW e, HasFields(e),
         e.shown = d.shown, e.requests = d.requests, e.cache = d.cache, e.tally = d.tally,
         e.hearts \in [Games -> {"none", "on", "off"}]
  PROVE  Sound(e, H, t, cat)
<1>1. TabTyped(e, t) BY DEF Sound, TabTyped
<1>2. RequestsRight(e, cat) BY DEF Sound, RequestsRight
<1>3. CacheRight(e) BY DEF Sound, CacheRight
<1>4. HydrationsRight(H, e, t) BY Zenon DEF Sound, HydrationsRight
<1>5. StatsCovered(e, H) BY DEF Sound, StatsCovered
<1>. QED BY <1>1, <1>2, <1>3, <1>4, <1>5 DEF Sound

(* A tab that shows what the lists are, and waits for the rest. *)
Redrawn(d, r, lists, t, cat) ==
  /\ Sound(r, r.hydrations, t, cat)
  /\ r.page = d.page
  /\ Truth(r, lists, r.hydrations, t, cat, {})
  /\ \A h \in r.hydrations : Out(h, r.requests) \/ ToSet(h.ids) = {}

(* RedrawFromStorage does that: whatever the tab showed, what it is about  *)
(* to show is true.                                                        *)
LEMMA RedrawRight ==
  ASSUME NEW d, NEW t, NEW cat \in SUBSET Games, Sound(d, d.hydrations, t, cat), Waits(d),
         BatchSize \in Nat \ {0}, NEW lists, ListsTyped(lists),
         NEW r, r = RedrawFromStorage(d, t, lists)
  PROVE  Redrawn(d, r, lists, t, cat)
<1> DEFINE favorites == ToSet(lists["favorites"])
           e == InvalidateCollectionCache(d)
           s == SyncFavoriteButtons(e, favorites)
           u == UpdateFavoritesCount(s, favorites)
<1>1. r = Render(u, Containers(t), lists) BY DEF RedrawFromStorage
<1>2. /\ Sound(e, e.hydrations, t, cat) /\ Waits(e)
      /\ e.page = d.page /\ DOMAIN e.cache = {}
  BY InvalidateRight DEF Invalidated
<1> HIDE DEF e
<1>3. HasFields(e) /\ e.hearts \in [Games -> {"none", "on", "off"}] BY <1>2 DEF Sound, TabTyped
<1>4. /\ HasFields(s)
      /\ s.hearts = [g \in Games |-> IF e.hearts[g] = "none" THEN "none" ELSE Heart(favorites, g)]
      /\ s.page = e.page /\ s.badge = e.badge /\ s.shown = e.shown /\ s.hydrations = e.hydrations
      /\ s.requests = e.requests /\ s.cache = e.cache /\ s.tally = e.tally
  BY <1>3, SyncRight
<1> HIDE DEF s
<1>5. /\ HasFields(u) /\ u.badge = Cardinality(favorites)
      /\ u.page = s.page /\ u.hearts = s.hearts /\ u.shown = s.shown /\ u.hydrations = s.hydrations
      /\ u.requests = s.requests /\ u.cache = s.cache /\ u.tally = s.tally
  BY <1>4, CountShows
<1> HIDE DEF u
<1>6. u.hearts \in [Games -> {"none", "on", "off"}] BY <1>4, <1>5 DEF Heart
<1>7. Sound(u, e.hydrations, t, cat) BY <1>2, <1>4, <1>5, <1>6, SoundOf
<1>8. HeartsTrue(u, lists, cat) BY <1>4, <1>5 DEF HeartsTrue
<1>9. Truth(u, lists, u.hydrations, t, cat, Containers(t))
  <2>1. \A h \in u.hydrations : h.where \in Containers(t) \cup {"superseded"}
    BY <1>4, <1>5, <1>7 DEF Sound, HydrationsRight
  <2>. QED BY <1>5, <1>8, <2>1 DEF Truth
<1>10. Waits(u) /\ DOMAIN u.cache = {} BY <1>2, <1>4, <1>5 DEF Waits
<1>11. lists \in [Keys -> Seq(Games)] BY DEF ListsTyped
<1>12. Sound(u, u.hydrations, t, cat) /\ Containers(t) \in SUBSET Containers(t) BY <1>4, <1>5, <1>7
<1>13. Rendered(u, Containers(t), r, lists, t, cat) BY <1>1, <1>11, <1>12, RenderRight
<1>. QED BY <1>2, <1>4, <1>5, <1>9, <1>10, <1>13 DEF Redrawn, Out, Rendered

(* ... and settles at once. *)
ShownAnew(d, end, lists, t, cat) ==
  /\ Sound(end.tab, end.tab.hydrations, t, cat) /\ Waits(end.tab)
  /\ end.tab.page = d.page
  /\ end.lists = lists
  /\ Truth(end.tab, lists, end.tab.hydrations, t, cat, {})

(* A redraw and the turn after it.                                         *)
LEMMA RedrawnRight ==
  ASSUME NEW d, NEW t, NEW cat \in SUBSET Games, Sound(d, d.hydrations, t, cat), Waits(d),
         BatchSize \in Nat \ {0}, ContinueLimit \in Nat, RecentLimit \in Nat,
         NEW lists, ListsTyped(lists), NEW saved \in BOOLEAN,
         NEW end, end = Settle(RedrawFromStorage(d, t, lists), lists, saved)
  PROVE  ShownAnew(d, end, lists, t, cat)
<1> DEFINE r == RedrawFromStorage(d, t, lists)
<1>1. Redrawn(d, r, lists, t, cat) BY RedrawRight
<1>2. end = Settle(r, lists, saved) OBVIOUS
<1> HIDE DEF r
<1>3. Settles(r, lists, end, t, cat) BY <1>1, <1>2, SettleRight DEF Redrawn
<1>4. \A h \in r.hydrations : Out(h, r.requests) \/ Quiet(h, r.requests) BY <1>1 DEF Redrawn, Quiet
<1>. QED BY <1>1, <1>3, <1>4 DEF Redrawn, Settles, Followed, ShownAnew

(* A page just opened.                                                     *)
LEMMA FreshRight ==
  ASSUME NEW t, NEW cat
  PROVE  Sound(Fresh(t), Fresh(t).hydrations, t, cat) /\ Waits(Fresh(t)) /\ Fresh(t).page = "open"
<1> DEFINE d == Fresh(t)
<1>1. /\ HasFields(d)
      /\ d.page = "open" /\ d.hearts = [g \in Games |-> IF t \in Profile THEN "none" ELSE "off"]
      /\ d.shown = [w \in Containers(t) |-> IF w = "stats" THEN Nothing ELSE Blank]
      /\ d.hydrations = {} /\ d.requests = Nothing /\ d.cache = Nothing /\ d.tally = Nothing
  BY DEF Fresh, HasFields
<1> HIDE DEF d
<1>2. d.hearts \in [Games -> {"none", "on", "off"}] BY <1>1
<1>3. DOMAIN d.shown = Containers(t) BY <1>1
<1>4. t \notin Profile => d.shown["strip"] = [state |-> "blank", games |-> d.shown["strip"].games]
  <2>1. t \notin Profile => d.shown["strip"] = Blank BY <1>1 DEF Containers
  <2>. QED BY <2>1 DEF Blank
<1>5. t \in Profile => DOMAIN d.shown["stats"] \subseteq Keys
  <2>1. t \in Profile => d.shown["stats"] = Nothing BY <1>1 DEF Containers
  <2>. QED BY <2>1, NothingIs
<1>6. TabTyped(d, t) BY <1>1, <1>2, <1>3, <1>4, <1>5 DEF TabTyped
<1>7. RequestsRight(d, cat) /\ CacheRight(d) BY <1>1, NothingIs DEF RequestsRight, CacheRight
<1>8. HydrationsRight({}, d, t) BY FS_EmptySet DEF HydrationsRight
<1>9. StatsCovered(d, {}) BY <1>1, NothingIs DEF StatsCovered, Pending
<1>. QED BY <1>1, <1>6, <1>7, <1>8, <1>9 DEF Sound, Waits, d

-----------------------------------------------------------------------------
(* The steps *)

(* The invariant at one tab.                                               *)
LEMMA FavInvAt ==
  ASSUME FavInv, NEW t \in Tabs
  PROVE  /\ catalogue \in SUBSET Games /\ ListsTyped(stored) /\ DOMAIN tab = Tabs
         /\ Sound(tab[t], tab[t].hydrations, t, catalogue) /\ Waits(tab[t])
         /\ HasFields(tab[t]) /\ tab[t].hearts \in [Games -> {"none", "on", "off"}]
         /\ tab[t].page = "open" /\ t \notin news =>
              Truth(tab[t], stored, tab[t].hydrations, t, catalogue, {})
         /\ acts \in Nat /\ imports \in Nat
  BY DEF FavInv, Sound, TabTyped

(* A step of one tab: it is the others that hear of a changed list.        *)
LEMMA StepRight ==
  ASSUME FavInv, NEW t \in Tabs, NEW e, NEW new, catalogue' = catalogue, acts' \in Nat,
         imports' \in Nat,
         tab' = [tab EXCEPT ![t] = e], stored' = new, ListsTyped(new),
         Sound(e, e.hydrations, t, catalogue), Waits(e),
         e.page = "open" /\ t \notin news' => Truth(e, new, e.hydrations, t, catalogue, {}),
         news \ {t} \subseteq news', new # stored => Tabs \ {t} \subseteq news'
  PROVE  FavInv'
<1>1. DOMAIN tab = Tabs /\ catalogue \subseteq Games BY DEF FavInv
<1>2. DOMAIN tab' = Tabs /\ tab'[t] = e /\ \A x \in Tabs \ {t} : tab'[x] = tab[x] BY <1>1
<1>3. ASSUME NEW x \in Tabs
      PROVE  /\ Sound(tab'[x], tab'[x].hydrations, x, catalogue)
             /\ Waits(tab'[x])
             /\ tab'[x].page = "open" /\ x \notin news' =>
                  Truth(tab'[x], new, tab'[x].hydrations, x, catalogue, {})
  <2>1. CASE x = t BY <1>2, <2>1
  <2>2. CASE x # t
    <3>1. tab'[x] = tab[x] BY <1>2, <2>2
    <3>2. x \notin news' => x \notin news /\ new = stored BY <2>2
    <3>. QED BY <3>1, <3>2, FavInvAt
  <2>. QED BY <2>1, <2>2
<1>. QED BY <1>1, <1>2, <1>3 DEF FavInv

(* What OnlyAskedFor says of a step.                                       *)
AskedFor ==
  /\ \A g \in Lost("favorites") \cap catalogue : Pressed(g, "on")
  /\ imports' = imports => \A g \in Gained("favorites") : Pressed(g, "off")
  /\ acts' = acts => \A k \in Keys : Lost(k) \cap catalogue = {} /\ Gained(k) = {}

(* A step that only thins the lists takes and brings nothing the server    *)
(* has.                                                                    *)
LEMMA NothingAsked ==
  ASSUME Thinned(stored, stored', catalogue)
  PROVE  AskedFor
<1>1. \A k \in Keys : Lost(k) \cap catalogue = {} /\ Gained(k) = {}
  BY DEF Thinned, Lost, Gained
<1>2. "favorites" \in Keys BY DEF Keys
<1>. QED BY <1>1, <1>2 DEF AskedFor

(* Who hears of a write.                                                   *)
LEMMA TellRight ==
  ASSUME NEW new, NEW t
  PROVE  news \subseteq Tell(new, t) /\ (new # stored => Tabs \ {t} \subseteq Tell(new, t))
  BY DEF Tell

(* The page drawn anew: Load, Return and Hear. *)
LEMMA AnewRight ==
  ASSUME FavInv, NEW t \in Tabs, NEW d, Sound(d, d.hydrations, t, catalogue), Waits(d),
         catalogue' = catalogue, acts' \in Nat, imports' \in Nat, news' \in {news, news \ {t}},
         Turn(t, RedrawFromStorage(d, t, stored), stored, TRUE)
  PROVE  FavInv' /\ AskedFor
<1> DEFINE end == Settle(RedrawFromStorage(d, t, stored), stored, TRUE)
<1>1. tab' = [tab EXCEPT ![t] = end.tab] /\ stored' = end.lists BY DEF Turn
<1>2. catalogue \in SUBSET Games /\ ListsTyped(stored) BY DEF FavInv
<1>3. ShownAnew(d, end, stored, t, catalogue)
  <2>1. TRUE \in BOOLEAN OBVIOUS
  <2>2. BatchSize \in Nat \ {0} /\ ContinueLimit \in Nat /\ RecentLimit \in Nat
    BY CollectionAssumption
  <2>. QED BY <1>2, <2>1, <2>2, RedrawnRight
<1> HIDE DEF end
<1>4. FavInv' BY <1>1, <1>2, <1>3, StepRight DEF ShownAnew
<1>5. AskedFor
  <2>1. stored' = stored BY <1>1, <1>3 DEF ShownAnew
  <2>. QED BY <2>1, ThinnedSame, NothingAsked
<1>. QED BY <1>4, <1>5

(* Load keeps the invariant, and loses and gains nothing.                  *)
LEMMA LoadRight ==
  ASSUME FavInv, NEW t \in Tabs, Load(t)
  PROVE  FavInv' /\ AskedFor
<1>1. Sound(Fresh(t), Fresh(t).hydrations, t, catalogue) /\ Waits(Fresh(t)) BY FreshRight
<1>2. acts \in Nat /\ imports \in Nat BY DEF FavInv
<1>. QED BY <1>1, <1>2, AnewRight DEF Load

(* Leaving a page and coming back to it change nothing else of it.         *)
LEMMA PageRight ==
  ASSUME FavInv, NEW t \in Tabs, NEW page, NEW d, d = [tab[t] EXCEPT !.page = page]
  PROVE  /\ Sound(d, d.hydrations, t, catalogue) /\ Waits(d) /\ d.page = page
<1>1. /\ HasFields(tab[t]) /\ Sound(tab[t], tab[t].hydrations, t, catalogue) /\ Waits(tab[t])
      /\ tab[t].hearts \in [Games -> {"none", "on", "off"}]
  BY FavInvAt
<1>2. /\ HasFields(d) /\ d.page = page
      /\ d.hearts = tab[t].hearts /\ d.badge = tab[t].badge /\ d.shown = tab[t].shown
      /\ d.hydrations = tab[t].hydrations /\ d.requests = tab[t].requests
      /\ d.cache = tab[t].cache /\ d.tally = tab[t].tally
  BY <1>1 DEF HasFields
<1>3. Sound(d, tab[t].hydrations, t, catalogue) BY <1>1, <1>2, SoundOf
<1>. QED BY <1>1, <1>2, <1>3 DEF Waits

(* Return, the same.                                                       *)
LEMMA ReturnRight ==
  ASSUME FavInv, NEW t \in Tabs, Return(t)
  PROVE  FavInv' /\ AskedFor
<1> DEFINE d == [tab[t] EXCEPT !.page = "open"]
<1>1. Sound(d, d.hydrations, t, catalogue) /\ Waits(d) BY PageRight
<1>2. acts \in Nat /\ imports \in Nat BY DEF FavInv
<1>3. Turn(t, RedrawFromStorage(d, t, stored), stored, TRUE) BY DEF Return
<1> HIDE DEF d
<1>. QED BY <1>1, <1>2, <1>3, AnewRight DEF Return

(* Hear, the same.                                                         *)
LEMMA HearRight ==
  ASSUME FavInv, NEW t \in Tabs, Hear(t)
  PROVE  FavInv' /\ AskedFor
<1>1. Sound(tab[t], tab[t].hydrations, t, catalogue) /\ Waits(tab[t]) BY FavInvAt
<1>2. acts \in Nat /\ imports \in Nat BY DEF FavInv
<1>. QED BY <1>1, <1>2, AnewRight DEF Hear

(* A game is played.  *)
LEMMA PrependedList ==
  ASSUME NEW X, NEW list \in Seq(X), NEW g \in X
  PROVE  /\ <<g>> \o list \in Seq(X)
         /\ ToSet(<<g>> \o list) = ToSet(list) \cup {g}
         /\ NoRepeats(list) /\ g \notin ToSet(list) => NoRepeats(<<g>> \o list)
<1> DEFINE longer == <<g>> \o list
<1>1. /\ longer \in Seq(X) /\ Len(longer) = Len(list) + 1 /\ longer[1] = g
      /\ \A i \in 2..(Len(list) + 1) : longer[i] = list[i - 1]
  <2>1. <<g>> \in Seq(X) /\ Len(<<g>>) = 1 /\ <<g>>[1] = g OBVIOUS
  <2>. QED BY <2>1, ConcatProperties
<1> HIDE DEF longer
<1>2. ToSet(longer) = {longer[i] : i \in 1..(Len(list) + 1)} BY <1>1, ToSetIs
<1>3. ToSet(list) = {list[i] : i \in 1..Len(list)} BY ToSetIs
<1>4. 1..(Len(list) + 1) = {1} \cup 2..(Len(list) + 1) OBVIOUS
<1>5. {longer[i] : i \in 2..(Len(list) + 1)} = {list[i] : i \in 1..Len(list)}
  <2>1. \A i \in 2..(Len(list) + 1) : i - 1 \in 1..Len(list) /\ longer[i] = list[i - 1] BY <1>1
  <2>2. \A i \in 1..Len(list) : i + 1 \in 2..(Len(list) + 1) /\ longer[i + 1] = list[i] BY <1>1
  <2>. QED BY <2>1, <2>2
<1>6. ToSet(longer) = ToSet(list) \cup {g} BY <1>1, <1>2, <1>3, <1>4, <1>5
<1>7. ASSUME NoRepeats(list), g \notin ToSet(list), NEW i \in 1..(Len(list) + 1),
             NEW j \in 1..(Len(list) + 1),
             longer[i] = longer[j]
      PROVE  i = j
  <2>1. \A k \in 2..(Len(list) + 1) : k - 1 \in 1..Len(list) /\ longer[k] = list[k - 1] BY <1>1
  <2>2. \A k \in 2..(Len(list) + 1) : longer[k] # g BY <1>3, <1>7, <2>1
  <2>3. CASE i = 1 \/ j = 1 BY <1>1, <1>7, <2>2, <2>3
  <2>4. CASE i # 1 /\ j # 1
    <3>1. i \in 2..(Len(list) + 1) /\ j \in 2..(Len(list) + 1) BY <2>4
    <3>2. i - 1 \in DOMAIN list /\ j - 1 \in DOMAIN list /\ list[i - 1] = list[j - 1]
      BY <1>7, <2>1, <3>1
    <3>3. i - 1 = j - 1 BY <1>7, <3>2 DEF NoRepeats
    <3>. QED BY <3>3
  <2>. QED BY <2>3, <2>4
<1>8. DOMAIN longer = 1..(Len(list) + 1) BY <1>1
<1>. QED BY <1>1, <1>6, <1>7, <1>8 DEF NoRepeats, longer

(* AddToRecentlyPlayed writes the games played, from a page that it        *)
(* leaves.                                                                 *)
LEMMA PlayedRight ==
  ASSUME FavInv, NEW t \in Tabs, NEW g \in Games, NEW saved \in BOOLEAN,
         AddToRecentlyPlayed(t, g, saved)
  PROVE  FavInv' /\ AskedFor
<1> DEFINE rest == Without(stored["played"], {g})
           list == <<g>> \o rest
           played == FirstOf(list, RecentLimit)
           longer == With("played", played)
           new == IF saved THEN longer ELSE stored
           e == [tab[t] EXCEPT !.page = "away"]
<1>1. /\ stored \in [Keys -> Seq(Games)] /\ "played" \in Keys /\ RecentLimit \in Nat
      /\ \A k \in Keys : NoRepeats(stored[k])
  BY CollectionAssumption DEF FavInv, ListsTyped, Keys
<1>2. rest \in Seq(Games) /\ ToSet(rest) = ToSet(stored["played"]) \ {g} /\ NoRepeats(rest)
  BY <1>1, WithoutRight
<1> HIDE DEF rest
<1>3. list \in Seq(Games) /\ NoRepeats(list)
  <2>1. g \notin ToSet(rest) BY <1>2
  <2>. QED BY <1>2, <2>1, PrependedList
<1> HIDE DEF list
<1>4. played \in Seq(Games) /\ NoRepeats(played) /\ Len(played) <= RecentLimit
  <2>1. /\ played \in Seq(Games)
        /\ Len(played) = IF Len(list) < RecentLimit THEN Len(list) ELSE RecentLimit
        /\ NoRepeats(list) => NoRepeats(played)
    BY <1>1, <1>3, FirstOfRight
  <2>2. Len(list) \in Nat BY <1>3
  <2>. QED BY <1>1, <1>3, <2>1, <2>2
<1> HIDE DEF played
<1>5. /\ longer \in [Keys -> Seq(Games)] /\ longer["played"] = played
      /\ longer["favorites"] = stored["favorites"]
  BY <1>1, <1>4 DEF With, Keys
<1>6. ListsTyped(longer) BY <1>1, <1>4, <1>5 DEF ListsTyped, Keys
<1>7. Sound(e, e.hydrations, t, catalogue) /\ Waits(e) /\ e.page = "away" BY PageRight
<1>8. tab' = [tab EXCEPT ![t] = e] BY DEF AddToRecentlyPlayed
<1>9. stored' = new BY DEF AddToRecentlyPlayed, longer, played, list, rest
<1>10. /\ catalogue' = catalogue /\ acts' = acts + 1 /\ imports' = imports
       /\ acts \in Nat /\ imports \in Nat
  BY DEF AddToRecentlyPlayed, Act, FavInv
<1>11. news \subseteq news' /\ (new # stored => Tabs \ {t} \subseteq news')
  BY <1>9, TellRight DEF AddToRecentlyPlayed
<1> HIDE DEF e, longer
<1>12. ListsTyped(new) /\ new["favorites"] = stored["favorites"]
  BY <1>5, <1>6 DEF FavInv
<1> HIDE DEF new
<1>13. FavInv'
  <2>1. acts' \in Nat /\ imports' \in Nat /\ catalogue' = catalogue BY <1>10
  <2>2. e.page = "open" /\ t \notin news' => Truth(e, new, e.hydrations, t, catalogue, {}) BY <1>7
  <2>3. news \ {t} \subseteq news' BY <1>11
  <2>. QED BY <1>7, <1>8, <1>9, <1>11, <1>12, <2>1, <2>2, <2>3, StepRight
<1>14. AskedFor BY <1>9, <1>10, <1>12 DEF AskedFor, Lost, Gained
<1>. QED BY <1>13, <1>14

(* A turn of the event loop keeps the invariant, if the tab it starts from *)
(* is sound and no less true than it was.                                  *)
TurnOf(t, d, lists) ==
  \E end : Settles(d, lists, end, t, catalogue) /\ tab'[t] = end.tab /\ stored' = end.lists

(* Turn keeps the invariant if the tab was sound and true of the lists it  *)
(* starts with.                                                            *)
LEMMA TabTurns ==
  ASSUME FavInv, NEW t \in Tabs, NEW d, Sound(d, d.hydrations, t, catalogue),
         NEW lists, ListsTyped(lists), NEW saved \in BOOLEAN, Turn(t, d, lists, saved),
         t \notin news => Truth(d, lists, d.hydrations, t, catalogue, {}),
         catalogue' = catalogue, acts' \in Nat, imports' \in Nat,
         news \subseteq news', stored' # stored => Tabs \ {t} \subseteq news'
  PROVE  FavInv' /\ TurnOf(t, d, lists)
<1> DEFINE end == Settle(d, lists, saved)
<1>1. tab' = [tab EXCEPT ![t] = end.tab] /\ stored' = end.lists BY DEF Turn
<1>2. catalogue \in SUBSET Games /\ DOMAIN tab = Tabs BY DEF FavInv
<1>3. ContinueLimit \in Nat /\ RecentLimit \in Nat BY CollectionAssumption
<1>4. Settles(d, lists, end, t, catalogue) BY <1>2, <1>3, SettleRight
<1> HIDE DEF end
<1>5. Followed(d, lists, end.tab, end.lists, t, catalogue) BY <1>4 DEF Settles
<1>6. FavInv'
  <2>1. /\ ListsTyped(end.lists) /\ Sound(end.tab, end.tab.hydrations, t, catalogue)
        /\ Waits(end.tab)
        /\ t \notin news' => Truth(end.tab, end.lists, end.tab.hydrations, t, catalogue, {})
    BY <1>5 DEF Followed
  <2>2. news \ {t} \subseteq news' OBVIOUS
  <2>. QED BY <1>1, <2>1, <2>2, StepRight
<1>7. tab'[t] = end.tab BY <1>1, <1>2
<1>. QED BY <1>1, <1>4, <1>6, <1>7 DEF TurnOf

(* What a turn does to the lists and the hearts.                           *)
LEMMA TurnThins ==
  ASSUME NEW t, NEW d, NEW lists, TurnOf(t, d, lists)
  PROVE  /\ Thinned(lists, stored', catalogue)
         /\ (\A h \in d.hydrations : Out(h, d.requests) \/ Quiet(h, d.requests)) => stored' = lists
         /\ (\A h \in d.hydrations : Out(h, d.requests) \/ ToSet(h.ids) = {}) =>
              HeartsLeft(d, tab'[t])
  BY DEF TurnOf, Settles, Followed

(* What is true of all containers is true of those outside W.              *)
LEMMA TruthLess ==
  ASSUME NEW d, NEW lists, NEW H, NEW t, NEW cat, NEW W, Truth(d, lists, H, t, cat, {})
  PROVE  Truth(d, lists, H, t, cat, W)
<1>1. t \notin Profile \/ (~Pending(H, "favorites") /\ "favorites" \notin W) =>
        HeartsTrue(d, lists, cat)
  BY DEF Truth
<1>2. \A h \in H : h.where \notin W \cup {"superseded"} => Same(ToSet(h.ids), lists[h.key], cat)
  BY DEF Truth
<1>3. \A w \in Containers(t) \ W : Pending(H, w) \/ ShownTrue(d, lists, w, cat)
  BY DEF Truth
<1>. QED BY <1>1, <1>2, <1>3 DEF Truth

(* TryAgain renders everything anew.                                       *)
LEMMA TryAgainRight ==
  ASSUME FavInv, NEW t \in Tabs, NEW saved \in BOOLEAN, TryAgain(t, saved)
  PROVE  FavInv' /\ AskedFor
<1> DEFINE d == Render(tab[t], Containers(t), stored)
<1>1. /\ Sound(tab[t], tab[t].hydrations, t, catalogue) /\ ListsTyped(stored) /\ acts \in Nat
      /\ imports \in Nat
      /\ tab[t].page = "open" /\ t \notin news =>
           Truth(tab[t], stored, tab[t].hydrations, t, catalogue, {})
  BY FavInvAt
<1>2. Rendered(tab[t], Containers(t), d, stored, t, catalogue)
  <2>1. BatchSize \in Nat \ {0} /\ stored \in [Keys -> Seq(Games)]
    BY <1>1, CollectionAssumption DEF ListsTyped
  <2>2. Containers(t) \in SUBSET Containers(t) OBVIOUS
  <2>. QED BY <1>1, <2>1, <2>2, RenderRight
<1>3. Turn(t, d, stored, saved) /\ tab[t].page = "open" BY DEF TryAgain
<1> HIDE DEF d
<1>4. Sound(d, d.hydrations, t, catalogue) BY <1>2 DEF Rendered
<1>5. t \notin news => Truth(d, stored, d.hydrations, t, catalogue, {})
  BY <1>1, <1>2, <1>3, TruthLess DEF Rendered
<1>6. news \subseteq news' /\ (stored' # stored => Tabs \ {t} \subseteq news')
  BY TellRight DEF TryAgain
<1>7. catalogue' = catalogue /\ acts' \in Nat /\ imports' \in Nat BY <1>1 DEF TryAgain
<1>8. FavInv' /\ TurnOf(t, d, stored) BY <1>1, <1>3, <1>4, <1>5, <1>6, <1>7, TabTurns
<1>. QED BY <1>8, TurnThins, NothingAsked

(* What became of a request changes nothing that is shown. *)
LEMMA RequestRight ==
  ASSUME FavInv, NEW t \in Tabs, NEW n \in DOMAIN tab[t].requests,
         NEW state \in {"answered", "failed"}, NEW found,
         state = "answered" => ToSet(n[1]) \cap catalogue \subseteq found,
         NEW d, HasFields(d), d.hearts = tab[t].hearts, d.badge = tab[t].badge,
         d.shown = tab[t].shown,
         d.hydrations = tab[t].hydrations, d.tally = tab[t].tally,
         d.requests = [tab[t].requests EXCEPT ![n] = [state |-> state, found |-> found]],
         \A b \in DOMAIN d.cache : b \in DOMAIN tab[t].cache /\ d.cache[b] = tab[t].cache[b]
  PROVE  /\ Sound(d, d.hydrations, t, catalogue)
         /\ Truth(tab[t], stored, tab[t].hydrations, t, catalogue, {}) =>
              Truth(d, stored, d.hydrations, t, catalogue, {})
<1>1. Sound(tab[t], tab[t].hydrations, t, catalogue) BY FavInvAt
<1>2. /\ DOMAIN d.requests = DOMAIN tab[t].requests
      /\ d.requests[n] = [state |-> state, found |-> found]
      /\ \A m \in DOMAIN d.requests : m # n => d.requests[m] = tab[t].requests[m]
  OBVIOUS
<1>3. TabTyped(d, t) BY <1>1 DEF Sound, TabTyped
<1>4. RequestsRight(d, catalogue)
  <2> SUFFICES ASSUME NEW m \in DOMAIN d.requests
               PROVE  /\ d.requests[m] = [state |-> d.requests[m].state, found |-> d.requests[m].found]
                      /\ d.requests[m].state \in {"sent", "answered", "failed"}
                      /\ d.requests[m].state = "answered" =>
                           ToSet(m[1]) \cap catalogue \subseteq d.requests[m].found
    BY DEF RequestsRight
  <2>1. CASE m = n BY <1>2, <2>1
  <2>2. CASE m # n BY <1>1, <1>2, <2>2 DEF Sound, RequestsRight
  <2>. QED BY <2>1, <2>2
<1>5. CacheRight(d) BY <1>1, <1>2 DEF Sound, CacheRight
<1>6. HydrationsRight(d.hydrations, d, t) BY <1>1, <1>2, Zenon DEF Sound, HydrationsRight
<1>7. StatsCovered(d, d.hydrations) BY <1>1 DEF Sound, StatsCovered
<1>8. ASSUME Truth(tab[t], stored, tab[t].hydrations, t, catalogue, {})
      PROVE  Truth(d, stored, d.hydrations, t, catalogue, {})
  <2>1. HeartsTrue(tab[t], stored, catalogue) => HeartsTrue(d, stored, catalogue) BY DEF HeartsTrue
  <2>2. /\ HydrationsRight(tab[t].hydrations, tab[t], t) /\ TabTyped(tab[t], t)
        /\ StatsCovered(tab[t], tab[t].hydrations)
    BY <1>1 DEF Sound
  <2>3. d.badge = Cardinality(ToSet(stored["favorites"])) BY <1>8 DEF Truth
  <2>. QED BY <1>8, <2>1, <2>2, <2>3, ThinnedSame, TruthOfThinned
<1>. QED BY <1>3, <1>4, <1>5, <1>6, <1>7, <1>8 DEF Sound

(* Answer: what is found is what the catalogue has of the batch.           *)
LEMMA AnsweredRight ==
  ASSUME FavInv, NEW t \in Tabs, NEW n \in DOMAIN tab[t].requests, NEW saved \in BOOLEAN,
         Answer(t, n, saved)
  PROVE  FavInv' /\ AskedFor
<1> DEFINE found == ToSet(n[1]) \cap catalogue
           d == [tab[t] EXCEPT !.requests[n].state = "answered", !.requests[n].found = found]
<1>1. /\ Sound(tab[t], tab[t].hydrations, t, catalogue) /\ ListsTyped(stored) /\ acts \in Nat
      /\ imports \in Nat
      /\ tab[t].page = "open" /\ t \notin news =>
           Truth(tab[t], stored, tab[t].hydrations, t, catalogue, {})
      /\ HasFields(tab[t])
  BY FavInvAt
<1>2. tab[t].requests[n] = [state |-> tab[t].requests[n].state, found |-> tab[t].requests[n].found]
  BY <1>1 DEF Sound, RequestsRight
<1>3. /\ HasFields(d)
      /\ d.hearts = tab[t].hearts /\ d.badge = tab[t].badge /\ d.shown = tab[t].shown
      /\ d.hydrations = tab[t].hydrations /\ d.tally = tab[t].tally /\ d.cache = tab[t].cache
      /\ d.requests = [tab[t].requests EXCEPT ![n] = [state |-> "answered", found |-> found]]
  <2> DEFINE a == [tab[t].requests EXCEPT ![n].state = "answered"]
             b == [a EXCEPT ![n].found = found]
             old == tab[t].requests
  <2>0. a = [old EXCEPT ![n] = [state |-> "answered", found |-> old[n].found]] BY <1>2
  <2>1. b = [old EXCEPT ![n] = [state |-> "answered", found |-> found]]
    <3>1. n \in DOMAIN old OBVIOUS
    <3>2. /\ DOMAIN a = DOMAIN old /\ a[n] = [state |-> "answered", found |-> old[n].found]
          /\ \A m \in DOMAIN old : m # n => a[m] = old[m]
      <4> HIDE DEF a, old
      <4>. QED BY <2>0, <3>1
    <3> HIDE DEF a, found, old
    <3>3. b = [m \in DOMAIN a |-> IF m = n THEN [a[n] EXCEPT !.found = found] ELSE a[m]] OBVIOUS
    <3>4. [a[n] EXCEPT !.found = found] = [state |-> "answered", found |-> found] BY <3>2
    <3> HIDE DEF b
    <3>. QED BY <3>2, <3>3, <3>4
  <2>2. d = [tab[t] EXCEPT !.requests = b] BY <1>1 DEF HasFields
  <2> HIDE DEF b, d
  <2>. QED BY <1>1, <2>1, <2>2 DEF HasFields
<1>4. Turn(t, d, stored, saved) /\ tab[t].page = "open" BY DEF Answer, Sent
<1> HIDE DEF d
<1>5. /\ Sound(d, d.hydrations, t, catalogue)
      /\ Truth(tab[t], stored, tab[t].hydrations, t, catalogue, {}) =>
           Truth(d, stored, d.hydrations, t, catalogue, {})
  BY <1>3, RequestRight
<1>6. news \subseteq news' /\ (stored' # stored => Tabs \ {t} \subseteq news')
  BY TellRight DEF Answer
<1>7. catalogue' = catalogue /\ acts' \in Nat /\ imports' \in Nat BY <1>1 DEF Answer
<1>8. FavInv' /\ TurnOf(t, d, stored) BY <1>1, <1>4, <1>5, <1>6, <1>7, TabTurns
<1>. QED BY <1>8, TurnThins, NothingAsked

(* Fail: nothing is drawn as whole, and nothing is pruned.                 *)
LEMMA FailRight ==
  ASSUME FavInv, NEW t \in Tabs, NEW n \in DOMAIN tab[t].requests, Fail(t, n)
  PROVE  FavInv' /\ AskedFor
<1> DEFINE rest == {b \in DOMAIN tab[t].cache : tab[t].cache[b] # n}
           d == [tab[t] EXCEPT !.requests[n].state = "failed",
                               !.cache = Restrict(@, {b \in DOMAIN @ : @[b] # n})]
           found == tab[t].requests[n].found
<1>1. /\ Sound(tab[t], tab[t].hydrations, t, catalogue) /\ ListsTyped(stored) /\ acts \in Nat
      /\ imports \in Nat
      /\ tab[t].page = "open" /\ t \notin news =>
           Truth(tab[t], stored, tab[t].hydrations, t, catalogue, {})
      /\ HasFields(tab[t]) /\ Waits(tab[t])
  BY FavInvAt
<1>2. tab[t].requests[n] = [state |-> tab[t].requests[n].state, found |-> found]
  BY <1>1 DEF Sound, RequestsRight
<1>3. /\ HasFields(d)
      /\ d.hearts = tab[t].hearts /\ d.badge = tab[t].badge /\ d.shown = tab[t].shown
      /\ d.hydrations = tab[t].hydrations /\ d.tally = tab[t].tally
      /\ d.cache = Restrict(tab[t].cache, rest)
      /\ d.requests = [tab[t].requests EXCEPT ![n] = [state |-> "failed", found |-> found]]
  <2> DEFINE a == [tab[t].requests EXCEPT ![n].state = "failed"]
  <2>1. a = [tab[t].requests EXCEPT ![n] = [state |-> "failed", found |-> found]] BY <1>2
  <2>2. d = [tab[t] EXCEPT !.requests = a, !.cache = Restrict(tab[t].cache, rest)]
    BY <1>1 DEF HasFields
  <2> HIDE DEF a, d, rest
  <2>. QED BY <1>1, <2>1, <2>2 DEF HasFields
<1>4. Turn(t, d, stored, TRUE) /\ tab[t].page = "open" BY DEF Fail, Sent
<1>5. \A b \in DOMAIN d.cache : b \in DOMAIN tab[t].cache /\ d.cache[b] = tab[t].cache[b]
  BY <1>3 DEF Restrict
<1> HIDE DEF d, rest
<1>6. /\ Sound(d, d.hydrations, t, catalogue)
      /\ Truth(tab[t], stored, tab[t].hydrations, t, catalogue, {}) =>
           Truth(d, stored, d.hydrations, t, catalogue, {})
  BY <1>3, <1>5, RequestRight
<1>7. catalogue' = catalogue /\ acts' \in Nat /\ imports' \in Nat /\ news' = news BY <1>1 DEF Fail
<1>8. \A h \in d.hydrations : Out(h, d.requests) \/ Quiet(h, d.requests)
  <2> SUFFICES ASSUME NEW h \in tab[t].hydrations PROVE Out(h, d.requests) \/ Quiet(h, d.requests)
    BY <1>3
  <2>1. PICK m \in h.waits : tab[t].requests[m].state = "sent" BY <1>1 DEF Waits
  <2>2. CASE m = n
    <3>1. d.requests[m].state = "failed" BY <1>3, <2>2
    <3>. QED BY <2>1, <3>1 DEF Quiet
  <2>3. CASE m # n
    <3>1. m \in DOMAIN tab[t].requests BY <1>1, <2>1 DEF Sound, HydrationsRight
    <3>2. d.requests[m].state = "sent" BY <1>3, <2>1, <2>3, <3>1
    <3>. QED BY <2>1, <3>2 DEF Out
  <2>. QED BY <2>2, <2>3
<1>9. stored' = stored
  <2>1. Settles(d, stored, Settle(d, stored, TRUE), t, catalogue)
    <3>1. TRUE \in BOOLEAN OBVIOUS
    <3>2. ContinueLimit \in Nat /\ RecentLimit \in Nat BY CollectionAssumption
    <3>3. catalogue \in SUBSET Games BY DEF FavInv
    <3>. QED BY <1>1, <1>6, <3>1, <3>2, <3>3, SettleRight
  <2>. QED BY <1>4, <1>8, <2>1 DEF Turn, Settles
<1>10. FavInv'
  <2>1. TRUE \in BOOLEAN OBVIOUS
  <2>. QED BY <1>1, <1>4, <1>6, <1>7, <1>9, <2>1, TabTurns
<1>. QED BY <1>9, <1>10, ThinnedSame, NothingAsked

(* A game the server loses. *)
LEMMA ShrunkRight ==
  ASSUME NEW d, NEW H, NEW t, NEW cat, Sound(d, H, t, cat), NEW less \in SUBSET cat
  PROVE  /\ Sound(d, H, t, less)
         /\ \A lists : Truth(d, lists, H, t, cat, {}) => Truth(d, lists, H, t, less, {})
<1>1. RequestsRight(d, less) BY DEF Sound, RequestsRight
<1>2. Sound(d, H, t, less) BY <1>1 DEF Sound
<1>3. ASSUME NEW lists, Truth(d, lists, H, t, cat, {}) PROVE Truth(d, lists, H, t, less, {})
  <2>1. \A games, list : Same(games, list, cat) => Same(games, list, less) BY DEF Same
  <2>2. HeartsTrue(d, lists, cat) => HeartsTrue(d, lists, less) BY DEF HeartsTrue
  <2>3. \A w : ShownTrue(d, lists, w, cat) => ShownTrue(d, lists, w, less)
    <3> SUFFICES ASSUME NEW w, ShownTrue(d, lists, w, cat) PROVE ShownTrue(d, lists, w, less)
      OBVIOUS
    <3>1. CASE w = "strip" BY <3>1 DEF ShownTrue
    <3>2. CASE w = "stats" BY <2>1, <3>2 DEF ShownTrue
    <3>3. CASE w \notin {"strip", "stats"} BY <2>1, <3>3 DEF ShownTrue
    <3>. QED BY <3>1, <3>2, <3>3
  <2>. QED BY <1>3, <2>1, <2>2, <2>3 DEF Truth
<1>. QED BY <1>2, <1>3

(* DeleteGame changes nothing but the games that are looked at.            *)
LEMMA DeleteRight ==
  ASSUME FavInv, NEW g \in Games, DeleteGame(g)
  PROVE  FavInv' /\ AskedFor
<1>1. /\ catalogue' = catalogue \ {g} /\ catalogue' \in SUBSET catalogue
      /\ stored' = stored /\ news' = news /\ tab' = tab /\ acts' = acts /\ imports' = imports
  BY DEF DeleteGame
<1>2. ASSUME NEW t \in Tabs
      PROVE  /\ Sound(tab[t], tab[t].hydrations, t, catalogue') /\ Waits(tab[t])
             /\ tab[t].page = "open" /\ t \notin news =>
                  Truth(tab[t], stored, tab[t].hydrations, t, catalogue', {})
  BY <1>1, FavInvAt, ShrunkRight
<1>3. FavInv' BY <1>1, <1>2 DEF FavInv
<1>. QED BY <1>1, <1>3, ThinnedSame, NothingAsked

(* A write to one list leaves what shows the other as true as it was. *)
LEMMA OtherTrue ==
  ASSUME NEW d, NEW old, NEW H, NEW t \in Profile, NEW cat, Truth(d, old, H, t, cat, {}),
         HydrationsRight(H, d, t), NEW key \in Keys,
         NEW lists, \A k \in Keys : k # key => lists[k] = old[k],
         NEW e, e.shown = d.shown, e.tally = d.tally,
         e.badge = Cardinality(ToSet(lists["favorites"])),
         key = "favorites" \/ e.hearts = d.hearts
  PROVE  Truth(e, lists, H, t, cat, {key, "stats"})
<1>1. /\ Containers(t) = Keys \cup {"stats"}
      /\ "superseded" \notin Keys \cup {"stats"} /\ "stats" \notin Keys
  BY DEF Containers, Keys
<1>2. "favorites" \in Keys BY DEF Keys
<1>3. ~Pending(H, "favorites") /\ "favorites" \notin {key, "stats"} => HeartsTrue(e, lists, cat)
  BY <1>2 DEF Truth, HeartsTrue
<1>4. ASSUME NEW h \in H, h.where \notin {key, "stats"} \cup {"superseded"}
      PROVE  Same(ToSet(h.ids), lists[h.key], cat)
  <2>1. h.where \in Keys /\ h.where # key /\ h.key \in Reads(h.where)
    BY <1>1, <1>4 DEF HydrationsRight
  <2>2. h.key = h.where BY <2>1 DEF Reads, Keys
  <2>. QED BY <1>4, <2>1, <2>2 DEF Truth
<1>5. ASSUME NEW w \in Containers(t) \ {key, "stats"}
      PROVE  Pending(H, w) \/ ShownTrue(e, lists, w, cat)
  <2>1. w \in Keys /\ w # key /\ w # "strip" /\ w # "stats" /\ lists[w] = old[w]
    BY <1>1, <1>5 DEF Keys
  <2>2. Pending(H, w) \/ ShownTrue(d, old, w, cat) BY <1>5 DEF Truth
  <2>. QED BY <2>1, <2>2 DEF ShownTrue
<1>. QED BY <1>3, <1>4, <1>5 DEF Truth

(* The tab of a write: the cache is empty, and nothing has come. *)
LEMMA EmptiedTab ==
  ASSUME FavInv, NEW t \in Tabs, tab[t].page = "open", NEW c, c = InvalidateCollectionCache(tab[t])
  PROVE  /\ Sound(c, c.hydrations, t, catalogue) /\ Waits(c) /\ HasFields(c)
         /\ c.hearts = tab[t].hearts /\ c.hearts \in [Games -> {"none", "on", "off"}]
         /\ DOMAIN c.cache = {} /\ c.page = "open"
         /\ t \notin news => Truth(c, stored, c.hydrations, t, catalogue, {})
<1>1. /\ Sound(tab[t], tab[t].hydrations, t, catalogue) /\ Waits(tab[t])
      /\ tab[t].hearts \in [Games -> {"none", "on", "off"}]
      /\ t \notin news => Truth(tab[t], stored, tab[t].hydrations, t, catalogue, {})
  BY FavInvAt
<1>2. /\ Sound(c, c.hydrations, t, catalogue)
      /\ c.page = tab[t].page /\ c.hearts = tab[t].hearts /\ c.badge = tab[t].badge
      /\ c.shown = tab[t].shown /\ c.hydrations = tab[t].hydrations /\ c.tally = tab[t].tally
      /\ DOMAIN c.cache = {}
      /\ Waits(tab[t]) => Waits(c)
  <2>1. Invalidated(tab[t], c, t, catalogue) BY <1>1, InvalidateRight
  <2>. QED BY <2>1 DEF Invalidated
<1>3. ASSUME t \notin news PROVE Truth(c, stored, c.hydrations, t, catalogue, {})
  <2>1. HeartsTrue(tab[t], stored, catalogue) => HeartsTrue(c, stored, catalogue)
    BY <1>2 DEF HeartsTrue
  <2>2. /\ HydrationsRight(tab[t].hydrations, tab[t], t) /\ TabTyped(tab[t], t)
        /\ StatsCovered(tab[t], tab[t].hydrations)
    BY <1>1 DEF Sound
  <2>3. Truth(tab[t], stored, tab[t].hydrations, t, catalogue, {}) BY <1>1, <1>3
  <2>4. c.badge = Cardinality(ToSet(stored["favorites"])) BY <1>2, <2>3 DEF Truth
  <2>5. c.shown = tab[t].shown /\ c.tally = tab[t].tally BY <1>2
  <2>6. Truth(c, stored, tab[t].hydrations, t, catalogue, {})
    BY <2>1, <2>2, <2>3, <2>4, <2>5, ThinnedSame, TruthOfThinned
  <2>. QED BY <1>2, <2>6
<1>4. HasFields(c) BY <1>2 DEF Sound, TabTyped
<1>. QED BY <1>1, <1>2, <1>3, <1>4

(* A write, and the render it asks for, if any: W is {} for none. *)
LEMMA WrittenRight ==
  ASSUME FavInv, NEW t \in Tabs, NEW d, Sound(d, d.hydrations, t, catalogue), Waits(d),
         DOMAIN d.cache = {},
         NEW lists, ListsTyped(lists), NEW W \in SUBSET Containers(t),
         t \notin news => Truth(d, lists, d.hydrations, t, catalogue, W),
         NEW r, r = IF W = {} THEN d ELSE Render(d, W, lists),
         Turn(t, r, lists, TRUE),
         catalogue' = catalogue, acts' \in Nat, imports' \in Nat,
         news' = Tell(stored', t)
  PROVE  FavInv' /\ stored' = lists /\ HeartsLeft(d, tab'[t])
<1>1. /\ Sound(r, r.hydrations, t, catalogue) /\ r.hearts = d.hearts
      /\ t \notin news => Truth(r, lists, r.hydrations, t, catalogue, {})
      /\ \A h \in r.hydrations : Out(h, r.requests) \/ ToSet(h.ids) = {}
  <2>1. CASE W = {} BY <2>1 DEF Waits, Out
  <2>2. CASE W # {}
    <3>1. BatchSize \in Nat \ {0} /\ lists \in [Keys -> Seq(Games)]
      BY CollectionAssumption DEF ListsTyped
    <3>2. r = Render(d, W, lists) BY <2>2
    <3>3. Rendered(d, W, r, lists, t, catalogue) BY <3>1, <3>2, RenderRight
    <3>. QED BY <3>3 DEF Rendered, Out
  <2>. QED BY <2>1, <2>2
<1>2. TRUE \in BOOLEAN OBVIOUS
<1>3. news \subseteq news' /\ (stored' # stored => Tabs \ {t} \subseteq news') BY TellRight
<1>4. FavInv' /\ TurnOf(t, r, lists) BY <1>1, <1>2, <1>3, TabTurns
<1>5. \A h \in r.hydrations : ToSet(h.ids) = {} => Quiet(h, r.requests) BY DEF Quiet
<1>. QED BY <1>1, <1>4, <1>5, TurnThins DEF HeartsLeft

(* RemoveFromRecentlyPlayed writes the games played and renders them with  *)
(* the counts.                                                             *)
LEMMA RemoveRight ==
  ASSUME FavInv, NEW t \in Tabs, NEW g \in Games, NEW saved \in BOOLEAN,
         RemoveFromRecentlyPlayed(t, g, saved)
  PROVE  FavInv' /\ AskedFor
<1> DEFINE fewer == With("played", Without(stored["played"], {g}))
           lists == IF saved THEN fewer ELSE stored
           c == InvalidateCollectionCache(tab[t])
           W == IF saved THEN {"played", "stats"} ELSE {}
           r == IF saved THEN Render(c, {"played", "stats"}, lists) ELSE c
<1>1. /\ tab[t].page = "open" /\ t \in Profile /\ Turn(t, r, lists, TRUE)
      /\ news' = Tell(stored', t) /\ catalogue' = catalogue /\ imports' = imports
      /\ acts' = acts + 1
  BY DEF RemoveFromRecentlyPlayed, Act
<1>2. acts \in Nat /\ imports \in Nat /\ ListsTyped(stored) BY DEF FavInv
<1>3. stored \in [Keys -> Seq(Games)] /\ "played" \in Keys /\ "favorites" \in Keys
  BY <1>2 DEF ListsTyped, Keys
<1>4. /\ Sound(c, c.hydrations, t, catalogue) /\ Waits(c) /\ HasFields(c)
      /\ c.hearts = tab[t].hearts /\ c.hearts \in [Games -> {"none", "on", "off"}]
      /\ DOMAIN c.cache = {} /\ c.page = "open"
      /\ t \notin news => Truth(c, stored, c.hydrations, t, catalogue, {})
  BY <1>1, EmptiedTab
<1>5. r = IF W = {} THEN c ELSE Render(c, W, lists) OBVIOUS
<1>6. W \in SUBSET Containers(t) BY <1>1 DEF Containers
<1>7. /\ Without(stored["played"], {g}) \in Seq(Games)
      /\ Len(Without(stored["played"], {g})) <= Len(stored["played"])
      /\ NoRepeats(stored["played"]) => NoRepeats(Without(stored["played"], {g}))
  BY <1>3, WithoutRight
<1>8. /\ fewer \in [Keys -> Seq(Games)] /\ fewer["played"] = Without(stored["played"], {g})
      /\ \A k \in Keys : k # "played" => fewer[k] = stored[k]
  BY <1>3, <1>7 DEF With
<1>9. ListsTyped(fewer)
  <2>1. Len(fewer["played"]) <= RecentLimit
    <3>1. stored["played"] \in Seq(Games) /\ fewer["played"] \in Seq(Games) BY <1>3, <1>8
    <3>2. Len(stored["played"]) \in Nat /\ Len(fewer["played"]) \in Nat BY <3>1, LenProperties
    <3>3. Len(fewer["played"]) <= Len(stored["played"]) BY <1>7, <1>8
    <3>4. RecentLimit \in Nat /\ Len(stored["played"]) <= RecentLimit
      BY <1>2, CollectionAssumption DEF ListsTyped
    <3> HIDE DEF fewer
    <3>. QED BY <3>2, <3>3, <3>4
  <2>. QED BY <1>2, <1>7, <1>8, <2>1 DEF ListsTyped
<1> HIDE DEF c, fewer
<1>10. t \notin news => Truth(c, lists, c.hydrations, t, catalogue, W)
  <2> SUFFICES ASSUME t \notin news PROVE Truth(c, lists, c.hydrations, t, catalogue, W)
    OBVIOUS
  <2>1. CASE ~saved BY <1>4, <2>1
  <2>2. CASE saved
    <3>1. Truth(c, stored, c.hydrations, t, catalogue, {}) /\ HydrationsRight(c.hydrations, c, t)
      BY <1>4 DEF Sound
    <3>2. c.badge = Cardinality(ToSet(fewer["favorites"])) BY <1>3, <1>8, <3>1 DEF Truth
    <3>3. Truth(c, fewer, c.hydrations, t, catalogue, {"played", "stats"})
      BY <1>1, <1>3, <1>8, <3>1, <3>2, OtherTrue
    <3>. QED BY <2>2, <3>3
  <2>. QED BY <2>1, <2>2
<1>11. ListsTyped(lists) BY <1>2, <1>9
<1>12. lists["favorites"] = stored["favorites"] BY <1>3, <1>8
<1> HIDE DEF lists, W, r
<1>13. FavInv' /\ stored' = lists
  <2>1. acts' \in Nat /\ imports' \in Nat BY <1>1, <1>2
  <2>. QED BY <1>1, <1>4, <1>5, <1>6, <1>10, <1>11, <2>1, WrittenRight
<1>. QED BY <1>1, <1>2, <1>12, <1>13 DEF AskedFor, Lost, Gained

(* What a press makes of the favourites. *)
LEMMA ToggledRight ==
  ASSUME ListsTyped(stored), NEW g \in Games, NEW liked \in BOOLEAN,
         NEW new, new = With("favorites", Toggled(g, liked))
  PROVE  /\ ListsTyped(new) /\ new["played"] = stored["played"]
         /\ ToSet(new["favorites"]) = IF liked THEN Favorites \ {g} ELSE Favorites \cup {g}
<1> DEFINE list == stored["favorites"]
           made == Toggled(g, liked)
<1>1. stored \in [Keys -> Seq(Games)] /\ "played" \in Keys /\ "favorites" \in Keys
  BY DEF ListsTyped, Keys
<1>2. list \in Seq(Games) /\ NoRepeats(list) BY <1>1 DEF ListsTyped
<1>3. /\ made \in Seq(Games) /\ NoRepeats(made)
      /\ ToSet(made) = IF liked THEN Favorites \ {g} ELSE Favorites \cup {g}
  <2>1. CASE liked
    <3>1. made = Without(list, {g}) BY <2>1 DEF Toggled
    <3> HIDE DEF made, list
    <3>2. made \in Seq(Games) /\ NoRepeats(made) /\ ToSet(made) = ToSet(list) \ {g}
      BY <1>2, <3>1, WithoutRight
    <3>. QED BY <2>1, <3>2 DEF Favorites, list
  <2>2. CASE ~liked /\ g \in ToSet(list)
    <3>1. made = list BY <2>2 DEF Toggled
    <3>. QED BY <1>2, <2>2, <3>1 DEF Favorites
  <2>3. CASE ~liked /\ g \notin ToSet(list)
    <3>1. made = Append(list, g) BY <2>3 DEF Toggled
    <3> HIDE DEF made, list
    <3>2. made \in Seq(Games) /\ NoRepeats(made) /\ ToSet(made) = ToSet(list) \cup {g}
      BY <1>2, <2>3, <3>1, AppendedList
    <3>. QED BY <2>3, <3>2 DEF Favorites, list
  <2>. QED BY <2>1, <2>2, <2>3
<1> HIDE DEF made
<1>4. /\ new \in [Keys -> Seq(Games)] /\ new["favorites"] = made
      /\ new["played"] = stored["played"]
  BY <1>1, <1>3 DEF With, made
<1>5. ListsTyped(new) BY <1>1, <1>3, <1>4 DEF ListsTyped, Keys
<1>. QED BY <1>3, <1>4, <1>5

(* The tab after a press: the heart and the number are those of the lists. *)
PressedTab(c, d, lists, g) ==
  /\ HasFields(d) /\ d.page = c.page /\ d.shown = c.shown /\ d.hydrations = c.hydrations
  /\ d.requests = c.requests /\ d.cache = c.cache /\ d.tally = c.tally
  /\ d.badge = Cardinality(ToSet(lists["favorites"]))
  /\ d.hearts = [c.hearts EXCEPT ![g] = Heart(ToSet(lists["favorites"]), g)]

(* A press leaves the page true but for what is rendered for it.           *)
LEMMA PressedTrue ==
  ASSUME NEW c, NEW t, NEW cat \in SUBSET Games, Truth(c, stored, c.hydrations, t, cat, {}),
         Sound(c, c.hydrations, t, cat), NEW g \in Games,
         NEW lists, lists["played"] = stored["played"],
         \A x : x # g => (x \in ToSet(lists["favorites"]) <=> x \in Favorites),
         NEW d, PressedTab(c, d, lists, g),
         NEW W,
         W = (IF t \in Profile THEN {"favorites", "stats"} ELSE {}) \/ (W = {} /\ lists = stored)
  PROVE  Truth(d, lists, d.hydrations, t, cat, W)
<1> DEFINE H == c.hydrations
<1>1. /\ HydrationsRight(H, c, t) /\ TabTyped(c, t) /\ StatsCovered(c, H)
      /\ d.hydrations = H /\ d.shown = c.shown /\ d.tally = c.tally
      /\ d.badge = Cardinality(ToSet(lists["favorites"]))
      /\ c.hearts \in [Games -> {"none", "on", "off"}]
  BY DEF Sound, PressedTab, TabTyped
<1>2. HeartsTrue(c, stored, cat) => HeartsTrue(d, lists, cat)
  <2> SUFFICES ASSUME HeartsTrue(c, stored, cat), NEW x \in cat
               PROVE  d.hearts[x] \in {"none", Heart(ToSet(lists["favorites"]), x)}
    BY DEF HeartsTrue
  <2>1. CASE x = g BY <1>1, <2>1 DEF PressedTab
  <2>2. CASE x # g
    <3>1. d.hearts[x] = c.hearts[x] BY <1>1, <2>2 DEF PressedTab
    <3>2. Heart(ToSet(lists["favorites"]), x) = Heart(ToSet(stored["favorites"]), x)
      BY <2>2 DEF Heart, Favorites
    <3>. QED BY <3>1, <3>2 DEF HeartsTrue
  <2>. QED BY <2>1, <2>2
<1> HIDE DEF H
<1>3. CASE W = {} /\ lists = stored
  <2>1. Truth(c, stored, H, t, cat, W) BY <1>3 DEF H
  <2>2. Truth(d, lists, H, t, cat, W) BY <1>1, <1>2, <1>3, <2>1, ThinnedSame, TruthOfThinned
  <2>. QED BY <1>1, <2>2
<1>4. CASE t \in Profile /\ W = {"favorites", "stats"}
  <2>1. "favorites" \in Keys /\ \A k \in Keys : k # "favorites" => lists[k] = stored[k] BY DEF Keys
  <2>2. Truth(d, lists, H, t, cat, {"favorites", "stats"}) BY <1>1, <1>4, <2>1, OtherTrue DEF H
  <2>. QED BY <1>1, <1>4, <2>2
<1>5. CASE t \notin Profile /\ W = {}
  <2>1. Containers(t) = {"strip"} BY <1>5 DEF Containers
  <2>2. HeartsTrue(d, lists, cat) BY <1>2, <1>5 DEF Truth, H
  <2>3. \A h \in H : h.key = "played" BY <1>1, <1>5 DEF HydrationsRight
  <2>4. \A h \in H : h.where \notin W \cup {"superseded"} => Same(ToSet(h.ids), lists[h.key], cat)
    BY <2>3, <1>5 DEF Truth, H
  <2>5. \A w \in Containers(t) \ W : Pending(H, w) \/ ShownTrue(d, lists, w, cat)
    BY <1>1, <1>5, <2>1 DEF Truth, H, ShownTrue
  <2>. QED BY <1>1, <1>5, <2>1, <2>2, <2>4, <2>5 DEF Truth
<1>. QED BY <1>3, <1>4, <1>5

(* ToggleFavorite takes or brings the game whose heart was pressed, and no *)
(* other.                                                                  *)
LEMMA ToggleRight ==
  ASSUME FavInv, NEW t \in Tabs, NEW g \in Games, NEW saved \in BOOLEAN, ToggleFavorite(t, g, saved)
  PROVE  FavInv' /\ AskedFor
<1> DEFINE liked == tab[t].hearts[g] = "on"
           new == With("favorites", Toggled(g, liked))
           lists == IF saved THEN new ELSE stored
           now == ToSet(lists["favorites"])
           heart == IF saved THEN (IF liked THEN "off" ELSE "on") ELSE Heart(now, g)
           c == InvalidateCollectionCache(tab[t])
           b == [c EXCEPT !.hearts[g] = heart]
           d == UpdateFavoritesCount(b, now)
           W == IF saved /\ t \in Profile THEN {"favorites", "stats"} ELSE {}
           r == IF saved /\ t \in Profile THEN Render(d, {"favorites", "stats"}, lists) ELSE d
<1>1. /\ tab[t].page = "open" /\ tab[t].hearts[g] # "none" /\ Turn(t, r, lists, TRUE)
      /\ news' = Tell(stored', t) /\ catalogue' = catalogue /\ imports' = imports
      /\ acts' = acts + 1
  BY DEF ToggleFavorite, Act
<1>2. acts \in Nat /\ imports \in Nat /\ ListsTyped(stored) /\ catalogue \in SUBSET Games
  BY DEF FavInv
<1>3. /\ Sound(c, c.hydrations, t, catalogue) /\ Waits(c) /\ HasFields(c)
      /\ c.hearts = tab[t].hearts /\ c.hearts \in [Games -> {"none", "on", "off"}]
      /\ DOMAIN c.cache = {} /\ c.page = "open"
      /\ t \notin news => Truth(c, stored, c.hydrations, t, catalogue, {})
  BY <1>1, EmptiedTab
<1>4. r = IF W = {} THEN d ELSE Render(d, W, lists) OBVIOUS
<1>5. W \in SUBSET Containers(t) BY DEF Containers
<1>6. /\ ListsTyped(new) /\ new["played"] = stored["played"]
      /\ ToSet(new["favorites"]) = IF liked THEN Favorites \ {g} ELSE Favorites \cup {g}
  <2>1. liked \in BOOLEAN OBVIOUS
  <2> HIDE DEF liked
  <2>. QED BY <1>2, <2>1, ToggledRight
<1> HIDE DEF c, new
<1>7. heart = Heart(now, g)
  <2>1. CASE saved BY <1>6, <2>1 DEF Heart
  <2>2. CASE ~saved BY <2>2
  <2>. QED BY <2>1, <2>2
<1>8. ListsTyped(lists) /\ lists["played"] = stored["played"] BY <1>2, <1>6
<1>9. \A x : x # g => (x \in now <=> x \in Favorites)
  <2>1. CASE saved BY <1>6, <2>1
  <2>2. CASE ~saved BY <2>2 DEF Favorites
  <2>. QED BY <2>1, <2>2
<1>10. PressedTab(c, d, lists, g)
  <2> HIDE DEF heart, now, lists
  <2>1. b = [c EXCEPT !.hearts = [c.hearts EXCEPT ![g] = heart]] OBVIOUS
  <2>2. /\ HasFields(b) /\ b.hearts = [c.hearts EXCEPT ![g] = heart]
        /\ b.page = c.page /\ b.shown = c.shown /\ b.hydrations = c.hydrations
        /\ b.requests = c.requests /\ b.cache = c.cache /\ b.tally = c.tally
    <3> HIDE DEF b
    <3>. QED BY <1>3, <2>1 DEF HasFields
  <2> HIDE DEF b
  <2>3. /\ HasFields(d) /\ d.badge = Cardinality(now)
        /\ d.page = b.page /\ d.hearts = b.hearts /\ d.shown = b.shown
        /\ d.hydrations = b.hydrations
        /\ d.requests = b.requests /\ d.cache = b.cache /\ d.tally = b.tally
    BY <2>2, CountShows
  <2> HIDE DEF d
  <2>4. d.hearts = [c.hearts EXCEPT ![g] = Heart(ToSet(lists["favorites"]), g)]
    BY <1>7, <2>2, <2>3 DEF now
  <2>5. d.badge = Cardinality(ToSet(lists["favorites"])) BY <2>3 DEF now
  <2>. QED BY <2>2, <2>3, <2>4, <2>5 DEF PressedTab
<1>11. lists = stored \/ saved OBVIOUS
<1>12. W = (IF t \in Profile THEN {"favorites", "stats"} ELSE {}) \/ (W = {} /\ lists = stored)
  OBVIOUS
<1>13. saved => lists = new OBVIOUS
<1>14. \A x : x # g => (x \in ToSet(lists["favorites"]) <=> x \in Favorites) BY <1>9
<1> HIDE DEF b, d, r, W, lists, now, heart
<1>15. /\ Sound(d, d.hydrations, t, catalogue) /\ Waits(d) /\ DOMAIN d.cache = {}
       /\ d.hearts[g] = Heart(now, g)
  <2>1. /\ HasFields(d) /\ d.shown = c.shown /\ d.requests = c.requests /\ d.cache = c.cache
        /\ d.tally = c.tally /\ d.hydrations = c.hydrations
        /\ d.hearts = [c.hearts EXCEPT ![g] = Heart(now, g)]
    BY <1>10 DEF PressedTab, now
  <2>2. d.hearts \in [Games -> {"none", "on", "off"}] BY <1>3, <2>1 DEF Heart
  <2>3. Sound(d, c.hydrations, t, catalogue) BY <1>3, <2>1, <2>2, SoundOf
  <2>4. d.hearts[g] = Heart(now, g) BY <1>3, <2>1
  <2>. QED BY <1>3, <2>1, <2>3, <2>4 DEF Waits
<1>16. t \notin news => Truth(d, lists, d.hydrations, t, catalogue, W)
  BY <1>2, <1>3, <1>8, <1>10, <1>12, <1>14, PressedTrue
<1>17. FavInv' /\ stored' = lists /\ HeartsLeft(d, tab'[t])
  <2>1. acts' \in Nat /\ imports' \in Nat BY <1>1, <1>2
  <2>. QED BY <1>1, <1>4, <1>5, <1>8, <1>15, <1>16, <2>1, WrittenRight
<1>18. AskedFor
  <2>1. acts' # acts /\ tab'[t].hearts[g] \in {Heart(now, g), "none"}
    BY <1>1, <1>2, <1>15, <1>17 DEF HeartsLeft
  <2>2. tab[t].hearts[g] \in {"on", "off"} BY <1>1, <1>3
  <2>3. ASSUME NEW x \in Lost("favorites") PROVE Pressed(x, "on")
    <3>1. saved /\ liked /\ x = g BY <1>6, <1>11, <1>13, <1>17, <2>3 DEF Lost, Favorites
    <3>2. Heart(now, g) = "off" BY <1>6, <1>13, <3>1 DEF Heart, now
    <3>. QED BY <2>1, <3>1, <3>2 DEF Pressed
  <2>4. ASSUME NEW x \in Gained("favorites") PROVE Pressed(x, "off")
    <3>1. saved /\ ~liked /\ x = g BY <1>6, <1>11, <1>13, <1>17, <2>4 DEF Gained, Favorites
    <3>2. Heart(now, g) = "on" BY <1>6, <1>13, <3>1 DEF Heart, now
    <3>. QED BY <2>1, <2>2, <3>1, <3>2 DEF Pressed
  <2>. QED BY <2>1, <2>3, <2>4 DEF AskedFor
<1>. QED BY <1>17, <1>18

(* A list without repeats has as many games as entries. *)
LEMMA CountedList ==
  ASSUME NEW X, NEW list \in Seq(X), NoRepeats(list)
  PROVE  IsFiniteSet(ToSet(list)) /\ Cardinality(ToSet(list)) = Len(list)
<1>1. /\ list \in [1..Len(list) -> X] /\ DOMAIN list = 1..Len(list) /\ Len(list) \in Nat
      /\ ToSet(list) = {list[i] : i \in 1..Len(list)}
  BY ToSetIs
<1>2. IsFiniteSet(1..Len(list)) /\ Cardinality(1..Len(list)) = Len(list)
  <2>1. \A n \in Nat : IsFiniteSet(1..n) /\ Cardinality(1..n) = n BY FS_Interval
  <2>. QED BY <1>1, <2>1
<1>3. list \in Surjection(1..Len(list), ToSet(list)) BY <1>1 DEF Surjection
<1>4. list \in Injection(1..Len(list), ToSet(list)) BY <1>1 DEF Injection, IsInjective, NoRepeats
<1>. QED BY <1>2, <1>3, <1>4, FS_Surjection

(* The ways to list a set hold every game of it, once. *)
LEMMA ListedRight ==
  ASSUME NEW X, NEW S \in SUBSET X, IsFiniteSet(S), NEW list \in SetToSeqs(S)
  PROVE  /\ list \in Seq(X) /\ NoRepeats(list) /\ ToSet(list) = S
         /\ Len(list) = Cardinality(S)
<1> DEFINE n == Cardinality(S)
<1>1. n \in Nat BY FS_CardinalityType
<1>2. list \in [1..n -> S] /\ \A i, j \in 1..n : i # j => list[i] # list[j] BY DEF SetToSeqs
<1>3. IsFiniteSet(1..n) /\ Cardinality(1..n) = n BY <1>1, FS_Interval
<1>4. list \in Injection(1..n, S) BY <1>2 DEF Injection, IsInjective
<1>5. list \in Surjection(1..n, S) BY <1>3, <1>4, FS_Injection
<1> HIDE DEF n
<1>6. list \in Seq(X) /\ DOMAIN list = 1..n /\ Len(list) = n BY <1>1, <1>2
<1>7. NoRepeats(list) BY <1>2, <1>6 DEF NoRepeats
<1>8. ToSet(list) = S
  <2>1. ToSet(list) = {list[i] : i \in 1..n} BY <1>6, ToSetIs
  <2>2. \A g \in S : \E i \in 1..n : list[i] = g BY <1>5 DEF Surjection
  <2>. QED BY <1>2, <2>1, <2>2
<1>. QED BY <1>6, <1>7, <1>8 DEF n

(* A merge forgets no game but for the limit, and then a game has come.    *)
LEMMA MergedRight ==
  ASSUME ListsTyped(stored), NEW k \in Keys, NEW export,
         export[k] \subseteq Games, IsFiniteSet(export[k]), NEW m \in Merged(k, export)
  PROVE  /\ m \in Seq(Games) /\ NoRepeats(m)
         /\ k = "played" => Len(m) <= RecentLimit
         /\ k = "favorites" => ToSet(stored[k]) \subseteq ToSet(m)
         /\ ToSet(m) \subseteq ToSet(stored[k]) => ToSet(m) = ToSet(stored[k])
<1> DEFINE old == stored[k]
           S == ToSet(old) \cup export[k]
<1>1. old \in Seq(Games) /\ NoRepeats(old) /\ RecentLimit \in Nat /\ (k = "played" =>
        Len(old) <= RecentLimit)
  BY CollectionAssumption DEF ListsTyped
<1> HIDE DEF old
<1>2. /\ IsFiniteSet(ToSet(old)) /\ Cardinality(ToSet(old)) = Len(old) /\ ToSet(old) \subseteq Games
      /\ Len(old) \in Nat
  BY <1>1, CountedList, ToSetIs
<1>3. S \in SUBSET Games /\ IsFiniteSet(S) BY <1>2, FS_Union
<1>4. ToSet(old) \in SUBSET S OBVIOUS
<1> HIDE DEF S
<1>5. PICK list \in SetToSeqs(S) : m = IF k = "played" THEN FirstOf(list, RecentLimit) ELSE list
  BY DEF Merged, S, old
<1>6. list \in Seq(Games) /\ NoRepeats(list) /\ ToSet(list) = S /\ Len(list) = Cardinality(S)
  BY <1>3, ListedRight
<1>7. CASE k # "played"
  BY <1>4, <1>5, <1>6, <1>7 DEF old
<1>8. CASE k = "played"
  <2>1. /\ m \in Seq(Games) /\ Len(m) = IF Len(list) < RecentLimit THEN Len(list) ELSE RecentLimit
        /\ NoRepeats(m)
    BY <1>1, <1>5, <1>6, <1>8, FirstOfRight
  <2>2. Len(old) <= Len(list) /\ Len(list) \in Nat
    <3>1. Cardinality(ToSet(old)) <= Cardinality(S) BY <1>3, <1>4, FS_Subset
    <3>. QED BY <1>2, <1>6, <3>1, LenProperties
  <2>3. Len(m) <= RecentLimit /\ Len(old) <= Len(m) /\ Len(m) \in Nat
    BY <1>1, <1>2, <1>8, <2>1, <2>2
  <2>4. ASSUME ToSet(m) \in SUBSET ToSet(old) PROVE ToSet(m) = ToSet(old)
    <3>1. Cardinality(ToSet(m)) = Len(m) BY <2>1, CountedList
    <3>2. /\ Cardinality(ToSet(m)) <= Cardinality(ToSet(old))
          /\ Cardinality(ToSet(old)) = Cardinality(ToSet(m)) => ToSet(old) = ToSet(m)
      BY <1>2, <2>4, FS_Subset
    <3>3. Cardinality(ToSet(old)) = Cardinality(ToSet(m)) BY <1>2, <2>3, <3>1, <3>2
    <3>. QED BY <3>2, <3>3
  <2>5. k # "favorites" BY <1>8
  <2>. QED BY <2>1, <2>3, <2>4, <2>5 DEF old
<1>. QED BY <1>7, <1>8

(* An import of which nothing was saved leaves each list with its games.   *)
Merging(lists, export, written) ==
  \A k \in Keys : IF k \in written THEN lists[k] \in Merged(k, export) ELSE lists[k] = stored[k]

(* The lists an import writes.                                             *)
LEMMA MergingRight ==
  ASSUME ListsTyped(stored), NEW export \in Exports, NEW written,
         NEW lists, lists = [k \in Keys |-> lists[k]], Merging(lists, export, written)
  PROVE  /\ ListsTyped(lists)
         /\ ToSet(stored["favorites"]) \subseteq ToSet(lists["favorites"])
         /\ (\A k \in Keys : ToSet(lists[k]) \subseteq ToSet(stored[k])) =>
              \A k \in Keys : ToSet(lists[k]) = ToSet(stored[k])
<1>1. ASSUME NEW k \in Keys
      PROVE  /\ lists[k] \in Seq(Games) /\ NoRepeats(lists[k])
             /\ k = "played" => Len(lists[k]) <= RecentLimit
             /\ k = "favorites" => ToSet(stored[k]) \subseteq ToSet(lists[k])
             /\ ToSet(lists[k]) \subseteq ToSet(stored[k]) => ToSet(lists[k]) = ToSet(stored[k])
  <2>1. CASE k \in written
    <3>1. export[k] \subseteq Games /\ IsFiniteSet(export[k]) BY CollectionAssumption
    <3>2. lists[k] \in Merged(k, export) BY <2>1 DEF Merging
    <3>. QED BY <3>1, <3>2, MergedRight
  <2>2. CASE k \notin written
    <3>1. lists[k] = stored[k] BY <2>2 DEF Merging
    <3>. QED BY <3>1 DEF ListsTyped
  <2>. QED BY <2>1, <2>2
<1>2. "played" \in Keys /\ "favorites" \in Keys BY DEF Keys
<1>3. lists \in [Keys -> Seq(Games)] BY <1>1
<1>. QED BY <1>1, <1>2, <1>3 DEF ListsTyped

(* ImportCollection: every container is rendered, or no list has changed   *)
(* its games.                                                              *)
LEMMA ImportRight ==
  ASSUME FavInv, NEW t \in Tabs, NEW export \in Exports, NEW written \in SUBSET Keys,
         ImportCollection(t, export, written)
  PROVE  FavInv' /\ AskedFor
<1> DEFINE Made(f, p) == [k \in Keys |-> IF k \in written THEN [favorites |-> f, played |-> p][k]
                                          ELSE stored[k]]
           Wanted(f, p, k) == ToSet([favorites |-> f, played |-> p][k]) \ ToSet(stored[k])
           Added(f, p, k) == ToSet(Made(f, p)[k]) \ ToSet(stored[k])
           Saved(f, p) == IF \A k \in Keys : Wanted(f, p, k) = {} THEN written # {}
                          ELSE \/ \A k \in Keys : Wanted(f, p, k) # {} => k \in written
                               \/ \E k \in Keys : Added(f, p, k) # {}
           c == InvalidateCollectionCache(tab[t])
<1>1. PICK f \in Merged("favorites", export), p \in Merged("played", export) :
         Turn(t, IF Saved(f, p) THEN Imported(c, t, Made(f, p)) ELSE c, Made(f, p), TRUE)
  BY DEF ImportCollection
<1>2. /\ tab[t].page = "open" /\ t \in Profile
      /\ news' = Tell(stored', t) /\ catalogue' = catalogue /\ imports' = imports + 1
      /\ acts' = acts + 1
  BY DEF ImportCollection, Act
<1>3. acts \in Nat /\ imports \in Nat /\ ListsTyped(stored) /\ catalogue \in SUBSET Games
  BY DEF FavInv
<1>4. PICK saved \in BOOLEAN : saved = Saved(f, p) OBVIOUS
<1> DEFINE lists == Made(f, p)
<1>5. Merging(lists, export, written) /\ lists = [k \in Keys |-> lists[k]] BY DEF Merging, Keys
<1>6. ~saved => \A k \in Keys : ToSet(lists[k]) \subseteq ToSet(stored[k])
  <2> SUFFICES ASSUME ~saved, NEW k \in Keys PROVE ToSet(lists[k]) \subseteq ToSet(stored[k])
    OBVIOUS
  <2>1. CASE written = {} BY <2>1
  <2>2. CASE written # {} BY <1>4, <2>2
  <2>. QED BY <2>1, <2>2
<1> HIDE DEF Made, Saved
<1>7. Turn(t, IF saved THEN Imported(c, t, lists) ELSE c, lists, TRUE) BY <1>1, <1>4
<1> DEFINE now == ToSet(lists["favorites"])
           d == UpdateFavoritesCount(c, now)
           e == IF saved THEN d ELSE c
           W == IF saved THEN Containers(t) ELSE {}
           r == IF saved THEN Imported(c, t, lists) ELSE c
<1>8. /\ ListsTyped(lists)
      /\ ToSet(stored["favorites"]) \subseteq now
      /\ ~saved => \A k \in Keys : ToSet(lists[k]) = ToSet(stored[k])
  <2> HIDE DEF lists
  <2>. QED BY <1>3, <1>5, <1>6, MergingRight DEF now
<1>9. /\ Sound(c, c.hydrations, t, catalogue) /\ Waits(c) /\ HasFields(c)
      /\ c.hearts = tab[t].hearts /\ c.hearts \in [Games -> {"none", "on", "off"}]
      /\ DOMAIN c.cache = {} /\ c.page = "open"
      /\ t \notin news => Truth(c, stored, c.hydrations, t, catalogue, {})
  BY <1>2, EmptiedTab
<1> HIDE DEF c, lists
<1>10. /\ HasFields(d) /\ d.badge = Cardinality(now)
       /\ d.page = c.page /\ d.hearts = c.hearts /\ d.shown = c.shown /\ d.hydrations = c.hydrations
       /\ d.requests = c.requests /\ d.cache = c.cache /\ d.tally = c.tally
  BY <1>9, CountShows
<1> HIDE DEF d
<1>11. Sound(e, e.hydrations, t, catalogue) /\ Waits(e) /\ DOMAIN e.cache = {}
  <2>1. CASE ~saved BY <1>9, <2>1
  <2>2. CASE saved
    <3>1. Sound(d, c.hydrations, t, catalogue) BY <1>9, <1>10, SoundOf
    <3>. QED BY <1>9, <1>10, <2>2, <3>1 DEF Waits
  <2>. QED BY <2>1, <2>2
<1>12. t \notin news => Truth(e, lists, e.hydrations, t, catalogue, W)
  <2> SUFFICES ASSUME t \notin news PROVE Truth(e, lists, e.hydrations, t, catalogue, W)
    OBVIOUS
  <2>1. CASE saved
    <3>1. W = Containers(t) /\ "favorites" \in W BY <1>2, <2>1 DEF Containers
    <3>2. \A h \in d.hydrations : h.where \in Containers(t) \cup {"superseded"}
      BY <1>9, <1>10 DEF Sound, HydrationsRight
    <3>. QED BY <1>2, <1>10, <2>1, <3>1, <3>2 DEF Truth, now
  <2>2. CASE ~saved
    <3>1. /\ HydrationsRight(c.hydrations, c, t) /\ TabTyped(c, t) /\ StatsCovered(c, c.hydrations)
          /\ Truth(c, stored, c.hydrations, t, catalogue, {})
      BY <1>9 DEF Sound
    <3>2. \A k \in Keys : ToSet(lists[k]) = ToSet(stored[k]) BY <1>8, <2>2
    <3>3. Thinned(stored, lists, catalogue) BY <3>2 DEF Thinned
    <3>4. ToSet(lists["favorites"]) = ToSet(stored["favorites"]) BY <3>2 DEF Keys
    <3>5. HeartsTrue(c, stored, catalogue) => HeartsTrue(c, lists, catalogue) BY <3>4 DEF HeartsTrue
    <3>6. c.badge = Cardinality(ToSet(lists["favorites"])) BY <3>1, <3>4 DEF Truth
    <3>7. Truth(c, lists, c.hydrations, t, catalogue, {}) BY <3>1, <3>3, <3>5, <3>6, TruthOfThinned
    <3>. QED BY <2>2, <3>7
  <2>. QED BY <2>1, <2>2
<1>13. W \in SUBSET Containers(t) OBVIOUS
<1>14. r = IF W = {} THEN e ELSE Render(e, W, lists)
  <2>1. Containers(t) # {} BY <1>2 DEF Containers
  <2>. QED BY <2>1 DEF Imported, d, now
<1>15. Turn(t, r, lists, TRUE) BY <1>7
<1> HIDE DEF e, W, r
<1>16. FavInv' /\ stored' = lists
  <2>1. acts' \in Nat /\ imports' \in Nat BY <1>2, <1>3
  <2>. QED BY <1>2, <1>8, <1>11, <1>12, <1>13, <1>14, <1>15, <2>1, WrittenRight
<1>17. AskedFor
  <2>1. Lost("favorites") = {} BY <1>8, <1>16 DEF Lost, now
  <2>2. imports' # imports /\ acts' # acts BY <1>2, <1>3
  <2>. QED BY <2>1, <2>2 DEF AskedFor
<1>. QED BY <1>16, <1>17

-----------------------------------------------------------------------------
(* The first pages, and all the steps *)

(* A page whose first requests have been answered is sound and true.       *)
LEMMA SettledRight ==
  ASSUME ListsTyped(stored), NEW t
  PROVE  /\ Sound(Settled(t), Settled(t).hydrations, t, Games) /\ Waits(Settled(t))
         /\ Truth(Settled(t), stored, Settled(t).hydrations, t, Games, {})
<1> DEFINE d == RedrawFromStorage(Fresh(t), t, stored)
           answered == [n \in DOMAIN d.requests |-> [state |-> "answered", found |-> ToSet(n[1])]]
           e == [d EXCEPT !.requests = answered]
           end == Settle(e, stored, TRUE)
<1>1. Games \in SUBSET Games OBVIOUS
<1>2. /\ Sound(d, d.hydrations, t, Games) /\ Truth(d, stored, d.hydrations, t, Games, {})
  <2>1. Sound(Fresh(t), Fresh(t).hydrations, t, Games) /\ Waits(Fresh(t)) BY FreshRight
  <2>2. BatchSize \in Nat \ {0} BY CollectionAssumption
  <2>3. Redrawn(Fresh(t), d, stored, t, Games) BY <1>1, <2>1, <2>2, RedrawRight
  <2>. QED BY <2>3 DEF Redrawn
<1>3. Settled(t) = end.tab BY DEF Settled
<1> HIDE DEF d
<1>4. HasFields(d) /\ TabTyped(d, t) /\ HydrationsRight(d.hydrations, d, t) /\ CacheRight(d)
      /\ StatsCovered(d, d.hydrations)
  BY <1>2 DEF Sound, TabTyped
<1>5. /\ HasFields(e) /\ e.requests = answered
      /\ e.page = d.page /\ e.hearts = d.hearts /\ e.badge = d.badge /\ e.shown = d.shown
      /\ e.hydrations = d.hydrations /\ e.cache = d.cache /\ e.tally = d.tally
  <2> HIDE DEF answered
  <2>. QED BY <1>4 DEF HasFields
<1>6. /\ DOMAIN answered = DOMAIN d.requests
      /\ \A n \in DOMAIN d.requests : answered[n] = [state |-> "answered", found |-> ToSet(n[1])]
  OBVIOUS
<1> HIDE DEF answered, e
<1>7. ASSUME NEW n \in DOMAIN d.requests
       PROVE  /\ e.requests[n] = [state |-> e.requests[n].state, found |-> e.requests[n].found]
              /\ e.requests[n].state = "answered" /\ e.requests[n].found = ToSet(n[1])
  <2>1. e.requests[n] = [state |-> "answered", found |-> ToSet(n[1])] BY <1>5, <1>6
  <2> DEFINE a == e.requests[n]
  <2> HIDE DEF a
  <2>2. a = [state |-> "answered", found |-> ToSet(n[1])] BY <2>1 DEF a
  <2>3. a = [state |-> a.state, found |-> a.found] /\ a.state = "answered" /\ a.found = ToSet(n[1])
    BY <2>2
  <2>. QED BY <2>3 DEF a
<1>8. Sound(e, e.hydrations, t, Games)
  <2>1. TabTyped(e, t) BY <1>4, <1>5 DEF TabTyped
  <2>2. RequestsRight(e, Games) BY <1>7, <1>5, <1>6 DEF RequestsRight
  <2>3. CacheRight(e) BY <1>4, <1>5, <1>6 DEF CacheRight
  <2>4. HydrationsRight(e.hydrations, e, t) BY <1>4, <1>5, <1>6 DEF HydrationsRight
  <2>5. StatsCovered(e, e.hydrations) BY <1>4, <1>5 DEF StatsCovered
  <2>. QED BY <2>1, <2>2, <2>3, <2>4, <2>5 DEF Sound
<1>9. Truth(e, stored, e.hydrations, t, Games, {})
  <2>1. HeartsTrue(d, stored, Games) => HeartsTrue(e, stored, Games) BY <1>5 DEF HeartsTrue
  <2>2. e.badge = Cardinality(ToSet(stored["favorites"])) BY <1>2, <1>5 DEF Truth
  <2>3. e.shown = d.shown /\ e.tally = d.tally /\ e.hydrations = d.hydrations BY <1>5
  <2>4. Truth(e, stored, d.hydrations, t, Games, {})
    BY <1>2, <1>4, <2>1, <2>2, <2>3, ThinnedSame, TruthOfThinned
  <2>. QED BY <2>3, <2>4
<1>10. \A h \in e.hydrations : Quiet(h, e.requests)
  <2> SUFFICES ASSUME NEW h \in e.hydrations
               PROVE ToSet(h.ids) \subseteq UNION {e.requests[n].found : n \in h.waits}
    BY DEF Quiet
  <2>1. /\ h.waits \subseteq DOMAIN d.requests
        /\ ToSet(h.ids) \subseteq UNION {ToSet(n[1]) : n \in h.waits}
    BY <1>4, <1>5 DEF HydrationsRight
  <2>2. \A n \in h.waits : e.requests[n].found = ToSet(n[1]) BY <1>7, <2>1
  <2>. QED BY <2>1, <2>2
<1>11. Settles(e, stored, end, t, Games)
  <2>1. TRUE \in BOOLEAN OBVIOUS
  <2>2. ContinueLimit \in Nat /\ RecentLimit \in Nat BY CollectionAssumption
  <2>. QED BY <1>1, <1>8, <2>1, <2>2, SettleRight
<1> HIDE DEF end
<1>12. end.lists = stored BY <1>10, <1>11 DEF Settles
<1>. QED BY <1>3, <1>9, <1>11, <1>12 DEF Settles, Followed

(* The invariant holds at first ...                                        *)
LEMMA FavInvFirst == Init => FavInv
<1> SUFFICES ASSUME Init PROVE FavInv
  OBVIOUS
<1>1. acts \in Nat /\ imports \in Nat /\ catalogue = Games /\ news = {} BY DEF Init
<1>2. ListsTyped(stored)
  <2>1. stored \in Kept BY DEF Init
  <2>. QED BY <2>1, CollectionAssumption DEF ListsTyped, NoRepeats
<1>3. tab = [t \in Tabs |-> Settled(t)] BY DEF Init
<1>4. ASSUME NEW t \in Tabs
      PROVE  /\ Sound(tab[t], tab[t].hydrations, t, catalogue) /\ Waits(tab[t])
             /\ Truth(tab[t], stored, tab[t].hydrations, t, catalogue, {})
  <2>1. tab[t] = Settled(t) BY <1>3
  <2>. QED BY <1>1, <1>2, <2>1, SettledRight
<1>. QED BY <1>1, <1>2, <1>3, <1>4 DEF FavInv

(* ... every step keeps it, and loses and gains only what was asked for    *)
(* ...                                                                     *)
LEMMA FavInvNext == FavInv /\ Next => FavInv' /\ AskedFor
<1> SUFFICES ASSUME FavInv, Next PROVE FavInv' /\ AskedFor
  OBVIOUS
<1>1. ASSUME NEW t \in Tabs, Load(t) PROVE FavInv' /\ AskedFor BY <1>1, LoadRight
<1>2. ASSUME NEW t \in Tabs, Return(t) PROVE FavInv' /\ AskedFor BY <1>2, ReturnRight
<1>3. ASSUME NEW t \in Tabs, Hear(t) PROVE FavInv' /\ AskedFor BY <1>3, HearRight
<1>4. ASSUME NEW t \in Tabs, NEW g \in Games, NEW saved \in BOOLEAN, AddToRecentlyPlayed(t, g, saved)
      PROVE  FavInv' /\ AskedFor
  BY <1>4, PlayedRight
<1>5. ASSUME NEW t \in Tabs, NEW saved \in BOOLEAN, TryAgain(t, saved) PROVE FavInv' /\ AskedFor
  BY <1>5, TryAgainRight
<1>6. ASSUME NEW t \in Tabs, NEW saved \in BOOLEAN, NEW g \in Games, ToggleFavorite(t, g, saved)
      PROVE  FavInv' /\ AskedFor
  BY <1>6, ToggleRight
<1>7. ASSUME NEW t \in Tabs, NEW saved \in BOOLEAN, NEW g \in Games,
             RemoveFromRecentlyPlayed(t, g, saved)
      PROVE  FavInv' /\ AskedFor
  BY <1>7, RemoveRight
<1>8. ASSUME NEW t \in Tabs, NEW saved \in BOOLEAN, NEW n \in DOMAIN tab[t].requests,
             Answer(t, n, saved)
      PROVE  FavInv' /\ AskedFor
  BY <1>8, AnsweredRight
<1>9. ASSUME NEW t \in Tabs, NEW export \in Exports, NEW written \in SUBSET Keys,
             ImportCollection(t, export, written)
      PROVE  FavInv' /\ AskedFor
  BY <1>9, ImportRight
<1>10. ASSUME NEW t \in Tabs, NEW n \in DOMAIN tab[t].requests, Fail(t, n) PROVE FavInv' /\ AskedFor
  BY <1>10, FailRight
<1>11. ASSUME NEW g \in Games, DeleteGame(g) PROVE FavInv' /\ AskedFor BY <1>11, DeleteRight
<1>. QED BY <1>1, <1>2, <1>3, <1>4, <1>5, <1>6, <1>7, <1>8, <1>9, <1>10, <1>11 DEF Next

(* ... it implies what the tabs must show ...                              *)
LEMMA FavInvShown == FavInv => DisplayTrue
<1> SUFFICES ASSUME FavInv, NEW t \in Tabs, tab[t].page = "open", t \notin news
             PROVE  LET d == tab[t]
                        drawn == \A h \in d.hydrations : h.where = "superseded"
                    IN  /\ d.badge = Cardinality(Favorites)
                        /\ drawn \/ t \notin Profile =>
                             \A g \in catalogue : d.hearts[g] \in {"none", Heart(Favorites, g)}
                        /\ drawn => \A w \in Containers(t) :
                             CASE w = "strip" ->
                                    d.shown[w].games \cap catalogue \subseteq ToSet(stored["played"])
                               [] w = "stats" ->
                                    \A k \in DOMAIN d.shown[w] : SameGames(d.shown[w][k], k)
                               [] OTHER -> d.shown[w].state = "drawn" => SameGames(d.shown[w], w)
  BY DEF DisplayTrue
<1> DEFINE d == tab[t]
           H == d.hydrations
<1>1. Truth(d, stored, H, t, catalogue, {}) BY FavInvAt
<1>2. d.badge = Cardinality(Favorites) BY <1>1 DEF Truth, Favorites
<1>3. (\A h \in H : h.where = "superseded") => ~Pending(H, "favorites") BY DEF Pending
<1>4. (\A h \in H : h.where = "superseded") \/ t \notin Profile => HeartsTrue(d, stored, catalogue)
  BY <1>1, <1>3 DEF Truth
<1>5. ASSUME \A h \in H : h.where = "superseded", NEW w \in Containers(t)
      PROVE  CASE w = "strip" -> d.shown[w].games \cap catalogue \subseteq ToSet(stored["played"])
               [] w = "stats" -> \A k \in DOMAIN d.shown[w] : SameGames(d.shown[w][k], k)
               [] OTHER -> d.shown[w].state = "drawn" => SameGames(d.shown[w], w)
  <2>1. w # "superseded" BY DEF Containers
  <2>2. ~Pending(H, w) BY <1>5, <2>1 DEF Pending
  <2>3. ShownTrue(d, stored, w, catalogue) BY <1>1, <2>2 DEF Truth
  <2> HIDE DEF d, H
  <2>. QED BY <2>3 DEF ShownTrue, Same, SameGames
<1>. QED BY <1>2, <1>4, <1>5 DEF HeartsTrue, Favorites

(* ... and a step of another script is a stutter.                          *)
LEMMA FavInvStill == FavInv /\ UNCHANGED vars => FavInv' /\ AskedFor
<1> SUFFICES ASSUME FavInv, UNCHANGED vars PROVE FavInv' /\ AskedFor
  OBVIOUS
<1>1. /\ catalogue' = catalogue /\ stored' = stored /\ news' = news /\ tab' = tab
      /\ acts' = acts /\ imports' = imports
  BY DEF vars
<1>2. FavInv' BY <1>1 DEF FavInv
<1>. QED BY <1>1, <1>2, ThinnedSame, NothingAsked

(* A step of the page's other scripts leaves the lists alone.              *)
LEMMA FavouritesKeep == FavInv /\ [BrowserNext]_browserVars => FavInv' /\ AskedFor
<1> SUFFICES ASSUME FavInv, [BrowserNext]_browserVars PROVE FavInv' /\ AskedFor
  OBVIOUS
<1>1. CASE Next BY <1>1, FavInvNext
<1>2. CASE UNCHANGED vars BY <1>2, FavInvStill
<1>. QED BY <1>1, <1>2 DEF BrowserNext, browserVars

(***************************************************************************)
(* A tab that has heard the others tells the truth about the two lists,    *)
(* for any games, tabs and sizes of a batch, and however late, out of      *)
(* order or broken the answers come (favorites.js).                        *)
(***************************************************************************)
THEOREM DisplayTrueCorrect == BrowserSpec => []DisplayTrue
<1>1. BrowserInit => FavInv BY FavInvFirst DEF BrowserInit
<1>2. FavInv /\ [BrowserNext]_browserVars => FavInv' BY FavouritesKeep
<1>. QED BY <1>1, <1>2, FavInvShown, PTL DEF BrowserSpec

(***************************************************************************)
(* A list loses and gains only what was asked for: no answer that comes    *)
(* late, no write that is refused and no prune takes a newer favourite     *)
(* away or brings an older one back (favorites.js:333).                    *)
(***************************************************************************)
THEOREM OnlyAskedForCorrect == BrowserSpec => OnlyAskedFor
<1>1. BrowserInit => FavInv BY FavInvFirst DEF BrowserInit
<1>2. FavInv /\ [BrowserNext]_browserVars => FavInv' BY FavouritesKeep
<1>3. FavInv /\ [BrowserNext]_browserVars =>
        [/\ \A g \in Lost("favorites") \cap catalogue : Pressed(g, "on")
         /\ imports' = imports => \A g \in Gained("favorites") : Pressed(g, "off")
         /\ acts' = acts =>
              \A k \in Keys : Lost(k) \cap catalogue = {} /\ Gained(k) = {}]_vars
  BY FavouritesKeep DEF AskedFor
<1>. QED BY <1>1, <1>2, <1>3, PTL DEF BrowserSpec, OnlyAskedFor
=============================================================================
