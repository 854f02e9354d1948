----------------------------- MODULE RatingStars -----------------------------
(***************************************************************************)
(* The stars of one game on one page: the same game may have several       *)
(* copies of them, put in and taken out of the document by other scripts.  *)
(* The visitor's earlier vote is fetched once per page, a vote is posted   *)
(* from any copy, and every copy shows it.  0 is no vote.                  *)
(***************************************************************************)
EXTENDS Integers, FiniteSets

CONSTANTS
  Copies,    \* the <rating-stars> elements of the game
  Readonly,  \* those of the carousel, which only show the average
  Ratings,   \* the stars a visitor gives
  MaxVotes,  \* bound: votes posted from this page
  MaxMoves   \* bound: elements put in or taken out

ASSUME RatingsAssumption == 0 \notin Ratings

VARIABLES
  row,     \* the visitor's vote in the database
  stars,   \* the elements
  mine,    \* voterRatingsPromise, and the vote it brings
  posted,  \* postedRatings
  pending, \* pendingRatingGames
  posts,   \* the POSTs that are out
  votes,   \* how many votes were posted
  moves    \* how often an element was moved

starVars == <<row, stars, mine, posted, pending, posts, votes, moves>>

ConnectedRatings == {c \in Copies : stars[c].connected}
Interactive == ConnectedRatings \ Readonly

(* A stored vote counts where no newer one is known or on its way. *)
TakesStored_Unasked(rating, busy) == TRUE
TakesStored(rating, busy) == rating = 0 /\ ~busy

(***************************************************************************)
(* connectedCallback: a vote of this page counts before what the document  *)
(* says, and only an element that knows of neither asks for the stored one.*)
(***************************************************************************)
Connect(c) ==
  /\ ~stars[c].connected /\ moves < MaxMoves
  /\ LET known == IF posted # 0 THEN posted ELSE stars[c].attribute
         asks == c \notin Readonly /\ known = 0
         told == asks /\ mine.state = "here" /\ TakesStored(known, pending)
     IN /\ stars' = [stars EXCEPT ![c] =
             [connected |-> TRUE, attribute |-> IF c \in Readonly THEN 0 ELSE known,
              rating |-> IF c \in Readonly THEN 0 ELSE IF told THEN mine.vote ELSE known,
              busy |-> c \notin Readonly /\ pending,
              waits |-> @.waits \/ (asks /\ mine.state # "here")]]
        /\ mine' = IF asks /\ mine.state = "unasked" THEN [mine EXCEPT !.state = "asked"] ELSE mine
  /\ moves' = moves + 1
  /\ UNCHANGED <<row, posted, pending, posts, votes>>

DisconnectedCallback(c) ==
  /\ stars[c].connected /\ moves < MaxMoves
  /\ stars' = [stars EXCEPT ![c].connected = FALSE]
  /\ moves' = moves + 1
  /\ UNCHANGED <<row, mine, posted, pending, posts, votes>>

(* GET /games/my-ratings reads the row; the answer lands later, or empty.  *)
GetVoterRatings ==
  /\ mine.state = "asked"
  /\ mine' = [state |-> "read", vote |-> row]
  /\ UNCHANGED <<row, stars, posted, pending, posts, votes, moves>>

LoadVoterRatings(ok) ==
  /\ mine.state = "read"
  /\ mine' = [state |-> "here", vote |-> IF ok THEN mine.vote ELSE 0]
  /\ stars' = [c \in Copies |->
       IF stars[c].waits
       THEN [stars[c] EXCEPT !.waits = FALSE,
               !.rating = IF mine'.vote # 0 /\ TakesStored(@, pending) THEN mine'.vote ELSE @]
       ELSE stars[c]]
  /\ UNCHANGED <<row, posted, pending, posts, votes, moves>>

(***************************************************************************)
(* submitRating: one vote of the game at a time, whichever copy it is from.*)
(***************************************************************************)
MaySubmit_Always == TRUE
MaySubmit == ~pending

SubmitRating(c, rating) ==
  /\ c \in Interactive /\ MaySubmit /\ votes < MaxVotes
  /\ pending' = TRUE /\ votes' = votes + 1
  /\ posts' = posts \cup {[n |-> votes, rating |-> rating, stored |-> FALSE]}
  /\ stars' = [s \in Copies |-> IF s \in Interactive THEN [stars[s] EXCEPT !.busy = TRUE] ELSE stars[s]]
  /\ UNCHANGED <<row, mine, posted, moves>>

Rate(post) ==
  /\ ~post.stored
  /\ row' = post.rating
  /\ posts' = (posts \ {post}) \cup {[post EXCEPT !.stored = TRUE]}
  /\ UNCHANGED <<stars, mine, posted, pending, votes, moves>>

(* The answer of a vote that was stored, and a vote that failed or whose   *)
(* answer did.                                                             *)
ApplyRating(post) ==
  /\ post.stored
  /\ posted' = post.rating
  /\ stars' = [c \in Copies |->
       IF c \in Interactive THEN [stars[c] EXCEPT !.rating = post.rating,
                                                  !.attribute = post.rating, !.busy = FALSE]
       ELSE stars[c]]
  /\ pending' = FALSE /\ posts' = posts \ {post}
  /\ UNCHANGED <<row, mine, votes, moves>>

Fails(post) ==
  /\ stars' = [c \in Copies |->
       IF c \in Interactive THEN [stars[c] EXCEPT !.busy = FALSE] ELSE stars[c]]
  /\ pending' = FALSE /\ posts' = posts \ {post}
  /\ UNCHANGED <<row, mine, posted, votes, moves>>

StarsInit ==
  /\ row \in Ratings \cup {0}
  /\ stars \in {[c \in Copies |-> [connected |-> FALSE, attribute |-> IF c \in Readonly THEN 0 ELSE a,
                                   rating |-> 0, busy |-> FALSE, waits |-> FALSE]] : a \in {0, row}}
  /\ mine = [state |-> "unasked", vote |-> 0]
  /\ posted = 0 /\ pending = FALSE /\ posts = {} /\ votes = 0 /\ moves = 0

StarsNext ==
  \/ \E c \in Copies : Connect(c) \/ DisconnectedCallback(c)
  \/ GetVoterRatings \/ \E ok \in BOOLEAN : LoadVoterRatings(ok)
  \/ \E c \in Copies, rating \in Ratings : SubmitRating(c, rating)
  \/ \E post \in posts : Rate(post) \/ ApplyRating(post) \/ Fails(post)
-----------------------------------------------------------------------------
(***************************************************************************)
(* The stars show the visitor's last vote: once a vote of this page has    *)
(* been answered every copy in the document shows it, however late the     *)
(* older stored vote arrives and wherever the copy was in the meantime;    *)
(* every copy says whether a vote is out, and no two are out at once       *)
(* (rating-stars.js:104, :319).                                            *)
(***************************************************************************)
LastVoteShown ==
  /\ Cardinality(posts) <= 1
  /\ \A c \in Interactive : /\ posted # 0 => stars[c].rating = posted
                            /\ stars[c].busy = (posts # {})
=============================================================================
