------------------------------ MODULE Browser ------------------------------
(***************************************************************************)
(* One browser: its address bar and the scripts of a page, which are the   *)
(* favourites and the recently played list, the stars of a game and the    *)
(* player.  They share no state that their models keep, so that whatever   *)
(* they do together is an interleaving of what each does alone; one of     *)
(* them moves in a behaviour.                                              *)
(***************************************************************************)
EXTENDS Pages, Favourites, RatingStars, Player

VARIABLE script \* "address", "favorites", "rating-stars" or "player"

browserVars == <<script, pageVars, vars, starVars, playerVars>>

BrowserInit ==
  /\ script \in {"address", "favorites", "rating-stars", "player"}
  /\ PagesInit /\ Init /\ StarsInit /\ PlayerInit
  /\ script # "rating-stars" => row = 0
  /\ script # "player" => \A s \in DOMAIN setting : setting[s]

BrowserNext ==
  /\ UNCHANGED script
  /\ \/ script = "address" /\ PagesNext /\ UNCHANGED <<vars, starVars, playerVars>>
     \/ script = "favorites" /\ Next /\ UNCHANGED <<pageVars, starVars, playerVars>>
     \/ script = "rating-stars" /\ StarsNext /\ UNCHANGED <<pageVars, vars, playerVars>>
     \/ script = "player" /\ PlayerNext /\ UNCHANGED <<pageVars, vars, starVars>>

BrowserSpec == BrowserInit /\ [][BrowserNext]_browserVars
=============================================================================
