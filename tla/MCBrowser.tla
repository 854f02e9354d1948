--------------------------- MODULE MCBrowser ---------------------------
(* Two games and two tabs, a profile and a homepage that is left for a     *)
(* game's page; every game is a batch of its own, so a list can come back  *)
(* in part; one game can be deleted and one file imported.  A game with    *)
(* two copies of its stars and one in the carousel; six presses of a key   *)
(* in the player.  For the address bar four games, three of a developer,   *)
(* two of a publisher, one without either; one has been renamed; lists of  *)
(* four, three, two and one at two to a page.                              *)
EXTENDS Browser
CONSTANTS g1, g2, profile, home, card, pick, slide
MCProfile == {profile}
MCMaxHydrations == [t \in {profile, home} |-> IF t = home THEN 2 ELSE 6]
MCKept == {[favorites |-> <<g1, g2>>, played |-> <<>>]}
MCExports == {[favorites |-> {g1}, played |-> {g2}]}

(* the address bar *)
Row(slug, genre, developer, publisher, released, rating, title) ==
  [slug |-> slug, genre |-> genre, developer |-> developer, publisher |-> publisher,
   year |-> IF released = 0 THEN "" ELSE ToString(released), released |-> released,
   rating |-> rating, title |-> title, pictures |-> 1]
Doom(slug) == Row(slug, "action", "id", "", 1993, 2, 1)
Dune(genre) == Row("dune", genre, "cryo", "id", 0, 2, 2)
Three == Row("3d", "rpg", "id", "id", 1993, 1, 0)
Duke == Row("duke", "action", "apogee", "", 0, 0, 3)

MCIds == 1..4
MCEditions == <<{Doom("doom"), Doom("doom2")}, {Dune("action"), Dune("rpg")}, {Three}, {Duke}>>
MCStock == {[shelf |-> <<Doom("doom"), Dune("action"), Three, Duke>>,
             past |-> <<{"doom", "doom2"}, {"dune"}, {"3d"}, {"duke"}>>,
             news |-> <<"hello", "more", "so-on">>,
             newsPast |-> <<{"hello", "hi"}, {"more"}, {"so-on"}>>]}
MCHeadlines == <<{"hello", "hi"}, {"more"}, {"so-on"}>>
MCInitial == [s \in {"doom", "doom2", "dune", "duke", "3d"} |-> IF s = "3d" THEN "0-9" ELSE "d"]
MCCurated == [l \in {"top", "bestrpg"} |-> IF l = "top" THEN "" ELSE "rpg"]
MCRespelt == [l \in {"D", "7"} |-> IF l = "D" THEN "d" ELSE "0-9"]

Orders == {<<"", "ASC">>, <<"title", "DESC">>, <<"release", "ASC">>, <<"release", "DESC">>,
           <<"createdAt", "ASC">>, <<"rating", "">>, <<"worst", "">>}
Queries == {NoQuery}
  \cup {[NoQuery EXCEPT !.search = s] : s \in {"blank", "term", "escaped", "long"}}
  \cup {[NoQuery EXCEPT !.by = o[1], !.dir = o[2]] : o \in Orders}
  \cup {[NoQuery EXCEPT !.page = p] : p \in {BadPage, 2, 9}}
Laden == [NoQuery EXCEPT !.search = "escaped", !.by = "title", !.page = BadPage]

Shot(slug, n) == [Path("gallery", slug) EXCEPT !.n = n]
Paths ==
  {Home, PlayerFile, Shot("doom2", 0), Shot("doom", 1), Path("news", ""), Path("comments", ""),
   Path("article", "hi"), Path("article", "hello")}
    \cup {One(name) : name \in {"favicon.ico", "sitemap.xml", "about", "most-played", "random", "top", "bestrpg", "action",
                               "rpg", "puzzle", "doom", "doom2", "1", "8"}}
    \cup {Path("letter", l) : l \in {"d", "0-9", "z", "D", "7"}}
    \cup {Path("developer", "id"), Path("publisher", "id"), Path("publisher", "cryo"),
          Path("year", "1993")}

(* every query at a plain address; every spelling with a laden one; genres *)
(* given to the homepage                                                   *)
Capital(path) == path.kind \notin {"front", "file"}
MCTyped ==
  {Link(path, q) : path \in Paths, q \in Queries}
    \cup {a \in [host : {"site", "player", "elsewhere"}, https : BOOLEAN, slash : BOOLEAN,
                caps : BOOLEAN, query : {Laden},
                path : {Home, PlayerFile, One("about"), One("action"), One("doom2"), One("1"),
                        Path("letter", "D"), Shot("doom2", 0)}] : a.caps => Capital(a.path)}
    \cup {Link(Home, [q EXCEPT !.genre = g]) :
             g \in {"action", "doom2", "about", "top"}, q \in {NoQuery, Laden}}
MCBookmarks == {Link(One(name), NoQuery) : name \in {"doom2", "sitemap.xml"}}
=============================================================================
