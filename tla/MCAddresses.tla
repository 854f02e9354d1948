---------------------------- MODULE MCAddresses ----------------------------
(* A small catalogue for TLC: a title that is reserved, one that is what   *)
(* it is suffixed to, one that is a number, and two catalogues to start at.*)
EXTENDS Addresses, TLC

W(word) == [word |-> word, tail |-> <<>>]
N(word, n) == [word |-> word, tail |-> <<n>>]

MCWords == {"", "about", "ab-ut"}
MCTitles == {"About", "About 2", "2"}
MCBase == [t \in MCTitles |->
  CASE t = "About" -> W("about")
    [] t = "About 2" -> N("about", 2)
    [] t = "2" -> N("", 2)]
MCReserved == {W("about")}
Places == 1..2

Row(t, s) == [title |-> t, slug |-> s]
Empty == [game |-> [g \in Places |-> NoGame],
          history |-> [g \in Places |-> {}],
          nextId |-> 1]
(* From before slugs knew of ids: game 1 lives at "2", and game 2 at a     *)
(* slug today's slugify would not make of its title.                       *)
Legacy == [game |-> <<Row("2", N("", 2)), Row("About", W("ab-ut"))>>,
           history |-> <<{N("", 2)}, {W("ab-ut")}>>,
           nextId |-> 3]
MCCatalogues == {Empty, Legacy}

Sym == Permutations(Saves)
=============================================================================
