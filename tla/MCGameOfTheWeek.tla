-------------------------- MODULE MCGameOfTheWeek --------------------------
(* Two games, two voters, three connections; low and high votes are told apart. *)
EXTENDS GameOfTheWeek
MCStars == {2, 5}
MCSymmetry == Permutations(Games) \cup Permutations(Voters) \cup Permutations(Conns)
=============================================================================
