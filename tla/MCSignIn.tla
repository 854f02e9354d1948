------------------------------ MODULE MCSignIn ------------------------------
(* One browser with two requests at once; its password is reset once. *)
EXTENDS SignIn, TLC
MCSymmetry == Permutations(Reqs)
=============================================================================
