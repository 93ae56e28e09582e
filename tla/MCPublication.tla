---------------------------- MODULE MCPublication ----------------------------
(* A small instance of Publication: two processes at a time.               *)
EXTENDS Publication, TLC
MCSymmetry == Permutations(Actors)
=============================================================================
