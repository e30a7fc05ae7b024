----------------------------- MODULE MCSeamless -----------------------------
(* Two member streams, a short init space and one restart or two. *)
EXTENDS Seamless, TLC

CONSTANTS p1, p2

TwoPaths == {p1, p2}

PathSymmetry == Permutations(TwoPaths)

=============================================================================
