------------------------------- MODULE MCFrer -------------------------------
(* Two member streams and a sequence space that wraps twice. *)
EXTENDS Frer, TLC

CONSTANTS p1, p2

TwoPaths == {p1, p2}

PathSymmetry == Permutations(TwoPaths)

=============================================================================
