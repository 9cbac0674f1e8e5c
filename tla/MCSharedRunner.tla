--------------------------- MODULE MCSharedRunner ---------------------------
(***************************************************************************)
(* An instance of SharedRunner for TLC: three loops on one runner.         *)
(***************************************************************************)
EXTENDS SharedRunner

CONSTANTS l1, l2, l3

MCLoops == {l1, l2, l3}
MCSymmetry == Permutations(MCLoops)
=============================================================================
