--------------------------- MODULE MCReleaseSync ---------------------------
(* Two bundles and two engine releases.                                       *)
EXTENDS ReleaseSync, TLC

CONSTANTS mneme, figura, e1, e2

BothBundles == {mneme, figura}
TwoEngines  == {e1, e2}
Symmetry    == Permutations(TwoEngines)
=============================================================================
