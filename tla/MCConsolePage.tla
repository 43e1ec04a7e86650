---------------------------- MODULE MCConsolePage ----------------------------
(* Model values and symmetry for checking the console page with TLC.        *)
EXTENDS ConsolePage, TLC

\* The sessions other than the one the page was opened with are alike.
Symmetry == Permutations(Sessions \ {Initial})
=============================================================================
