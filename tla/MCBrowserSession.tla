--------------------------- MODULE MCBrowserSession ---------------------------
(* Instances of BrowserSession for TLC.                                    *)
EXTENDS BrowserSession, TLC

Symmetry == Permutations(Rows) \cup Permutations(Calls) \cup Permutations(Tabs)
=============================================================================
