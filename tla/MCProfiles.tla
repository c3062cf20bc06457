------------------------------ MODULE MCProfiles ------------------------------
(* Instances of Profiles for TLC.                                          *)
EXTENDS Profiles, TLC

Symmetry == Permutations(Files) \cup Permutations(Saves)
            \cup Permutations(Requests) \cup Permutations(Slugs \ Taken)
=============================================================================
