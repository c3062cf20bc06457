------------------------------ MODULE MCFamilies ------------------------------
(* Instances of Families for TLC.                                          *)
EXTENDS Families, TLC

Symmetry == Permutations(Users) \cup Permutations(Profiles)
            \cup Permutations(Trainers) \cup Permutations(Requests)
            \cup Permutations(Drafts)
=============================================================================
