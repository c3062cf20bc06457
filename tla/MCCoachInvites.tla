--------------------------- MODULE MCCoachInvites ---------------------------
(* Instances of CoachInvites for TLC.                                      *)
EXTENDS CoachInvites, TLC

CONSTANTS t1, t2, e1, e2, r1, r2, l1, l2, l3, box

OneTrainer == {t1}
TwoTrainers == {t1, t2}
OneEmail == {e1}
TwoSpellings == {e1, e2}
SameMailbox == [e \in Emails |-> box]
NoAccount == {}
OneAccount == {e1}
TwoRequests == {r1, r2}
TwoLinks == {l1, l2}
ThreeLinks == {l1, l2, l3}

Symmetry == Permutations(LinkIds) \cup Permutations(Requests)
            \cup Permutations(Trainers)
=============================================================================
