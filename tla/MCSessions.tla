----------------------------- MODULE MCSessions -----------------------------
(* Instances of Sessions for TLC.                                          *)
EXTENDS Sessions, TLC

CONSTANTS u1, a1, a2, r1, r2, k1, k2, k3, l1, l2

OneUser == {u1}
OneAdmin == {a1}
TwoAdmins == {a1, a2}
TwoRequests == {r1, r2}
TwoTokens == {k1, k2}
ThreeTokens == {k1, k2, k3}
OneLog == {l1}
TwoLogs == {l1, l2}

(* Primary keys and handler names are interchangeable.                     *)
Symmetry == Permutations(TokenIds) \cup Permutations(LogIds)
            \cup Permutations(Requests)
=============================================================================
