------------------------- MODULE MCPurchaseApprovals -------------------------
(* An instance of PurchaseApprovals for TLC.                               *)
EXTENDS PurchaseApprovals

CONSTANTS p1, c1, c2, r1, r2

OneParent == {p1}
TwoApprovals == {c1, c2}
TwoRequests == {r1, r2}
=============================================================================
