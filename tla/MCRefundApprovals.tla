------------------------- MODULE MCRefundApprovals --------------------------
(* A refund approved twice in the same words and once in others, and one    *)
(* that nobody approved.                                                   *)
EXTENDS RefundApprovals, TLC

CONSTANTS r1, r2, late, broken, a1, a2, a3, c1, c2, c3

As(reason) == [refund |-> r1, reason |-> reason]
MCOf == a1 :> As(late) @@ a2 :> As(late) @@ a3 :> As(broken)
Symmetry == Permutations(Clicks)
=============================================================================
