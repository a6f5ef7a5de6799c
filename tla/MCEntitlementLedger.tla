------------------------- MODULE MCEntitlementLedger -------------------------
(* Two pools of one seat each, two users and one assignment, three racing     *)
(* requests.  p1 is the organisation's and p2 is u2's own, so that one key of  *)
(* u2 can race onto two pools and u1 must never draw on p2.                   *)
EXTENDS EntitlementLedger, TLC

CONSTANTS p1, p2, u1, u2, org, mine, c1, c2, c3, a1

MCQuantity == [p \in Pools |-> 1]
MixedPools == [p \in Pools |-> IF p = p2 THEN mine ELSE org]
MCMember == {<<u1, org>>, <<u2, org>>, <<u2, mine>>}
MCSessions == Calls
Symmetry == Permutations(Calls)
MCSessionOf == [c \in Calls |-> c]
=============================================================================
