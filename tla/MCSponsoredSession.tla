------------------------- MODULE MCSponsoredSession -------------------------
(* Two students of one assignment compete for a pool of one seat, or one      *)
(* student uses two tabs; a pool is billed on completion or on start.         *)
EXTENDS SponsoredSession, TLC

CONSTANTS p1, u1, u2, c1, c2, c3, a1

OneSeat == [p \in Pools |-> 1]
MCSessions == Calls
MCSessionOf == [c \in Calls |-> c]
Symmetry == Permutations(Calls)
=============================================================================
