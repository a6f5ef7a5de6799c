--------------------------- MODULE MCContractPool ---------------------------
(* One contract of one seat, three administrators' requests racing on it (two *)
(* activations and a close, or any other mix), and one student's start.       *)
EXTENDS ContractPool, TLC

CONSTANTS p1, u1, org, c1, a1

MCQuantity == [p \in Pools |-> 1]
MCPoolScope == [p \in Pools |-> org]
MCMember == {<<u1, org>>}
MCSessions == Calls
MCSessionOf == [c \in Calls |-> c]
Symmetry == Permutations(Admins)
=============================================================================
