------------------------------ MODULE SeatPool ------------------------------
(***************************************************************************)
(* What the entitlement ledger promises, with no rows, keys, counters or    *)
(* requests: each pool sells at most Capacity seats at a time, and the seat *)
(* of a session is taken once, then billed once or given back once, for     *)
(* good.  A seat given back can be sold again, to another session.          *)
(***************************************************************************)
EXTENDS Naturals, FiniteSets

CONSTANTS Pools, Sessions, Capacity

VARIABLE seat

SeatStates == {"free", "open", "billed", "returned"}

SeatTypeOK == seat \in [Pools -> [Sessions -> SeatStates]]

Occupied(p) == {s \in Sessions : seat[p][s] \in {"open", "billed"}}

Init == seat = [p \in Pools |-> [s \in Sessions |-> "free"]]

Move(p, s, from, to) ==
    /\ seat[p][s] = from
    /\ seat' = [seat EXCEPT ![p][s] = to]

Take(p, s) == Cardinality(Occupied(p)) < Capacity[p] /\ Move(p, s, "free", "open")
Bill(p, s) == Move(p, s, "open", "billed")
Return(p, s) == Move(p, s, "open", "returned")

Next == \E p \in Pools, s \in Sessions : Take(p, s) \/ Bill(p, s) \/ Return(p, s)

Spec == Init /\ [][Next]_seat

=============================================================================
