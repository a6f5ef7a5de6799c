------------------------ MODULE SponsoredAssessment ------------------------
(***************************************************************************)
(* What a sponsored assessment is to a student and to the institution that  *)
(* pays for it, with no requests, rows, events or locks: the disclosure is  *)
(* acknowledged, then a seat is taken for one session, then there is work,  *)
(* then the seat is billed, or given back after the assignment was closed,  *)
(* and only a scored assessment with a closed seat counts as completed.     *)
(***************************************************************************)
CONSTANTS Users, Sessions, NoSession

VARIABLES
    life,   \* per student: what has happened
    over    \* whether the assignment was closed

Beginning == {[acked |-> a, session |-> NoSession, seat |-> "none", work |-> "none", completed |-> FALSE] : a \in BOOLEAN}

Init == life \in [Users -> Beginning] /\ over = FALSE

Becomes(u, changed) == life' = [life EXCEPT ![u] = changed] /\ UNCHANGED over

Acknowledge(u) == Becomes(u, [life[u] EXCEPT !.acked = TRUE])

Take(u, s) ==
    /\ life[u].acked /\ life[u].session = NoSession
    /\ \A v \in Users : life[v].session # s
    /\ Becomes(u, [life[u] EXCEPT !.session = s, !.seat = "open"])

Begin(u) ==
    /\ life[u].session # NoSession /\ life[u].work = "none"
    /\ Becomes(u, [life[u] EXCEPT !.work = "live"])

Score(u) ==
    /\ life[u].work = "live"
    /\ Becomes(u, [life[u] EXCEPT !.work = "reported"])

Bill(u) ==
    /\ life[u].seat = "open" /\ life[u].work # "none"
    /\ Becomes(u, [life[u] EXCEPT !.seat = "billed"])

Return(u) ==
    /\ life[u].seat = "open" /\ life[u].work # "none" /\ over
    /\ Becomes(u, [life[u] EXCEPT !.seat = "returned"])

Complete(u) ==
    /\ life[u].work = "reported" /\ life[u].seat \in {"billed", "returned"}
    /\ Becomes(u, [life[u] EXCEPT !.completed = TRUE])

\* The card falls back: a start or an acknowledgement that was under way writes last.
FallBack(u) == Becomes(u, [life[u] EXCEPT !.completed = FALSE])

Close == over' = TRUE /\ UNCHANGED life

Next ==
    \/ \E u \in Users : Acknowledge(u) \/ Begin(u) \/ Score(u) \/ Bill(u) \/ Return(u) \/ Complete(u) \/ FallBack(u)
    \/ \E u \in Users, s \in Sessions : Take(u, s)
    \/ Close

Spec == Init /\ [][Next]_<<life, over>>

=============================================================================
