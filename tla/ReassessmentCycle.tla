---------------------------- MODULE ReassessmentCycle ----------------------------
(***************************************************************************)
(* The end of a reassessment cycle: setCycleStatus of                       *)
(* server/domain/growth/service.js, which ends the assignment of the cycle  *)
(* (closeAssignment of server/domain/campusAdmin/service.js) and then the   *)
(* cycle, each write without a look at what it replaces.                    *)
(***************************************************************************)

CONSTANT Enders    \* requests to end the cycle

Ended == {"CLOSED", "CANCELLED"}

VARIABLES
    cycle,        \* reassessment_cycles.status
    assigned,     \* assessment_assignments.status of its reassessment
    ender,        \* the requests
    contested     \* history: two requests were ending the cycle, or staff ended the assignment itself

cycleVars == <<cycle, assigned, ender, contested>>

CycleTypeOK ==
    /\ cycle \in {"ACTIVE"} \cup Ended /\ assigned \in {"ACTIVE"} \cup Ended
    /\ ender \in [Enders -> [pc : {"idle", "close", "set", "done", "refused", "broken"}, to : Ended]]
    /\ contested \in BOOLEAN

CycleInit ==
    /\ cycle = "ACTIVE" /\ assigned = "ACTIVE"
    /\ ender = [e \in Enders |-> [pc |-> "idle", to |-> "CLOSED"]]
    /\ contested = FALSE

-----------------------------------------------------------------------------
\* The cycle is read, and must not have ended.
AskEnd(e, to) ==
    /\ ender[e].pc = "idle"
    /\ ender' = [ender EXCEPT ![e] = [pc |-> IF cycle \in Ended THEN "refused" ELSE "close", to |-> to]]
    /\ contested' = (contested \/ \E f \in Enders : ender[f].pc \in {"close", "set"})
    /\ UNCHANGED <<cycle, assigned>>

\* Mutant: the cycle is ended first, its assignment after it.
EndAssignmentLast(e) ==
    /\ ender[e].pc = "close"
    /\ cycle' = ender[e].to
    /\ ender' = [ender EXCEPT ![e].pc = "set"]
    /\ UNCHANGED <<assigned, contested>>

\* closeAssignment writes whatever the assignment was before.
EndAssignment(e) ==
    /\ ender[e].pc = "close"
    /\ assigned' = ender[e].to
    /\ ender' = [ender EXCEPT ![e].pc = "set"]
    /\ UNCHANGED <<cycle, contested>>

EndCycle(e) ==
    /\ ender[e].pc = "set"
    /\ cycle' = ender[e].to
    /\ ender' = [ender EXCEPT ![e].pc = "done"]
    /\ UNCHANGED <<assigned, contested>>

\* The request dies, or a write throws.
EnderBreaks(e) ==
    /\ ender[e].pc \in {"close", "set"}
    /\ ender' = [ender EXCEPT ![e].pc = "broken"]
    /\ UNCHANGED <<cycle, assigned, contested>>

\* Staff end the assignment from its own page.
StaffCloses(to) ==
    /\ assigned' = to
    /\ contested' = TRUE
    /\ UNCHANGED <<cycle, ender>>

CycleNext ==
    \/ \E e \in Enders :
        \/ \E to \in Ended : AskEnd(e, to)
        \/ EndAssignment(e) \/ EndCycle(e) \/ EnderBreaks(e)
    \/ \E to \in Ended : StaffCloses(to)

CycleSpec == CycleInit /\ [][CycleNext]_cycleVars

-----------------------------------------------------------------------------
(* Properties *)

\* A cycle that has ended has an assignment nobody can start any more, and both
\* ended the same way unless two requests raced or staff ended the assignment
\* itself; a request that broke half way leaves the cycle to be ended again.
CycleEndsWithItsAssignment ==
    cycle \in Ended => assigned \in Ended /\ (contested \/ assigned = cycle)
================================================================================
