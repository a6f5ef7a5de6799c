-------------------------- MODULE ReportCorrection --------------------------
(***************************************************************************)
(* The correction of one issued report under dual control: the approvals    *)
(* (server/routes/admin/admins.js, consumeApproval of                       *)
(* server/lib/adminAuth.js), POST /:sessionId/supersede                     *)
(* (server/routes/admin/reports.js) and the key of report_versions.         *)
(* Every query of a correction is a step of its own; nothing locks.  A      *)
(* correction bears the name of its request.                                *)
(***************************************************************************)
EXTENDS Naturals, FiniteSets, FiniteSetsExt

CONSTANTS
    Correctors,     \* requests
    Issued,         \* the report as originally issued
    MaxApprovals    \* bound on the approvals that are given

ASSUME CorrectionAssumption == Issued \notin Correctors /\ MaxApprovals \in Nat

VARIABLES
    report,         \* v1_reports: as issued, or as the correction that wrote it last
    versions,       \* report_versions: pairs of a number and a report
    given,          \* how many approvals were given; their numbers are in the order of their creation
    approved,       \* admin_approvals: those whose status is 'approved' and that have not expired
    correct,        \* the requests
    shared          \* history: approvals that two requests had picked at once

correctionVars == <<report, versions, given, approved, correct, shared>>

Reports == Correctors \cup {Issued}
CorrectSteps == {"idle", "pick", "take", "number", "first", "save", "append", "done", "refused", "broken"}

CorrectionTypeOK ==
    /\ report \in Reports
    /\ versions \subseteq (1..(Cardinality(Correctors) + 1)) \X Reports
    /\ given \in 0..MaxApprovals /\ approved \subseteq 1..given /\ shared \subseteq 1..given
    /\ correct \in [Correctors -> [pc : CorrectSteps, saw : Reports, by : 0..given, number : 0..(Cardinality(Correctors) + 1)]]

CorrectionInit ==
    /\ report = Issued /\ versions = {}
    /\ given = 0 /\ approved = {} /\ shared = {}
    /\ correct = [c \in Correctors |-> [pc |-> "idle", saw |-> Issued, by |-> 0, number |-> 0]]

-----------------------------------------------------------------------------
(* Dual control *)

\* Another administrator decides a pending request; a rejection changes nothing here.
Approve ==
    /\ given < MaxApprovals
    /\ given' = given + 1 /\ approved' = approved \cup {given + 1}
    /\ UNCHANGED <<report, versions, correct, shared>>

\* Its 72 hours are over.
LapseApproval(a) ==
    /\ a \in approved
    /\ approved' = approved \ {a}
    /\ UNCHANGED <<report, versions, given, correct, shared>>

\* consumeApproval's sub-select: the oldest approval that may still be used.
PickApproval(c) ==
    LET oldest == Min(approved) IN
    /\ correct[c].pc = "pick"
    /\ IF approved = {}
         THEN /\ correct' = [correct EXCEPT ![c].pc = "refused"]
              /\ UNCHANGED shared
         ELSE /\ correct' = [correct EXCEPT ![c].pc = "take", ![c].by = oldest]
              /\ shared' = IF \E d \in Correctors : correct[d].pc = "take" /\ correct[d].by = oldest
                             THEN shared \cup {oldest} ELSE shared
    /\ UNCHANGED <<report, versions, given, approved>>

\* Its UPDATE names the row by id alone: a request that waited for another on the
\* same row, updates it again.
TakeApproval(c) ==
    /\ correct[c].pc = "take"
    /\ approved' = approved \ {correct[c].by}
    /\ correct' = [correct EXCEPT ![c].pc = "number"]
    /\ UNCHANGED <<report, versions, given, shared>>

-----------------------------------------------------------------------------
(* supersede *)

\* getReport: the report exists, and the scores pass the checks.
AskCorrection(c) ==
    /\ correct[c].pc = "idle"
    /\ correct' = [correct EXCEPT ![c].pc = "pick", ![c].saw = report]
    /\ UNCHANGED <<report, versions, given, approved, shared>>

Numbers == {row[1] : row \in versions}
NextVersion == Max({0} \cup Numbers) + 1

\* Mutant: the first correction does not file the original.
NumberItOnly(c) ==
    /\ correct[c].pc = "number"
    /\ correct' = [correct EXCEPT ![c].number = NextVersion, ![c].pc = "save"]
    /\ UNCHANGED <<report, versions, given, approved, shared>>

NumberIt(c) ==
    /\ correct[c].pc = "number"
    /\ correct' = [correct EXCEPT ![c].number = NextVersion, ![c].pc = IF NextVersion = 1 THEN "first" ELSE "save"]
    /\ UNCHANGED <<report, versions, given, approved, shared>>

\* The first correction files the report it read as version 1; the key refuses
\* a number that is taken, and the request ends there.
InsertFirst(c) ==
    /\ correct[c].pc = "first"
    /\ IF 1 \in Numbers
         THEN /\ correct' = [correct EXCEPT ![c].pc = "broken"]
              /\ UNCHANGED versions
         ELSE /\ correct' = [correct EXCEPT ![c].pc = "save", ![c].number = 2]
              /\ versions' = versions \cup {<<1, correct[c].saw>>}
    /\ UNCHANGED <<report, given, approved, shared>>

\* saveReport, an upsert.
SaveReport(c) ==
    /\ correct[c].pc = "save"
    /\ report' = c
    /\ correct' = [correct EXCEPT ![c].pc = "append"]
    /\ UNCHANGED <<versions, given, approved, shared>>

AppendVersion(c) ==
    /\ correct[c].pc = "append"
    /\ IF correct[c].number \in Numbers
         THEN /\ correct' = [correct EXCEPT ![c].pc = "broken"]
              /\ UNCHANGED versions
         ELSE /\ correct' = [correct EXCEPT ![c].pc = "done"]
              /\ versions' = versions \cup {<<correct[c].number, c>>}
    /\ UNCHANGED <<report, given, approved, shared>>

\* A query fails or the process dies.
CorrectBreaks(c) ==
    /\ correct[c].pc \notin {"idle", "done", "refused", "broken"}
    /\ correct' = [correct EXCEPT ![c].pc = "broken", ![c].by = IF correct[c].pc = "take" THEN 0 ELSE @]
    /\ UNCHANGED <<report, versions, given, approved, shared>>

CorrectionNext ==
    \/ Approve
    \/ \E a \in approved : LapseApproval(a)
    \/ \E c \in Correctors :
         \/ AskCorrection(c) \/ PickApproval(c) \/ TakeApproval(c) \/ NumberIt(c)
         \/ InsertFirst(c) \/ SaveReport(c) \/ AppendVersion(c) \/ CorrectBreaks(c)

CorrectionSpec == CorrectionInit /\ [][CorrectionNext]_correctionVars

-----------------------------------------------------------------------------
(* Properties *)

\* "v1 is always the report as originally issued" (routes/admin/reports.js),
\* whatever corrections race and wherever one stops.
OriginalIsFirst == \A row \in versions : row[1] = 1 => row[2] = Issued

\* A correction that was answered stays in the history under the number its
\* administrator was told, and no number stands for two reports.
AnsweredIsFiled ==
    /\ \A c \in Correctors : correct[c].pc = "done" => <<correct[c].number, c>> \in versions
    /\ Cardinality(Numbers) = Cardinality(versions)

\* The report in force is the last version, unless a correction is about to file
\* its own or broke before it could.
LastVersionInForce ==
    \/ versions = {}
    \/ <<NextVersion - 1, report>> \in versions
    \/ report \in Correctors /\ correct[report].pc \in {"append", "broken"}

\* An approval carries one correction ("single-use"), unless two had picked it at once.
OneCorrectionEach ==
    \A c, d \in Correctors :
        /\ c # d /\ correct[c].by = correct[d].by /\ correct[c].by \notin shared
        => correct[c].by = 0

CorrectionSound == OriginalIsFirst /\ AnsweredIsFiled /\ LastVersionInForce /\ OneCorrectionEach
=============================================================================
