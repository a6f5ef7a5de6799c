------------------------------ MODULE MCOffice ------------------------------
(* What administrators, staff and raters do, in components that share no      *)
(* state with each other, each on an instance of its own: the part that runs  *)
(* is chosen at the start and the others rest, so that one run explores the   *)
(* sum of their state spaces.                                                 *)
EXTENDS ContractPool, CampusTeam, StudentImport, CompletionNotices, RatingQueue, GrowthSnapshots,
        ReassessmentCycle, InviteRedemption, ReportCorrection, ReviewDecision, DataErasure, TLC

CONSTANTS Chosen,    \* the parts of this run
          p1, u1, org, c1, a1, t1, t2, t3, e1, e2, j1, j2, fa, fb

VARIABLE part

officeVars == <<part, billingVars, teamVars, importVars, noticeVars, ratingVars, growthVars, cycleVars, redeemVars,
                correctionVars, decisionVars, erasureVars>>

OfficeInit ==
    /\ part \in Chosen
    /\ BillingInit /\ TeamInit /\ ImportInit /\ NoticeInit /\ RatingInit /\ GrowthInit /\ CycleInit /\ RedeemInit
    /\ CorrectionInit /\ (DecisionInit /\ (dispute.status = "none" \/ part = "decision"))
    /\ ErasureInit /\ ((scope = Whole /\ standing = "verifying" /\ \A s \in Files : store[s] = "unborn") \/ part = "erasure")

OfficeNext ==
    /\ UNCHANGED part
    /\ IF part = "contracts" THEN BillingNext ELSE UNCHANGED billingVars
    /\ IF part = "team" THEN TeamNext ELSE UNCHANGED teamVars
    /\ IF part = "import" THEN ImportNext ELSE UNCHANGED importVars
    /\ IF part = "notices" THEN NoticeNext ELSE UNCHANGED noticeVars
    /\ IF part = "rating" THEN RatingNext ELSE UNCHANGED ratingVars
    /\ IF part = "growth" THEN GrowthNext ELSE UNCHANGED growthVars
    /\ IF part = "cycle" THEN CycleNext ELSE UNCHANGED cycleVars
    /\ IF part = "redeem" THEN RedeemNext ELSE UNCHANGED redeemVars
    /\ IF part = "correction" THEN CorrectionNext ELSE UNCHANGED correctionVars
    /\ IF part = "decision" THEN DecisionNext ELSE UNCHANGED decisionVars
    /\ IF part = "erasure" THEN ErasureNext ELSE UNCHANGED erasureVars

OfficeSpec == OfficeInit /\ [][OfficeNext]_officeVars

-----------------------------------------------------------------------------
(* Instances *)

\* One contract of one seat, three administrators' requests and one start.
MCQuantity == [p \in Pools |-> 1]
MCPoolScope == [p \in Pools |-> org]
MCMember == {<<u1, org>>}
MCSessions == Calls
MCSessionOf == [c \in Calls |-> c]

\* Two owners and a mentor who has an invitation to be a director.
MCFirstRole == [u \in Staff |-> IF u = t3 THEN "FACULTY_MENTOR" ELSE "ORG_OWNER"]
MCInvited == {<<t3, "FACULTY_MENTOR">>, <<t3, "PLACEMENT_DIRECTOR">>}

\* A file with a member and a new student, and one with the new student again.
MCRowsOf == [j \in Jobs |-> IF j = j1 THEN {e1, e2} ELSE {e1}]

\* Two sittings, of two forms.
MCForms == <<fa, fb>>

\* The requests of every part bear the same names.
MCSymmetry == Permutations(Admins) \cup Permutations(Units)

-----------------------------------------------------------------------------
(* Properties of several parts *)

\* The variables of the part that runs have their types.
OfficeTypeOK ==
    CASE part = "contracts" -> BillingTypeOK [] part = "team" -> TeamTypeOK [] part = "import" -> ImportTypeOK
      [] part = "notices" -> NoticeTypeOK [] part = "rating" -> RatingTypeOK
      [] part = "growth" -> GrowthTypeOK [] part = "cycle" -> CycleTypeOK
      [] part = "redeem" -> RedeemTypeOK [] part = "correction" -> CorrectionTypeOK
      [] part = "decision" -> DecisionTypeOK [] part = "erasure" -> ErasureTypeOK

\* What was computed and shown once stays: the pair of raters an agreement was
\* computed on (validation/agreement.js) and a growth snapshot (growth/service.js).
ShownStays == AgreementPairStays /\ SnapshotsAreNotEdited
=============================================================================
