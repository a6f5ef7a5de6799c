--------------------------- MODULE ReviewDecision ---------------------------
(***************************************************************************)
(* The signed credentials of one scored assessment (server/lib/credentials, *)
(* server/routes/credentials, server/routes/admin/credentials) and the free *)
(* human review of it: POST /dispute (server/routes/assessment.js) and      *)
(* POST /:sessionId/decide (server/routes/admin/disputes.js).  Every query  *)
(* of a request that changes or looks up a row is a step of its own;        *)
(* nothing locks.  The credentials are in the order of their issue.         *)
(***************************************************************************)
EXTENDS Naturals, Sequences

CONSTANTS
    Desk,        \* requests
    Decisions,   \* the outcomes a decision may have, of REVIEW_OUTCOMES
    NoGrant      \* no reassessment

REVIEW_OUTCOMES == {"upheld", "invalidated_reassessment", "superseded", "second_review"}

ASSUME DecisionAssumption == Decisions \subseteq REVIEW_OUTCOMES /\ NoGrant \notin Desk

VARIABLES
    creds,       \* credentials
    dispute,     \* v1_disputes: none, or its status and resolution
    grants,      \* v1_payments: the free reassessments, by the request that minted them
    desk,        \* the requests
    atOnce       \* history: whether a decision began while another was under way

decisionVars == <<creds, dispute, grants, desk, atOnce>>

Deciding == {"grant", "look", "revoke", "resolve"}
DeskSteps == Deciding \cup {"idle", "seal", "retire", "create", "status", "done", "refused", "broken"}
DisputeStates == {"none", "open", "in_review", "resolved"}

Credential == [status : {"active", "revoked", "superseded"}, of : Nat, by : Nat, alone : BOOLEAN, after : Nat]

DecisionTypeOK ==
    /\ creds \in Seq(Credential)
    /\ dispute \in [status : DisputeStates, outcome : Decisions \cup {"none"}, told : Desk \cup {NoGrant}]
    /\ grants \subseteq Desk /\ atOnce \in BOOLEAN
    /\ desk \in [Desk -> [pc : DeskSteps, alone : BOOLEAN, old : Nat, seen : Nat, outcome : Decisions \cup {"none"}]]

IdleDesk == [pc |-> "idle", alone |-> FALSE, old |-> 0, seen |-> 0, outcome |-> "none"]

\* The credential the scoring issued.
FirstCredential == [status |-> "active", of |-> 0, by |-> 0, alone |-> FALSE, after |-> 0]

\* A scored assessment before any credential and review, or with both.
DecisionInit ==
    /\ \E open \in BOOLEAN :
         /\ creds = IF open THEN <<FirstCredential>> ELSE <<>>
         /\ dispute = [status |-> IF open THEN "open" ELSE "none", outcome |-> "none", told |-> NoGrant]
    /\ grants = {} /\ atOnce = FALSE
    /\ desk = [c \in Desk |-> IdleDesk]

Active == {i \in DOMAIN creds : creds[i].status = "active"}
Newest == Len(creds)

-----------------------------------------------------------------------------
(* Credentials.  The evidence bundle is assembled between a request and its   *)
(* insert; the administrators' route refuses when one is active, the older    *)
(* route and the scoring do not look.                                         *)

AskIssue(c) ==
    /\ desk[c].pc = "idle"
    /\ desk' = [desk EXCEPT ![c] = IF Active # {} THEN [@ EXCEPT !.pc = "refused"]
                                   ELSE [@ EXCEPT !.pc = "seal", !.alone = TRUE, !.seen = Newest]]
    /\ UNCHANGED <<creds, dispute, grants, atOnce>>

AskMint(c) ==
    /\ desk[c].pc = "idle"
    /\ desk' = [desk EXCEPT ![c].pc = "seal"]
    /\ UNCHANGED <<creds, dispute, grants, atOnce>>

\* Any credential of the session may be named, whatever its status.
AskReissue(c, old) ==
    /\ desk[c].pc = "idle" /\ old \in DOMAIN creds
    /\ desk' = [desk EXCEPT ![c].pc = "seal", ![c].old = old]
    /\ UNCHANGED <<creds, dispute, grants, atOnce>>

\* issueCredential's INSERT.
InsertCredential(c) ==
    /\ desk[c].pc = "seal"
    /\ creds' = Append(creds, [status |-> "active", of |-> desk[c].old, by |-> 0,
                               alone |-> desk[c].alone, after |-> desk[c].seen])
    /\ desk' = [desk EXCEPT ![c] = IF @.old = 0 THEN [IdleDesk EXCEPT !.pc = "done"] ELSE [@ EXCEPT !.pc = "retire", !.seen = Newest + 1]]
    /\ UNCHANGED <<dispute, grants, atOnce>>

\* Its UPDATE of the one it supersedes has no condition on the status.
RetireOld(c) ==
    /\ desk[c].pc = "retire"
    /\ creds' = [creds EXCEPT ![desk[c].old].status = "superseded", ![desk[c].old].by = desk[c].seen]
    /\ desk' = [desk EXCEPT ![c].pc = "done", ![c].seen = 0]
    /\ UNCHANGED <<dispute, grants, atOnce>>

Revoked(i) == [creds EXCEPT ![i].status = IF @ = "active" THEN "revoked" ELSE @]

\* revokeCredential for an administrator, one or one of a batch.
RevokeCredential(i) ==
    /\ i \in Active
    /\ creds' = Revoked(i)
    /\ UNCHANGED <<dispute, grants, desk, atOnce>>

-----------------------------------------------------------------------------
(* The review *)

\* POST /dispute: one review per assessment; asked again while it is open, nothing changes.
AskReview(c) ==
    /\ desk[c].pc = "idle"
    /\ desk' = [desk EXCEPT ![c].pc = IF dispute.status = "none" THEN "create"
                                      ELSE IF dispute.outcome # "none" \/ dispute.status = "resolved" THEN "refused" ELSE "done"]
    /\ UNCHANGED <<creds, dispute, grants, atOnce>>

\* createDispute, an upsert that keeps a resolution.
CreateDispute(c) ==
    /\ desk[c].pc = "create"
    /\ dispute' = [dispute EXCEPT !.status = "open"]
    /\ desk' = [desk EXCEPT ![c].pc = "done"]
    /\ UNCHANGED <<creds, grants, atOnce>>

\* decide refuses a dispute with a resolution; what its workflow row says is not checked.
DecideReview(c, o) ==
    /\ desk[c].pc = "idle" /\ dispute.status # "none"
    /\ desk' = [desk EXCEPT ![c].outcome = o,
                  ![c].pc = IF dispute.outcome # "none" THEN "refused"
                            ELSE IF o = "invalidated_reassessment" THEN "grant"
                            ELSE IF o = "second_review" THEN "status" ELSE "resolve"]
    /\ atOnce' = (atOnce \/ (dispute.outcome = "none" /\ \E d \in Desk : desk[d].pc \in Deciding))
    /\ UNCHANGED <<creds, dispute, grants>>

\* createEntitlement with a session id of its own and the mode 'review_grant'.
GrantReassessment(c) ==
    /\ desk[c].pc = "grant"
    /\ grants' = grants \cup {c}
    /\ desk' = [desk EXCEPT ![c].pc = "look"]
    /\ UNCHANGED <<creds, dispute, atOnce>>

\* getLatestCredential; its failure is taken for no credential.
LookUp(c) ==
    /\ desk[c].pc = "look"
    /\ \E seen \in {Newest, 0} :
         desk' = [desk EXCEPT ![c].seen = seen, ![c].pc = IF seen \in Active THEN "revoke" ELSE "resolve"]
    /\ UNCHANGED <<creds, dispute, grants, atOnce>>

\* Mutant: a failure to revoke is swallowed like the failures around it.
RevokeSeenBestEffort(c) ==
    /\ desk[c].pc = "revoke"
    /\ \E kept \in BOOLEAN : creds' = IF kept THEN creds ELSE Revoked(desk[c].seen)
    /\ desk' = [desk EXCEPT ![c].pc = "resolve"]
    /\ UNCHANGED <<dispute, grants, atOnce>>

RevokeSeen(c) ==
    /\ desk[c].pc = "revoke"
    /\ creds' = Revoked(desk[c].seen)
    /\ desk' = [desk EXCEPT ![c].pc = "resolve"]
    /\ UNCHANGED <<dispute, grants, atOnce>>

\* setDisputeResolution replaces the resolution there is.
RecordResolution(c) ==
    /\ desk[c].pc = "resolve"
    /\ dispute' = [dispute EXCEPT !.outcome = desk[c].outcome, !.told = IF c \in grants THEN c ELSE NoGrant]
    /\ desk' = [desk EXCEPT ![c].pc = "status"]
    /\ UNCHANGED <<creds, grants, atOnce>>

\* setDisputeStatus, whose failure is swallowed.
RecordStatus(c) ==
    /\ desk[c].pc = "status"
    /\ \E status \in {dispute.status, IF desk[c].outcome = "second_review" THEN "in_review" ELSE "resolved"} :
         dispute' = [dispute EXCEPT !.status = status]
    /\ desk' = [desk EXCEPT ![c].pc = "done"]
    /\ UNCHANGED <<creds, grants, atOnce>>

\* A query fails or the process dies.
DeskBreaks(c) ==
    /\ desk[c].pc \notin {"idle", "done", "refused", "broken"}
    /\ desk' = [desk EXCEPT ![c].pc = "broken", ![c].alone = FALSE]
    /\ UNCHANGED <<creds, dispute, grants, atOnce>>

DecisionNext ==
    \/ \E i \in DOMAIN creds : RevokeCredential(i)
    \/ \E c \in Desk :
         \/ AskIssue(c) \/ AskMint(c) \/ InsertCredential(c) \/ RetireOld(c)
         \/ \E old \in DOMAIN creds : AskReissue(c, old)
         \/ AskReview(c) \/ CreateDispute(c)
         \/ \E o \in Decisions : DecideReview(c, o)
         \/ GrantReassessment(c) \/ LookUp(c) \/ RevokeSeen(c) \/ RecordResolution(c) \/ RecordStatus(c)
         \/ DeskBreaks(c)

DecisionSpec == DecisionInit /\ [][DecisionNext]_decisionVars

-----------------------------------------------------------------------------
(* Properties *)

\* A superseded credential names the one that replaced it, which names it back; a
\* reissue that was answered has closed the one it replaced.
ChainIsLinked ==
    /\ \A i \in DOMAIN creds : creds[i].status = "superseded" => creds[i].by \in i + 1..Newest /\ creds[creds[i].by].of = i
    /\ \A c \in Desk : desk[c].pc = "done" /\ desk[c].old # 0 => creds[desk[c].old].status = "superseded"

\* A credential issued at the administrators' console stands beside an older active
\* one only if that one was inserted after the console had looked.
IssuedAlone == \A i, j \in Active : i < j /\ creds[j].alone => i > creds[j].after

\* Once a review is recorded as invalidating, the credential its decision found to be
\* the newest is not active, so that shared links show the change.
InvalidationShows ==
    dispute.outcome = "invalidated_reassessment" => dispute.told # NoGrant /\ desk[dispute.told].seen \notin Active

\* The reassessment a candidate is told of exists, and no other was given away but
\* by a decision that is under way, broke or was not alone.
GrantIsTold ==
    /\ dispute.told # NoGrant => dispute.told \in grants
    /\ \A c \in grants : c = dispute.told \/ desk[c].pc \in Deciding \cup {"broken"} \/ atOnce

DecisionSound == ChainIsLinked /\ IssuedAlone /\ InvalidationShows /\ GrantIsTold
=============================================================================
