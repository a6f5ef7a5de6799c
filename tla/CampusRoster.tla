---------------------------- MODULE CampusRoster ----------------------------
(***************************************************************************)
(* The students of one institution: invitations and what accepting one      *)
(* writes (server/domain/memberships/inviteService.js), cohorts, and the    *)
(* rosters of the assignments that target them                              *)
(* (server/domain/campusAdmin/service.js).  Every write is a query of its   *)
(* own, so a request is a sequence of steps that others interleave with and *)
(* that may stop after any of them; a restart stops several, one by one.    *)
(* Requests the code refuses before their first write are left out.  The    *)
(* organization is active and the caller permitted.  Staff roles, imports   *)
(* and development missions are not here.                                   *)
(***************************************************************************)
CONSTANTS
    Calls,        \* requests that take several steps
    Students,     \* accounts, each with the email its invitations go to
    Invites, Cohorts, Assignments,
    Resent,       \* the invitations a resend draws; createInvites draws the others
    None

ASSUME RosterAssumption ==
    /\ Resent \subseteq Invites
    /\ None \notin Students \cup Invites \cup Cohorts \cup Assignments

VARIABLES
    invite,       \* organization_invites
    consent,      \* consent_records: who acknowledged the sponsorship disclosure
    member,       \* organization_memberships, role STUDENT
    place,        \* cohort_members, per cohort and student
    assignment,   \* assessment_assignments with their cohort targets
    roster,       \* assessment_assignment_students
    call

vars == <<invite, consent, member, place, assignment, roster, call>>

\* An invitation past its expiresAt is one nobody accepts or declines any more:
\* expiry only refuses.  Nothing writes SUSPENDED.
InviteStatuses == {"none", "PENDING", "ACCEPTED", "DECLINED", "REVOKED"}
RowStatuses == {"none", "ACTIVE", "REMOVED"}

Accepting == {"accept.consent", "accept.member", "accept.mark"}
Joining == {"join", "sync.list", "sync.add"}
Owing == {"sync.list", "sync.add", "assign"}
Steps == {"idle", "decline", "resend.create", "resend.revoke", "move", "assign"} \cup Accepting \cup Joining

Blank == [pc |-> "idle", invite |-> None, student |-> None, cohort |-> None, from |-> None,
          assignment |-> None, todo |-> {}, cohorts |-> {}, people |-> {}, stopped |-> FALSE]

CallRecords ==
    [pc: Steps, invite: Invites \cup {None}, student: Students \cup {None}, cohort: Cohorts \cup {None},
     from: Cohorts \cup {None}, assignment: Assignments \cup {None},
     todo: SUBSET Assignments, cohorts: SUBSET Cohorts, people: SUBSET Students, stopped: BOOLEAN]

InviteRecords == [status: InviteStatuses, student: Students \cup {None}, cohort: Cohorts \cup {None}]

\* A request at a step has what the step works on.
Fits(r) ==
    /\ r \in CallRecords
    /\ r.pc \in Accepting \cup {"decline", "resend.create", "resend.revoke"} => r.invite \in Invites
    /\ r.pc \in Accepting \cup Joining \cup {"resend.create"} => r.student \in Students
    /\ r.pc \in Joining \cup {"move"} => r.cohort \in Cohorts
    /\ r.pc = "assign" => r.assignment \in Assignments
    /\ r.pc \in {"idle", "move", "assign"} => r.invite = None

\* Types, that an invitation that was sent is somebody's, and that one a
\* request works on was sent.
TypeOK ==
    /\ invite \in [Invites -> InviteRecords]
    /\ \A i \in Invites : invite[i].status # "none" => invite[i].student \in Students
    /\ consent \subseteq Students
    /\ member \in [Students -> RowStatuses]
    /\ place \in [Cohorts -> [Students -> RowStatuses]]
    /\ assignment \in [Assignments -> [status: {"none", "live", "closed"}, targets: SUBSET Cohorts]]
    /\ roster \in [Assignments -> SUBSET Students]
    /\ call \in [Calls -> CallRecords]
    /\ \A c \in Calls : Fits(call[c]) /\ (call[c].invite # None => invite[call[c].invite].status # "none")

Init ==
    /\ invite = [i \in Invites |-> [status |-> "none", student |-> None, cohort |-> None]]
    /\ consent = {}
    /\ member = [s \in Students |-> "none"]
    /\ place = [k \in Cohorts |-> [s \in Students |-> "none"]]
    /\ assignment = [a \in Assignments |-> [status |-> "none", targets |-> {}]]
    /\ roster = [a \in Assignments |-> {}]
    /\ call = [c \in Calls |-> Blank]

-----------------------------------------------------------------------------
At(c, pc) == call[c].pc = pc /\ ~call[c].stopped

Goto(c, pc) == call' = [call EXCEPT ![c].pc = pc]

End(c) == call' = [call EXCEPT ![c] = Blank]

-----------------------------------------------------------------------------
(* Invitations *)

\* createInvites, for one email.
CreateInvite(i, s, k) ==
    /\ i \notin Resent /\ invite[i].status = "none"
    /\ invite' = [invite EXCEPT ![i] = [status |-> "PENDING", student |-> s, cohort |-> k]]
    /\ UNCHANGED <<consent, member, place, assignment, roster, call>>

\* Accept, decline and resend each start from the invitation as they read it.
ReadInvite(c, i, pc) ==
    /\ call[c].pc = "idle"
    /\ invite[i].status = "PENDING"
    /\ call' = [call EXCEPT ![c] = [Blank EXCEPT !.pc = pc, !.invite = i,
                                    !.student = invite[i].student, !.cohort = invite[i].cohort]]
    /\ UNCHANGED <<invite, consent, member, place, assignment, roster>>

\* The student, signed in with the invited email, opens a link that still works.
AcceptAsk(c, i) == ReadInvite(c, i, "accept.consent")

\* Mutant: a consent that cannot be recorded is let go.
AcceptConsentBestEffort(c) ==
    /\ At(c, "accept.consent")
    /\ \/ member[call[c].student] = "REMOVED" /\ End(c)
       \/ member[call[c].student] # "REMOVED" /\ Goto(c, "accept.member")
    /\ UNCHANGED <<invite, consent, member, place, assignment, roster>>

\* A removed member is refused; otherwise the consent comes first, unless it
\* was recorded before.
AcceptConsent(c) ==
    /\ At(c, "accept.consent")
    /\ \/ member[call[c].student] = "REMOVED" /\ End(c) /\ UNCHANGED consent
       \/ /\ member[call[c].student] # "REMOVED"
          /\ consent' = consent \cup {call[c].student}
          /\ Goto(c, "accept.member")
    /\ UNCHANGED <<invite, member, place, assignment, roster>>

\* Mutant: the invitation is marked with the membership, not last.
AcceptMemberMarks(c) ==
    /\ At(c, "accept.member")
    /\ member' = [member EXCEPT ![call[c].student] = "ACTIVE"]
    /\ invite' = [invite EXCEPT ![call[c].invite].status = "ACCEPTED"]
    /\ Goto(c, IF call[c].cohort = None THEN "accept.mark" ELSE "join")
    /\ UNCHANGED <<consent, place, assignment, roster>>

\* upsertMembership, whatever the row has become since.
AcceptMember(c) ==
    /\ At(c, "accept.member")
    /\ member' = [member EXCEPT ![call[c].student] = "ACTIVE"]
    /\ Goto(c, IF call[c].cohort = None THEN "accept.mark" ELSE "join")
    /\ UNCHANGED <<invite, consent, place, assignment, roster>>

\* The invitation is marked last, whatever it has become since.
AcceptMark(c) ==
    /\ At(c, "accept.mark")
    /\ invite' = [invite EXCEPT ![call[c].invite].status = "ACCEPTED"]
    /\ End(c)
    /\ UNCHANGED <<consent, member, place, assignment, roster>>

DeclineAsk(c, i) == ReadInvite(c, i, "decline")

DeclineWrite(c) ==
    /\ At(c, "decline")
    /\ invite' = [invite EXCEPT ![call[c].invite].status = "DECLINED"]
    /\ End(c)
    /\ UNCHANGED <<consent, member, place, assignment, roster>>

\* resendInvite does not look at the expiry.
ResendAsk(c, i) == ReadInvite(c, i, "resend.create")

ResendCreate(c, j) ==
    /\ At(c, "resend.create")
    /\ j \in Resent /\ invite[j].status = "none"
    /\ invite' = [invite EXCEPT ![j] = [status |-> "PENDING", student |-> call[c].student, cohort |-> call[c].cohort]]
    /\ Goto(c, "resend.revoke")
    /\ UNCHANGED <<consent, member, place, assignment, roster>>

\* The old link stops working, whatever has been done with it since.
ResendRevoke(c) ==
    /\ At(c, "resend.revoke")
    /\ invite' = [invite EXCEPT ![call[c].invite].status = "REVOKED"]
    /\ End(c)
    /\ UNCHANGED <<consent, member, place, assignment, roster>>

-----------------------------------------------------------------------------
(* Cohorts and rosters *)

\* Mutant: only an acceptance refreshes the rosters.
JoinUnsynced(c) ==
    /\ At(c, "join")
    /\ place' = [place EXCEPT ![call[c].cohort][call[c].student] = "ACTIVE"]
    /\ IF call[c].invite = None THEN End(c) ELSE Goto(c, "sync.list")
    /\ UNCHANGED <<invite, consent, member, assignment, roster>>

\* addCohortMember: an upsert that brings a removed row back.
Join(c) ==
    /\ At(c, "join")
    /\ place' = [place EXCEPT ![call[c].cohort][call[c].student] = "ACTIVE"]
    /\ Goto(c, "sync.list")
    /\ UNCHANGED <<invite, consent, member, assignment, roster>>

\* Mutant: every live assignment is taken, whatever it targets.
SyncListAll(c) ==
    /\ At(c, "sync.list")
    /\ call' = [call EXCEPT ![c].pc = "sync.add", ![c].todo = {a \in Assignments : assignment[a].status = "live"}]
    /\ UNCHANGED <<invite, consent, member, place, assignment, roster>>

\* syncRoster: the live assignments that target the cohort ...
SyncList(c) ==
    /\ At(c, "sync.list")
    /\ call' = [call EXCEPT ![c].pc = "sync.add",
                            ![c].todo = {a \in Assignments : assignment[a].status = "live"
                                                             /\ call[c].cohort \in assignment[a].targets}]
    /\ UNCHANGED <<invite, consent, member, place, assignment, roster>>

\* ... take the student, one by one.
SyncAdd(c, a) ==
    /\ At(c, "sync.add")
    /\ a \in call[c].todo
    /\ roster' = [roster EXCEPT ![a] = @ \cup {call[c].student}]
    /\ call' = [call EXCEPT ![c].todo = @ \ {a}]
    /\ UNCHANGED <<invite, consent, member, place, assignment>>

\* An acceptance goes on to its mark, a move to its next student.
SyncEnd(c) ==
    /\ At(c, "sync.add") /\ call[c].todo = {}
    /\ Goto(c, IF call[c].invite = None THEN "move" ELSE "accept.mark")
    /\ UNCHANGED <<invite, consent, member, place, assignment, roster>>

\* moveStudents: who is eligible is read once, before the first student moves.
MoveAsk(c, chosen, from, to) ==
    LET eligible == {s \in chosen : member[s] = "ACTIVE"} IN
    /\ call[c].pc = "idle"
    /\ eligible # {}
    /\ call' = [call EXCEPT ![c] = [Blank EXCEPT !.pc = "move", !.people = eligible, !.from = from, !.cohort = to]]
    /\ UNCHANGED <<invite, consent, member, place, assignment, roster>>

\* removeCohortMember: an UPDATE, so a row that is not there stays so.
Left(k, s) == [place EXCEPT ![k][s] = IF @ = "none" THEN "none" ELSE "REMOVED"]

\* The cohort left behind is forgotten with the last student.
MoveLeave(c, s) ==
    /\ At(c, "move")
    /\ s \in call[c].people
    /\ place' = IF call[c].from = None THEN place ELSE Left(call[c].from, s)
    /\ call' = [call EXCEPT ![c].pc = "join", ![c].student = s, ![c].people = @ \ {s},
                            ![c].from = IF call[c].people = {s} THEN None ELSE @]
    /\ UNCHANGED <<invite, consent, member, assignment, roster>>

MoveEnd(c) ==
    /\ At(c, "move") /\ call[c].people = {}
    /\ End(c)
    /\ UNCHANGED <<invite, consent, member, place, assignment, roster>>

RemoveFromCohort(k, s) ==
    /\ place[k][s] # "none"
    /\ place' = Left(k, s)
    /\ UNCHANGED <<invite, consent, member, assignment, roster, call>>

\* removeMember takes the membership only: cohorts and rosters keep the student.
RemoveMember(s) ==
    /\ member[s] = "ACTIVE"
    /\ member' = [member EXCEPT ![s] = "REMOVED"]
    /\ UNCHANGED <<invite, consent, place, assignment, roster, call>>

-----------------------------------------------------------------------------
(* Assignments *)

\* The assignment and its targets are one transaction ...
AssignCreate(c, a, targets) ==
    /\ call[c].pc = "idle"
    /\ assignment[a].status = "none"
    /\ targets # {}
    /\ assignment' = [assignment EXCEPT ![a] = [status |-> "live", targets |-> targets]]
    /\ call' = [call EXCEPT ![c] = [Blank EXCEPT !.pc = "assign", !.assignment = a, !.cohorts = targets]]
    /\ UNCHANGED <<invite, consent, member, place, roster>>

\* ... then the members of each cohort are listed ...
AssignList(c, k) ==
    /\ At(c, "assign") /\ call[c].people = {}
    /\ k \in call[c].cohorts
    /\ call' = [call EXCEPT ![c].cohorts = @ \ {k}, ![c].people = {s \in Students : place[k][s] = "ACTIVE"}]
    /\ UNCHANGED <<invite, consent, member, place, assignment, roster>>

\* ... and put on the roster.
AssignAdd(c, s) ==
    /\ At(c, "assign")
    /\ s \in call[c].people
    /\ roster' = [roster EXCEPT ![call[c].assignment] = @ \cup {s}]
    /\ call' = [call EXCEPT ![c].people = @ \ {s}]
    /\ UNCHANGED <<invite, consent, member, place, assignment>>

AssignEnd(c) ==
    /\ At(c, "assign") /\ call[c].people = {} /\ call[c].cohorts = {}
    /\ End(c)
    /\ UNCHANGED <<invite, consent, member, place, assignment, roster>>

\* closeAssignment, CLOSED or CANCELLED; the seats it returns are SponsoredSession's.
CloseAssignment(a) ==
    /\ assignment[a].status = "live"
    /\ assignment' = [assignment EXCEPT ![a].status = "closed"]
    /\ UNCHANGED <<invite, consent, member, place, roster, call>>

-----------------------------------------------------------------------------
\* A store call fails or the process stops: nothing that was written is undone.
\* Of a request that stops only what it left owing to a roster is remembered.
Stops(c) ==
    /\ call[c].pc # "idle" /\ ~call[c].stopped
    /\ LET owing == [Blank EXCEPT !.pc = call[c].pc, !.student = call[c].student, !.cohort = call[c].cohort,
                                   !.assignment = call[c].assignment, !.stopped = TRUE] IN
       call' = [call EXCEPT ![c] = IF call[c].pc \in Owing THEN owing ELSE Blank]
    /\ UNCHANGED <<invite, consent, member, place, assignment, roster>>

Invitation(c) ==
    \/ \E i \in Invites : AcceptAsk(c, i) \/ DeclineAsk(c, i) \/ ResendAsk(c, i) \/ ResendCreate(c, i)
    \/ AcceptConsent(c) \/ AcceptMember(c) \/ AcceptMark(c)
    \/ DeclineWrite(c) \/ ResendRevoke(c)

Rostering(c) ==
    \/ Join(c) \/ SyncList(c) \/ SyncEnd(c) \/ MoveEnd(c) \/ AssignEnd(c)
    \/ \E a \in Assignments : SyncAdd(c, a)
    \/ \E s \in Students : MoveLeave(c, s) \/ AssignAdd(c, s)
    \/ \E k \in Cohorts : AssignList(c, k)
    \/ \E chosen \in SUBSET Students, from \in Cohorts \cup {None}, to \in Cohorts : MoveAsk(c, chosen, from, to)
    \/ \E a \in Assignments, targets \in SUBSET Cohorts : AssignCreate(c, a, targets)

\* Requests of one write.
Single ==
    \/ \E i \in Invites : \E s \in Students, k \in Cohorts \cup {None} : CreateInvite(i, s, k)
    \/ \E s \in Students : RemoveMember(s) \/ \E k \in Cohorts : RemoveFromCohort(k, s)
    \/ \E a \in Assignments : CloseAssignment(a)

Next == (\E c \in Calls : Invitation(c) \/ Rostering(c) \/ Stops(c)) \/ Single

Spec == Init /\ [][Next]_vars

-----------------------------------------------------------------------------
(* Properties *)

\* An active membership never exists without the disclosure the student
\* acknowledged, wherever an acceptance stops ("Consent first").
DisclosureFirst == \A s \in Students : member[s] = "ACTIVE" => s \in consent

\* An invitation is marked ACCEPTED only when everything else it writes is
\* there, so that one cut short can be accepted again ("a retry completes a
\* partial acceptance").  Later removals leave rows behind, not none.
AcceptedIsComplete ==
    \A i \in Invites : invite[i].status = "ACCEPTED" =>
        LET s == invite[i].student
            k == invite[i].cohort IN
        /\ s \in consent /\ member[s] # "none"
        /\ k # None => place[k][s] # "none"

\* Acceptance (campusAdmin/service.js, acceptMembershipInvitation), stopped and
\* repeated anywhere: consent first, and the mark last.
AcceptanceSound == DisclosureFirst /\ AcceptedIsComplete

\* A request that owes s an entry on the roster of a: it has yet to list, holds
\* the entry in hand, or was cut short.
SyncOwes(r, a, k, s) ==
    /\ r.pc \in {"sync.list", "sync.add"} /\ r.student = s /\ r.cohort = k
    /\ r.pc = "sync.list" \/ a \in r.todo \/ r.stopped

AssignOwes(r, a, k, s) ==
    /\ r.pc = "assign" /\ r.assignment = a
    /\ k \in r.cohorts \/ s \in r.people \/ r.stopped

\* A member of a cohort is on the roster of every live assignment that targets
\* it, or some request owes the entry: joining a cohort and launching an
\* assignment may race, and one of the two always sees the other.
RosterCovers ==
    \A a \in Assignments, s \in Students : \A k \in assignment[a].targets :
        (assignment[a].status = "live" /\ place[k][s] = "ACTIVE") =>
            s \in roster[a] \/ \E c \in Calls : SyncOwes(call[c], a, k, s) \/ AssignOwes(call[c], a, k, s)

\* Nobody is rostered who never belonged to a cohort the assignment targets.
RosterFromTargets ==
    \A a \in Assignments : \A s \in roster[a] : \E k \in assignment[a].targets : place[k][s] # "none"

\* The rosters of live assignments follow the cohorts they target.
RosterFollowsTargets == RosterCovers /\ RosterFromTargets

=============================================================================
