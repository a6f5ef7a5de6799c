---------------------------- MODULE CampusTeam ----------------------------
(***************************************************************************)
(* The staff of one organisation: changeRole, removeMember and              *)
(* assertNotLastOwner (server/domain/campusAdmin/service.js) and the         *)
(* acceptance of a staff invitation (server/domain/memberships/             *)
(* inviteService.js), over the rows of organization_memberships, one per    *)
(* user and role.                                                           *)
(*                                                                         *)
(* Every store call on a membership or an invitation is a step of its own   *)
(* and nothing locks, so an acceptance that dies after the membership       *)
(* leaves the invitation pending and can be retried.  The actor's           *)
(* memberships are read once, when the request is authenticated.  Three     *)
(* roles stand for all: the owner, a role that manages the team with full   *)
(* scope and one that does not.  Departments and cohort scopes of a row,    *)
(* workspaces, consents, audit events and notifications are left out.       *)
(***************************************************************************)
EXTENDS Naturals, FiniteSets

CONSTANTS
    Staff,        \* users
    TeamCalls,    \* requests
    Invited,      \* pending staff invitations, pairs of a user and a role
    FirstRole     \* [Staff -> roles]: the team at first

Roles == {"ORG_OWNER", "PLACEMENT_DIRECTOR", "FACULTY_MENTOR"}

ASSUME TeamAssumption ==
    /\ FirstRole \in [Staff -> Roles]
    /\ Invited \subseteq Staff \X Roles
    /\ \E u \in Staff : FirstRole[u] = "ORG_OWNER"

VARIABLES
    status,   \* organization_memberships: status per user and role, "none" without a row
    pending,  \* staff invitations not yet marked ACCEPTED
    team,     \* the requests
    entered,  \* history: invitations whose membership was written
    mixed,    \* history: users about whom two requests overlapped
    raced,    \* history: whether two owners were being removed at once
    cut       \* history: users whose role change was cut short

teamVars == <<status, pending, team, entered, mixed, raced, cut>>

TeamOps == {"change", "remove", "accept"}
Underway == {"count", "drop", "add"}
TeamSteps == {"idle", "read"} \cup Underway \cup {"mark", "done", "refused"}

TeamTypeOK ==
    /\ status \in [Staff -> [Roles -> {"none", "ACTIVE", "REMOVED"}]]
    /\ pending \subseteq Invited /\ entered \subseteq Invited
    /\ team \in [TeamCalls -> [pc : TeamSteps, op : TeamOps, byOwner : BOOLEAN,
                               user : Staff, role : Roles, to : Roles]]
    /\ mixed \subseteq Staff /\ raced \in BOOLEAN /\ cut \subseteq Staff

NoTeamCall == [pc |-> "idle", op |-> "change", byOwner |-> FALSE, user |-> CHOOSE u \in Staff : TRUE,
               role |-> "ORG_OWNER", to |-> "ORG_OWNER"]

TeamInit ==
    /\ status = [u \in Staff |-> [r \in Roles |-> IF r = FirstRole[u] THEN "ACTIVE" ELSE "none"]]
    /\ pending = Invited /\ entered = {}
    /\ team = [c \in TeamCalls |-> NoTeamCall]
    /\ mixed = {} /\ raced = FALSE /\ cut = {}

-----------------------------------------------------------------------------
Holds(u, r) == status[u][r] = "ACTIVE"
ManagesTeam(u) == Holds(u, "ORG_OWNER") \/ Holds(u, "PLACEMENT_DIRECTOR")
Owners == {u \in Staff : Holds(u, "ORG_OWNER")}

\* Requests other than c that are between their reads and their writes about u.
About(c, u) == {d \in TeamCalls \ {c} : team[d].pc \in Underway /\ team[d].user = u}

\* A request that was refused or broke off is forgotten; cut remembers the half change.
Step(c, pc) == team' = [team EXCEPT ![c] = IF pc = "refused" THEN [NoTeamCall EXCEPT !.pc = pc] ELSE [@ EXCEPT !.pc = pc]]

\* Authentication: the actor manages the team now; full scope is asked for, and nobody changes themselves.
Ask(c, actor, op, u, r, to) ==
    /\ team[c].pc = "idle"
    /\ actor # u /\ ManagesTeam(actor)
    /\ team' = [team EXCEPT ![c] = [pc |-> "read", op |-> op, byOwner |-> Holds(actor, "ORG_OWNER"),
                                    user |-> u, role |-> r, to |-> to]]
    /\ UNCHANGED <<status, pending, entered, mixed, raced, cut>>

AskChange(c, actor, u, r, to) == Ask(c, actor, "change", u, r, to)
AskRemove(c, actor, u, r) == Ask(c, actor, "remove", u, r, r)

\* acceptInvite: the invitation is loaded, for the user it was sent to.
AskAccept(c, u, r) ==
    /\ team[c].pc = "idle"
    /\ <<u, r>> \in pending
    /\ team' = [team EXCEPT ![c] = [pc |-> "read", op |-> "accept", byOwner |-> FALSE,
                                    user |-> u, role |-> r, to |-> r]]
    /\ UNCHANGED <<status, pending, entered, mixed, raced, cut>>

\* Owner access is granted and taken away by owners only.
OwnerRule(c) ==
    (team[c].role = "ORG_OWNER" \/ (team[c].op = "change" /\ team[c].to = "ORG_OWNER")) => team[c].byOwner

\* The row is read, and what the request does next follows from it.
Read(c) ==
    LET m == team[c]
        row == status[m.user][m.role]
        next == IF m.op = "accept" THEN IF row = "REMOVED" THEN "refused" ELSE "add"
                ELSE IF row # "ACTIVE" \/ ~OwnerRule(c) THEN "refused"
                ELSE IF m.op = "change" /\ m.to = m.role THEN "refused"
                ELSE IF m.role = "ORG_OWNER" THEN "count" ELSE "drop" IN
    /\ m.pc = "read"
    /\ Step(c, next)
    /\ mixed' = IF next \in Underway /\ About(c, m.user) # {} THEN mixed \cup {m.user} ELSE mixed
    /\ UNCHANGED <<status, pending, entered, raced, cut>>

\* assertNotLastOwner: counts, and the removal comes later.
Count(c) ==
    LET last == Cardinality(Owners) <= 1 IN
    /\ team[c].pc = "count"
    /\ Step(c, IF last THEN "refused" ELSE "drop")
    /\ raced' = (raced \/ (~last /\ \E d \in TeamCalls \ {c} :
                    team[d].pc = "drop" /\ team[d].role = "ORG_OWNER" /\ team[d].user # team[c].user))
    /\ UNCHANGED <<status, pending, entered, mixed, cut>>

\* setMembershipStatus(REMOVED): the whole removal, or the first half of a change.
Drop(c) ==
    /\ team[c].pc = "drop"
    /\ status' = [status EXCEPT ![team[c].user][team[c].role] = "REMOVED"]
    /\ Step(c, IF team[c].op = "change" THEN "add" ELSE "done")
    /\ UNCHANGED <<pending, entered, mixed, raced, cut>>

\* What is left of request c once its membership is written: an acceptance marks its invitation.
Written(c) ==
    LET m == team[c] IN
    /\ entered' = IF m.op = "accept" THEN entered \cup {<<m.user, m.to>>} ELSE entered
    /\ Step(c, IF m.op = "accept" THEN "mark" ELSE "done")
    /\ UNCHANGED <<pending, mixed, raced, cut>>

\* Mutant: a row that exists is left as it is (ON CONFLICT DO NOTHING).
AddIfNew(c) ==
    /\ team[c].pc = "add"
    /\ status' = [status EXCEPT ![team[c].user][team[c].to] = IF @ = "none" THEN "ACTIVE" ELSE @]
    /\ Written(c)

\* upsertMembership: whatever the row was, it is ACTIVE.
Add(c) ==
    /\ team[c].pc = "add"
    /\ status' = [status EXCEPT ![team[c].user][team[c].to] = "ACTIVE"]
    /\ Written(c)

\* updateInvite: the invitation is marked ACCEPTED last.
Mark(c) ==
    /\ team[c].pc = "mark"
    /\ pending' = pending \ {<<team[c].user, team[c].to>>}
    /\ Step(c, "done")
    /\ UNCHANGED <<status, entered, mixed, raced, cut>>

\* A store call fails or the process dies; what was written stays.
Breaks(c) ==
    /\ team[c].pc \in Underway \cup {"mark"}
    /\ Step(c, "refused")
    /\ cut' = IF team[c].op = "change" /\ team[c].pc = "add" THEN cut \cup {team[c].user} ELSE cut
    /\ UNCHANGED <<status, pending, entered, mixed, raced>>

TeamNext == \E c \in TeamCalls :
    \/ \E a, u \in Staff, r, to \in Roles : AskChange(c, a, u, r, to)
    \/ \E a, u \in Staff, r \in Roles : AskRemove(c, a, u, r)
    \/ \E u \in Staff, r \in Roles : AskAccept(c, u, r)
    \/ Read(c) \/ Count(c) \/ Drop(c) \/ Add(c) \/ Mark(c) \/ Breaks(c)

TeamSpec == TeamInit /\ [][TeamNext]_teamVars

-----------------------------------------------------------------------------
(* Properties *)

\* "An organization needs at least one owner." (assertNotLastOwner): it has one
\* as long as no two owners are removed or demoted at the same time, however
\* many requests, failures and acceptances there are.
OwnerRemains == raced \/ Owners # {}

\* A change of role replaces a role: unless two requests about the same member
\* overlapped, a member holds one role for the first one and for each invitation
\* whose membership was written, marked or not, and a retried acceptance counts
\* once.
RoleIsReplaced ==
    \A u \in Staff \ mixed :
        Cardinality({r \in Roles : Holds(u, r)}) <= 1 + Cardinality({i \in entered : i[1] = u})

\* A member whose role was changed does not fall out of the organisation:
\* without a removal, an overlap or a change cut short, some role stays active.
NobodyStranded ==
    \A u \in Staff \ (mixed \cup cut) :
        \/ \E r \in Roles : Holds(u, r)
        \/ \E c \in TeamCalls : team[c].user = u /\ (team[c].pc = "add" \/ (team[c].op = "remove" /\ team[c].pc = "done"))

\* A removal that was answered holds: without an overlap the member has that
\* role again only by a change of another role of theirs, not by a link that is still around.
RemovedStaysOut ==
    \A c \in TeamCalls :
        (team[c].op = "remove" /\ team[c].pc = "done" /\ team[c].user \notin mixed /\ Holds(team[c].user, team[c].role))
            => \E d \in TeamCalls : team[d].op = "change" /\ team[d].user = team[c].user /\ team[d].to = team[c].role

\* "the invite is marked ACCEPTED last, so a retry completes a partial
\* acceptance": an invitation that can no longer be accepted has its membership
\* row, wherever an acceptance died.
MarkedOnceWritten == \A i \in Invited \ pending : status[i[1]][i[2]] # "none"

\* Unless requests about the same people overlap, the team keeps an owner, its
\* members and nobody it removed; an invitation is spent on a membership only.
TeamSound == OwnerRemains /\ RoleIsReplaced /\ NobodyStranded /\ RemovedStaysOut /\ MarkedOnceWritten
=============================================================================
