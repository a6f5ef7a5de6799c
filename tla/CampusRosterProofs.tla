------------------------- MODULE CampusRosterProofs -------------------------
(***************************************************************************)
(* Proofs about CampusRoster, for any number of students, invitations,      *)
(* cohorts, assignments and requests.                                       *)
(***************************************************************************)
EXTENDS CampusRoster, TLAPS

\* What an acceptance has established by the step it has reached: the request
\* holds its invitation's student and cohort, and has written what comes before.
Established(r) ==
    /\ r.invite # None => r.student = invite[r.invite].student /\ r.cohort = invite[r.invite].cohort
    /\ r.pc = "accept.member" => r.student \in consent
    /\ (r.invite # None /\ r.pc \in Joining \cup {"accept.mark"}) =>
          r.student \in consent /\ member[r.student] # "none"
    /\ r.pc \in {"sync.list", "sync.add"} => place[r.cohort][r.student] # "none"
    /\ (r.pc = "accept.mark" /\ r.cohort # None) => place[r.cohort][r.student] # "none"

AcceptInv == \A c \in Calls : Established(call[c])

\* What a request carries towards a roster comes from a cohort it targets.
Carried(r) ==
    /\ \A a \in r.todo : r.cohort \in assignment[a].targets
    /\ r.todo # {} => r.pc = "sync.add"
    /\ r.pc = "assign" =>
         /\ assignment[r.assignment].status # "none"
         /\ r.cohorts \subseteq assignment[r.assignment].targets
         /\ \A s \in r.people : \E k \in assignment[r.assignment].targets : place[k][s] # "none"

TargetInv ==
    /\ \A a \in Assignments : assignment[a].status = "none" => assignment[a].targets = {}
    /\ \A c \in Calls : Carried(call[c])

\* Rows that were written stay, whatever becomes of their status.
RowsStay ==
    /\ \A i \in Invites : invite[i].status # "none" =>
         invite'[i].status # "none" /\ invite'[i].student = invite[i].student /\ invite'[i].cohort = invite[i].cohort
    /\ consent \subseteq consent'
    /\ \A s \in Students : member[s] # "none" => member'[s] # "none"
    /\ \A k \in Cohorts, s \in Students : place[k][s] # "none" => place'[k][s] # "none"
    /\ \A a \in Assignments : assignment[a].status # "none" =>
         assignment'[a].status # "none" /\ assignment'[a].targets = assignment[a].targets

-----------------------------------------------------------------------------
(* Types *)

\* The part of TypeOK that is about requests.
CallsOK ==
    /\ call \in [Calls -> CallRecords]
    /\ \A c \in Calls : Fits(call[c]) /\ (call[c].invite # None => invite[call[c].invite].status # "none")

\* An invitation that was sent stays sent.
SentStaysSent == \A i \in Invites : invite[i].status # "none" => invite'[i].status # "none"

\* A request that steps to a fitting record leaves every request fitting.
LEMMA CallStep ==
    ASSUME TypeOK, SentStaysSent, NEW c \in Calls, NEW r, Fits(r), call' = [call EXCEPT ![c] = r],
           r.invite # None => invite'[r.invite].status # "none"
    PROVE  CallsOK'
<1>1. call' \in [Calls -> CallRecords]
  BY DEF TypeOK, Fits
<1>2. ASSUME NEW d \in Calls
      PROVE  Fits(call'[d]) /\ (call'[d].invite # None => invite'[call'[d].invite].status # "none")
  <2>1. CASE d = c
    <3>1. call'[d] = r
      BY <2>1 DEF TypeOK
    <3> QED BY <3>1
  <2>2. CASE d # c
    <3>1. call'[d] = call[d]
      BY <2>2 DEF TypeOK
    <3>2. Fits(call[d]) /\ (call[d].invite # None => invite[call[d].invite].status # "none")
      BY DEF TypeOK
    <3>3. call[d].invite # None => call[d].invite \in Invites
      BY DEF TypeOK, CallRecords
    <3> QED BY <3>1, <3>2, <3>3 DEF SentStaysSent
  <2> QED BY <2>1, <2>2
<1> QED BY <1>1, <1>2 DEF CallsOK

\* An idle request fits.
LEMMA BlankFits == Fits(Blank) /\ Blank.invite = None
BY DEF Fits, Blank, CallRecords, Steps, Accepting, Joining, Owing

\* A request that ends leaves types alone.
LEMMA EndStep == ASSUME TypeOK, SentStaysSent, NEW c \in Calls, End(c) PROVE CallsOK'
BY CallStep, BlankFits DEF End

\* So does one that goes to a step it has the material for.
LEMMA GotoStep ==
    ASSUME TypeOK, SentStaysSent, NEW c \in Calls, NEW pc, Goto(c, pc), Fits([call[c] EXCEPT !.pc = pc])
    PROVE  CallsOK'
<1> DEFINE r == [call[c] EXCEPT !.pc = pc]
<1>1. call' = [call EXCEPT ![c] = r]
  BY DEF Goto
<1>2. r.invite = call[c].invite
  BY DEF TypeOK, CallRecords
<1>3. r.invite # None => invite'[r.invite].status # "none"
  BY <1>2 DEF TypeOK, SentStaysSent, CallRecords
<1> HIDE DEF r
<1> QED BY <1>1, <1>3, CallStep DEF r

\* Marking a sent invitation keeps invitations in their type.
LEMMA MarkStep ==
    ASSUME TypeOK, NEW i \in Invites, invite[i].status # "none", NEW st \in InviteStatuses \ {"none"},
           invite' = [invite EXCEPT ![i].status = st]
    PROVE  /\ invite' \in [Invites -> InviteRecords]
           /\ \A j \in Invites : invite'[j].status # "none" => invite'[j].student \in Students
           /\ SentStaysSent
           /\ \A j \in Invites : invite'[j].student = invite[j].student /\ invite'[j].cohort = invite[j].cohort
BY DEF TypeOK, InviteRecords, SentStaysSent

\* So does sending a new one.
LEMMA SendStep ==
    ASSUME TypeOK, NEW i \in Invites, NEW s \in Students, NEW k \in Cohorts \cup {None},
           invite' = [invite EXCEPT ![i] = [status |-> "PENDING", student |-> s, cohort |-> k]]
    PROVE  /\ invite' \in [Invites -> InviteRecords]
           /\ \A j \in Invites : invite'[j].status # "none" => invite'[j].student \in Students
           /\ SentStaysSent
BY DEF TypeOK, InviteRecords, InviteStatuses, SentStaysSent

\* Initially the types hold.
LEMMA TypeInit == Init => TypeOK
<1> SUFFICES ASSUME Init PROVE TypeOK
  OBVIOUS
<1>1. call \in [Calls -> CallRecords]
  BY BlankFits DEF Init, Fits
<1>2. \A c \in Calls : Fits(call[c]) /\ call[c].invite = None
  BY BlankFits DEF Init
<1> QED BY <1>1, <1>2 DEF Init, TypeOK, InviteRecords, InviteStatuses, RowStatuses

\* The steps of an acceptance, a refusal or a resend keep the types.
LEMMA TypeInvitation ==
    ASSUME TypeOK, NEW c \in Calls, Invitation(c) PROVE TypeOK'
<1>0. call[c] \in CallRecords /\ Fits(call[c]) /\ (call[c].invite # None => invite[call[c].invite].status # "none")
  BY DEF TypeOK
<1>s. UNCHANGED invite => SentStaysSent
  BY DEF SentStaysSent
<1>h. call[c].pc \in Accepting \cup {"decline", "resend.create", "resend.revoke"} =>
        call[c].invite \in Invites /\ invite[call[c].invite].status # "none"
  BY <1>0, RosterAssumption DEF Fits
<1>1. ASSUME NEW i \in Invites, NEW pc \in {"accept.consent", "decline", "resend.create"}, ReadInvite(c, i, pc)
      PROVE  TypeOK'
  <2> DEFINE r == [Blank EXCEPT !.pc = pc, !.invite = i, !.student = invite[i].student, !.cohort = invite[i].cohort]
  <2>1. Fits(r) /\ r.invite = i
    BY <1>1 DEF TypeOK, Blank, ReadInvite, InviteRecords, Fits, CallRecords, Steps, Accepting, Joining, Owing
  <2>2. call' = [call EXCEPT ![c] = r] /\ invite'[i].status # "none"
    BY <1>1 DEF ReadInvite
  <2> HIDE DEF r
  <2>3. CallsOK'
    BY <1>1, <1>s, <2>1, <2>2, CallStep DEF ReadInvite
  <2> QED BY <1>1, <2>3 DEF TypeOK, CallsOK, ReadInvite
<1>2. CASE AcceptConsent(c)
  <2>1. call[c].pc = "accept.consent" /\ call[c].student \in Students
    BY <1>0, <1>2 DEF AcceptConsent, At, Fits, Accepting
  <2>2. Fits([call[c] EXCEPT !.pc = "accept.member"])
    BY <1>0, <2>1 DEF Fits, CallRecords, Steps, Accepting, Joining, Owing
  <2>3. CallsOK'
    BY <1>2, <1>s, <2>2, EndStep, GotoStep DEF AcceptConsent
  <2> QED BY <1>2, <2>1, <2>3 DEF TypeOK, CallsOK, AcceptConsent
<1>3. CASE AcceptMember(c)
  <2>1. call[c].pc = "accept.member" /\ call[c].student \in Students
    BY <1>0, <1>3 DEF AcceptMember, At, Fits, Accepting
  <2>2. Fits([call[c] EXCEPT !.pc = IF call[c].cohort = None THEN "accept.mark" ELSE "join"])
    BY <1>0, <2>1 DEF Fits, CallRecords, Steps, Accepting, Joining, Owing
  <2>3. CallsOK'
    BY <1>3, <1>s, <2>2, GotoStep DEF AcceptMember
  <2> QED BY <1>3, <2>1, <2>3 DEF TypeOK, CallsOK, AcceptMember, RowStatuses
<1>4. CASE AcceptMark(c)
  <2>1. call[c].pc = "accept.mark"
    BY <1>4 DEF AcceptMark, At
  <2>2. /\ invite' \in [Invites -> InviteRecords] /\ SentStaysSent
        /\ \A j \in Invites : invite'[j].status # "none" => invite'[j].student \in Students
    <3>1. call[c].invite \in Invites /\ invite[call[c].invite].status # "none"
      BY <1>h, <2>1 DEF Accepting
    <3>2. "ACCEPTED" \in InviteStatuses \ {"none"}
      BY DEF InviteStatuses
    <3>3. invite' = [invite EXCEPT ![call[c].invite].status = "ACCEPTED"]
      BY <1>4 DEF AcceptMark
    <3> QED BY <3>1, <3>2, <3>3, MarkStep, Zenon
  <2>3. CallsOK'
    BY <1>4, <2>2, EndStep DEF AcceptMark
  <2> QED BY <1>4, <2>2, <2>3 DEF TypeOK, CallsOK, AcceptMark
<1>5. CASE DeclineWrite(c)
  <2>1. call[c].pc = "decline"
    BY <1>5 DEF DeclineWrite, At
  <2>2. /\ invite' \in [Invites -> InviteRecords] /\ SentStaysSent
        /\ \A j \in Invites : invite'[j].status # "none" => invite'[j].student \in Students
    <3>1. call[c].invite \in Invites /\ invite[call[c].invite].status # "none"
      BY <1>h, <2>1 DEF Accepting
    <3>2. "DECLINED" \in InviteStatuses \ {"none"}
      BY DEF InviteStatuses
    <3>3. invite' = [invite EXCEPT ![call[c].invite].status = "DECLINED"]
      BY <1>5 DEF DeclineWrite
    <3> QED BY <3>1, <3>2, <3>3, MarkStep, Zenon
  <2>3. CallsOK'
    BY <1>5, <2>2, EndStep DEF DeclineWrite
  <2> QED BY <1>5, <2>2, <2>3 DEF TypeOK, CallsOK, DeclineWrite
<1>6. ASSUME NEW j \in Invites, ResendCreate(c, j) PROVE TypeOK'
  <2>1. call[c].pc = "resend.create" /\ call[c].student \in Students /\ call[c].cohort \in Cohorts \cup {None}
    BY <1>0, <1>6 DEF ResendCreate, At, Fits, CallRecords
  <2>2. /\ invite' \in [Invites -> InviteRecords] /\ SentStaysSent
        /\ \A i \in Invites : invite'[i].status # "none" => invite'[i].student \in Students
    BY <1>6, <2>1, SendStep DEF ResendCreate
  <2>3. Fits([call[c] EXCEPT !.pc = "resend.revoke"])
    BY <1>0, <2>1 DEF Fits, CallRecords, Steps, Accepting, Joining, Owing
  <2>4. CallsOK'
    BY <1>6, <2>2, <2>3, GotoStep DEF ResendCreate
  <2> QED BY <1>6, <2>2, <2>4 DEF TypeOK, CallsOK, ResendCreate
<1>7. CASE ResendRevoke(c)
  <2>1. call[c].pc = "resend.revoke"
    BY <1>7 DEF ResendRevoke, At
  <2>2. /\ invite' \in [Invites -> InviteRecords] /\ SentStaysSent
        /\ \A j \in Invites : invite'[j].status # "none" => invite'[j].student \in Students
    <3>1. call[c].invite \in Invites /\ invite[call[c].invite].status # "none"
      BY <1>h, <2>1 DEF Accepting
    <3>2. "REVOKED" \in InviteStatuses \ {"none"}
      BY DEF InviteStatuses
    <3>3. invite' = [invite EXCEPT ![call[c].invite].status = "REVOKED"]
      BY <1>7 DEF ResendRevoke
    <3> QED BY <3>1, <3>2, <3>3, MarkStep, Zenon
  <2>3. CallsOK'
    BY <1>7, <2>2, EndStep DEF ResendRevoke
  <2> QED BY <1>7, <2>2, <2>3 DEF TypeOK, CallsOK, ResendRevoke
<1> QED BY <1>1, <1>2, <1>3, <1>4, <1>5, <1>6, <1>7 DEF Invitation, AcceptAsk, DeclineAsk, ResendAsk

\* Moves, joins, roster refreshes and launches keep the types.
LEMMA TypeRostering ==
    ASSUME TypeOK, NEW c \in Calls, Rostering(c) PROVE TypeOK'
<1>0. call[c] \in CallRecords /\ Fits(call[c]) /\ (call[c].invite # None => invite[call[c].invite].status # "none")
  BY DEF TypeOK
<1>s. UNCHANGED invite => SentStaysSent
  BY DEF SentStaysSent
<1>i. ASSUME NEW r, r.invite = call[c].invite, UNCHANGED invite
      PROVE  r.invite # None => invite'[r.invite].status # "none"
  BY <1>0, <1>i
<1>1. CASE Join(c)
  <2>1. call[c].pc = "join" /\ call[c].student \in Students /\ call[c].cohort \in Cohorts
    BY <1>0, <1>1 DEF Join, At, Fits, Joining
  <2>2. Fits([call[c] EXCEPT !.pc = "sync.list"])
    BY <1>0, <2>1 DEF Fits, CallRecords, Steps, Accepting, Joining, Owing
  <2>3. CallsOK'
    BY <1>1, <1>s, <2>2, GotoStep DEF Join
  <2>4. place' \in [Cohorts -> [Students -> RowStatuses]]
    BY <1>1, <2>1 DEF TypeOK, Join, RowStatuses
  <2> QED BY <1>1, <2>3, <2>4 DEF TypeOK, CallsOK, Join
<1>2. CASE SyncList(c)
  <2> DEFINE todo == {a \in Assignments : assignment[a].status = "live" /\ call[c].cohort \in assignment[a].targets}
             r == [call[c] EXCEPT !.pc = "sync.add", !.todo = todo]
  <2>1. call' = [call EXCEPT ![c] = r]
    BY <1>2 DEF SyncList
  <2>2. Fits(r) /\ r.invite = call[c].invite
    BY <1>0, <1>2 DEF SyncList, At, Fits, CallRecords, Steps, Accepting, Joining, Owing
  <2> HIDE DEF r
  <2>3. CallsOK'
    BY <1>2, <1>s, <1>i, <2>1, <2>2, CallStep DEF SyncList
  <2> QED BY <1>2, <2>3 DEF TypeOK, CallsOK, SyncList
<1>3. ASSUME NEW a \in Assignments, SyncAdd(c, a) PROVE TypeOK'
  <2> DEFINE r == [call[c] EXCEPT !.todo = @ \ {a}]
  <2>1. call' = [call EXCEPT ![c] = r]
    BY <1>3 DEF SyncAdd
  <2>2. Fits(r) /\ r.invite = call[c].invite
    BY <1>0, <1>3 DEF SyncAdd, At, Fits, CallRecords, Steps, Accepting, Joining, Owing
  <2> HIDE DEF r
  <2>3. CallsOK'
    BY <1>3, <1>s, <1>i, <2>1, <2>2, CallStep DEF SyncAdd
  <2>4. call[c].student \in Students
    BY <1>0, <1>3 DEF SyncAdd, At, Fits, Joining
  <2>5. roster' \in [Assignments -> SUBSET Students]
    BY <1>3, <2>4 DEF TypeOK, SyncAdd
  <2> QED BY <1>3, <2>3, <2>5 DEF TypeOK, CallsOK, SyncAdd
<1>4. CASE SyncEnd(c)
  <2>1. Fits([call[c] EXCEPT !.pc = IF call[c].invite = None THEN "move" ELSE "accept.mark"])
    BY <1>0, <1>4 DEF SyncEnd, At, Fits, CallRecords, Steps, Accepting, Joining, Owing
  <2>2. CallsOK'
    BY <1>4, <1>s, <2>1, GotoStep DEF SyncEnd
  <2> QED BY <1>4, <2>2 DEF TypeOK, CallsOK, SyncEnd
<1>5. ASSUME NEW chosen \in SUBSET Students, NEW from \in Cohorts \cup {None}, NEW to \in Cohorts,
             MoveAsk(c, chosen, from, to)
      PROVE  TypeOK'
  <2> DEFINE eligible == {s \in chosen : member[s] = "ACTIVE"}
             r == [Blank EXCEPT !.pc = "move", !.people = eligible, !.from = from, !.cohort = to]
  <2>1. call' = [call EXCEPT ![c] = r]
    BY <1>5 DEF MoveAsk
  <2>2. Fits(r) /\ r.invite = None
    BY <1>0, <1>5 DEF MoveAsk, Blank, Fits, CallRecords, Steps, Accepting, Joining, Owing
  <2> HIDE DEF r
  <2>3. CallsOK'
    BY <1>5, <1>s, <2>1, <2>2, CallStep DEF MoveAsk
  <2> QED BY <1>5, <2>3 DEF TypeOK, CallsOK, MoveAsk
<1>6. ASSUME NEW s \in Students, MoveLeave(c, s) PROVE TypeOK'
  <2> DEFINE r == [call[c] EXCEPT !.pc = "join", !.student = s, !.people = @ \ {s},
                                  !.from = IF call[c].people = {s} THEN None ELSE @]
  <2>1. call' = [call EXCEPT ![c] = r]
    BY <1>6 DEF MoveLeave
  <2>2. Fits(r) /\ r.invite = call[c].invite
    BY <1>0, <1>6 DEF MoveLeave, At, Fits, CallRecords, Steps, Accepting, Joining, Owing
  <2> HIDE DEF r
  <2>3. CallsOK'
    BY <1>6, <1>s, <1>i, <2>1, <2>2, CallStep DEF MoveLeave
  <2>4. call[c].from \in Cohorts \cup {None}
    BY <1>0 DEF CallRecords
  <2>5. place' \in [Cohorts -> [Students -> RowStatuses]]
    BY <1>6, <2>4 DEF TypeOK, MoveLeave, Left, RowStatuses
  <2> QED BY <1>6, <2>3, <2>5 DEF TypeOK, CallsOK, MoveLeave
<1>7. CASE MoveEnd(c)
  <2>1. CallsOK'
    BY <1>7, <1>s, EndStep DEF MoveEnd
  <2> QED BY <1>7, <2>1 DEF TypeOK, CallsOK, MoveEnd
<1>8. ASSUME NEW a \in Assignments, NEW targets \in SUBSET Cohorts, AssignCreate(c, a, targets) PROVE TypeOK'
  <2> DEFINE r == [Blank EXCEPT !.pc = "assign", !.assignment = a, !.cohorts = targets]
  <2>1. call' = [call EXCEPT ![c] = r]
    BY <1>8 DEF AssignCreate
  <2>2. Fits(r) /\ r.invite = None
    BY <1>8 DEF Blank, Fits, CallRecords, Steps, Accepting, Joining, Owing
  <2> HIDE DEF r
  <2>3. CallsOK'
    BY <1>8, <1>s, <2>1, <2>2, CallStep DEF AssignCreate
  <2> QED BY <1>8, <2>3 DEF TypeOK, CallsOK, AssignCreate
<1>9. ASSUME NEW k \in Cohorts, AssignList(c, k) PROVE TypeOK'
  <2> DEFINE listed == {s \in Students : place[k][s] = "ACTIVE"}
             r == [call[c] EXCEPT !.cohorts = @ \ {k}, !.people = listed]
  <2>1. call' = [call EXCEPT ![c] = r]
    BY <1>9 DEF AssignList
  <2>2. Fits(r) /\ r.invite = call[c].invite
    BY <1>0, <1>9 DEF AssignList, At, Fits, CallRecords, Steps, Accepting, Joining, Owing
  <2> HIDE DEF r
  <2>3. CallsOK'
    BY <1>9, <1>s, <1>i, <2>1, <2>2, CallStep DEF AssignList
  <2> QED BY <1>9, <2>3 DEF TypeOK, CallsOK, AssignList
<1>10. ASSUME NEW s \in Students, AssignAdd(c, s) PROVE TypeOK'
  <2> DEFINE r == [call[c] EXCEPT !.people = @ \ {s}]
  <2>1. call' = [call EXCEPT ![c] = r]
    BY <1>10 DEF AssignAdd
  <2>2. Fits(r) /\ r.invite = call[c].invite
    BY <1>0, <1>10 DEF AssignAdd, At, Fits, CallRecords, Steps, Accepting, Joining, Owing
  <2> HIDE DEF r
  <2>3. CallsOK'
    BY <1>10, <1>s, <1>i, <2>1, <2>2, CallStep DEF AssignAdd
  <2>4. roster' \in [Assignments -> SUBSET Students]
    BY <1>10 DEF TypeOK, AssignAdd
  <2> QED BY <1>10, <2>3, <2>4 DEF TypeOK, CallsOK, AssignAdd
<1>11. CASE AssignEnd(c)
  <2>1. CallsOK'
    BY <1>11, <1>s, EndStep DEF AssignEnd
  <2> QED BY <1>11, <2>1 DEF TypeOK, CallsOK, AssignEnd
<1> QED BY <1>1, <1>2, <1>3, <1>4, <1>5, <1>6, <1>7, <1>8, <1>9, <1>10, <1>11 DEF Rostering

\* A request that stops keeps the types.
LEMMA TypeStops == ASSUME TypeOK, NEW c \in Calls, Stops(c) PROVE TypeOK'
<1> DEFINE owing == [Blank EXCEPT !.pc = call[c].pc, !.student = call[c].student, !.cohort = call[c].cohort,
                                  !.assignment = call[c].assignment, !.stopped = TRUE]
           r == IF call[c].pc \in Owing THEN owing ELSE Blank
<1>0. call[c] \in CallRecords /\ Fits(call[c])
  BY DEF TypeOK
<1>1. call' = [call EXCEPT ![c] = r]
  BY DEF Stops
<1>2. Fits(r) /\ r.invite = None
  <2>1. CASE call[c].pc \in Owing
    <3>1. Fits(owing) /\ owing.invite = None
      BY <1>0, <2>1 DEF Blank, Fits, CallRecords, Steps, Accepting, Joining, Owing
    <3> QED BY <2>1, <3>1
  <2>2. CASE call[c].pc \notin Owing
    BY <2>2, BlankFits
  <2> QED BY <2>1, <2>2
<1>3. SentStaysSent
  BY DEF Stops, SentStaysSent
<1> HIDE DEF r
<1>4. CallsOK'
  BY <1>1, <1>2, <1>3, CallStep
<1> QED BY <1>4 DEF TypeOK, CallsOK, Stops

\* So do the requests of one write.
LEMMA TypeSingle == ASSUME TypeOK, Single PROVE TypeOK'
<1>1. ASSUME NEW i \in Invites, NEW s \in Students, NEW k \in Cohorts \cup {None}, CreateInvite(i, s, k) PROVE TypeOK'
  <2>1. /\ invite' \in [Invites -> InviteRecords] /\ SentStaysSent
        /\ \A j \in Invites : invite'[j].status # "none" => invite'[j].student \in Students
    BY <1>1, SendStep DEF CreateInvite
  <2>2. \A c \in Calls : call[c].invite # None => call[c].invite \in Invites
    BY DEF TypeOK, CallRecords
  <2> QED BY <1>1, <2>1, <2>2 DEF TypeOK, CreateInvite, SentStaysSent
<1>2. ASSUME NEW s \in Students, RemoveMember(s) PROVE TypeOK'
  BY <1>2 DEF TypeOK, RemoveMember, RowStatuses
<1>3. ASSUME NEW s \in Students, NEW k \in Cohorts, RemoveFromCohort(k, s) PROVE TypeOK'
  <2>1. place' \in [Cohorts -> [Students -> RowStatuses]]
    BY <1>3 DEF TypeOK, RemoveFromCohort, Left, RowStatuses
  <2> QED BY <1>3, <2>1 DEF TypeOK, RemoveFromCohort
<1>4. ASSUME NEW a \in Assignments, CloseAssignment(a) PROVE TypeOK'
  <2>1. assignment' \in [Assignments -> [status: {"none", "live", "closed"}, targets : SUBSET Cohorts]]
    BY <1>4 DEF TypeOK, CloseAssignment
  <2> QED BY <1>4, <2>1 DEF TypeOK, CloseAssignment
<1> QED BY <1>1, <1>2, <1>3, <1>4 DEF Single

\* Types hold, and a request always has what its step works on.
THEOREM RosterTypes == Spec => []TypeOK
<1>1. TypeOK /\ [Next]_vars => TypeOK'
  <2> SUFFICES ASSUME TypeOK, [Next]_vars PROVE TypeOK'
    OBVIOUS
  <2>1. CASE UNCHANGED vars
    BY <2>1 DEF TypeOK, vars
  <2> QED BY <2>1, TypeInvitation, TypeRostering, TypeStops, TypeSingle DEF Next
<1> QED BY <1>1, TypeInit, PTL DEF Spec

-----------------------------------------------------------------------------
(* Acceptances *)

\* No step takes a written row back.
LEMMA RowsStayStep == ASSUME TypeOK, [Next]_vars PROVE RowsStay
<1>0. \A c \in Calls : Fits(call[c]) /\ call[c] \in CallRecords
  BY DEF TypeOK
<1>1. ASSUME NEW c \in Calls, Invitation(c) PROVE RowsStay
  <2>1. CASE UNCHANGED <<invite, place, assignment, roster>> /\ (AcceptConsent(c) \/ AcceptMember(c) \/ \E i \in Invites : AcceptAsk(c, i) \/ DeclineAsk(c, i) \/ ResendAsk(c, i))
    <3>1. consent \subseteq consent'
      BY <2>1 DEF AcceptConsent, AcceptMember, AcceptAsk, DeclineAsk, ResendAsk, ReadInvite
    <3>2. \A s \in Students : member[s] # "none" => member'[s] # "none"
      BY <2>1 DEF TypeOK, AcceptConsent, AcceptMember, AcceptAsk, DeclineAsk, ResendAsk, ReadInvite
    <3> QED BY <2>1, <3>1, <3>2 DEF RowsStay
  <2>2. CASE AcceptMark(c) \/ DeclineWrite(c) \/ ResendRevoke(c)
    <3>1. \A i \in Invites : invite[i].status # "none" =>
            invite'[i].status # "none" /\ invite'[i].student = invite[i].student /\ invite'[i].cohort = invite[i].cohort
      <4>1. PICK st \in InviteStatuses \ {"none"} : invite' = [invite EXCEPT ![call[c].invite].status = st]
        BY <2>2 DEF AcceptMark, DeclineWrite, ResendRevoke, InviteStatuses
      <4>2. call[c].pc \in {"accept.mark", "decline", "resend.revoke"}
        BY <2>2 DEF AcceptMark, DeclineWrite, ResendRevoke, At
      <4>3. call[c].invite \in Invites /\ invite[call[c].invite].status # "none"
        BY <1>0, <4>2, RosterAssumption DEF TypeOK, Fits, Accepting
      <4>4. /\ SentStaysSent
            /\ \A j \in Invites : invite'[j].student = invite[j].student /\ invite'[j].cohort = invite[j].cohort
        BY <4>1, <4>3, MarkStep, Zenon
      <4> QED BY <4>4 DEF SentStaysSent
    <3> QED BY <2>2, <3>1 DEF RowsStay, AcceptMark, DeclineWrite, ResendRevoke
  <2>3. ASSUME NEW j \in Invites, ResendCreate(c, j) PROVE RowsStay
    BY <2>3 DEF TypeOK, InviteRecords, RowsStay, ResendCreate
  <2> QED BY <1>1, <2>1, <2>2, <2>3 DEF Invitation, AcceptConsent, AcceptMember, AcceptAsk, DeclineAsk, ResendAsk, ReadInvite
<1>2. ASSUME NEW c \in Calls, Rostering(c) PROVE RowsStay
  <2>1. \A k \in Cohorts, s \in Students : place[k][s] # "none" => place'[k][s] # "none"
    <3>1. CASE Join(c)
      BY <3>1 DEF TypeOK, Join
    <3>2. ASSUME NEW s \in Students, MoveLeave(c, s)
          PROVE  \A k \in Cohorts, t \in Students : place[k][t] # "none" => place'[k][t] # "none"
      <4>1. CASE call[c].from = None
        BY <3>2, <4>1 DEF MoveLeave
      <4>2. CASE call[c].from \in Cohorts
        BY <3>2, <4>2 DEF TypeOK, MoveLeave, Left, RowStatuses
      <4> QED BY <1>0, <4>1, <4>2 DEF CallRecords
    <3>3. CASE UNCHANGED place
      BY <3>3
    <3> QED BY <1>2, <3>1, <3>2, <3>3
         DEF Rostering, SyncList, SyncAdd, SyncEnd, MoveAsk, MoveEnd, AssignCreate, AssignList, AssignAdd, AssignEnd
  <2>2. \A a \in Assignments : assignment[a].status # "none" =>
          assignment'[a].status # "none" /\ assignment'[a].targets = assignment[a].targets
    <3>1. ASSUME NEW b \in Assignments, NEW targets \in SUBSET Cohorts, AssignCreate(c, b, targets)
          PROVE  \A a \in Assignments : assignment[a].status # "none" =>
                   assignment'[a].status # "none" /\ assignment'[a].targets = assignment[a].targets
      BY <3>1 DEF TypeOK, AssignCreate
    <3>2. CASE UNCHANGED assignment
      BY <3>2
    <3> QED BY <1>2, <3>1, <3>2
         DEF Rostering, Join, SyncList, SyncAdd, SyncEnd, MoveAsk, MoveLeave, MoveEnd, AssignList, AssignAdd, AssignEnd
  <2>3. UNCHANGED <<invite, consent, member>>
    BY <1>2 DEF Rostering, Join, SyncList, SyncAdd, SyncEnd, MoveAsk, MoveLeave, MoveEnd, AssignCreate, AssignList, AssignAdd, AssignEnd
  <2> QED BY <2>1, <2>2, <2>3 DEF RowsStay
<1>3. CASE Single
  <2>1. ASSUME NEW i \in Invites, NEW s \in Students, NEW k \in Cohorts \cup {None}, CreateInvite(i, s, k) PROVE RowsStay
    BY <2>1 DEF TypeOK, InviteRecords, RowsStay, CreateInvite
  <2>2. ASSUME NEW s \in Students, RemoveMember(s) PROVE RowsStay
    BY <2>2 DEF TypeOK, RowsStay, RemoveMember
  <2>3. ASSUME NEW s \in Students, NEW k \in Cohorts, RemoveFromCohort(k, s) PROVE RowsStay
    BY <2>3 DEF TypeOK, RowsStay, RemoveFromCohort, Left
  <2>4. ASSUME NEW a \in Assignments, CloseAssignment(a) PROVE RowsStay
    BY <2>4 DEF TypeOK, RowsStay, CloseAssignment
  <2> QED BY <1>3, <2>1, <2>2, <2>3, <2>4 DEF Single
<1>4. CASE UNCHANGED <<invite, consent, member, place, assignment, roster>>
  BY <1>4 DEF RowsStay
<1> QED BY <1>1, <1>2, <1>3, <1>4 DEF Next, Stops, vars

\* A step of one request leaves the others alone.
LEMMA OthersStay ==
    ASSUME TypeOK, NEW c \in Calls, Invitation(c) \/ Rostering(c) \/ Stops(c)
    PROVE  \A d \in Calls \ {c} : call'[d] = call[d]
<1>1. CASE Invitation(c)
  BY <1>1 DEF TypeOK, Invitation, AcceptAsk, DeclineAsk, ResendAsk, ReadInvite, AcceptConsent, AcceptMember, AcceptMark,
       DeclineWrite, ResendCreate, ResendRevoke, Goto, End
<1>2. CASE Rostering(c)
  BY <1>2 DEF TypeOK, Rostering, Join, SyncList, SyncAdd, SyncEnd, MoveAsk, MoveLeave, MoveEnd, AssignCreate, AssignList,
       AssignAdd, AssignEnd, Goto, End
<1>3. CASE Stops(c)
  BY <1>3 DEF TypeOK, Stops
<1> QED BY <1>1, <1>2, <1>3

\* What a request has established stays established while it rests.
LEMMA EstablishedStays ==
    ASSUME TypeOK, RowsStay, NEW c \in Calls, Established(call[c]), call'[c] = call[c]
    PROVE  Established(call[c])'
<1> DEFINE r == call[c]
<1>1. /\ r \in CallRecords /\ Fits(r)
      /\ r.invite # None => r.invite \in Invites /\ invite[r.invite].status # "none"
  BY DEF TypeOK, CallRecords
<1>2. r.invite # None => r.student = invite'[r.invite].student /\ r.cohort = invite'[r.invite].cohort
  BY <1>1 DEF Established, RowsStay
<1>3. r.pc = "accept.member" => r.student \in consent'
  BY DEF Established, RowsStay
<1>4. (r.invite # None /\ r.pc \in Joining \cup {"accept.mark"}) => r.student \in consent' /\ member'[r.student] # "none"
  BY <1>1 DEF Established, RowsStay, Fits, Joining, Accepting
<1>5. r.pc \in {"sync.list", "sync.add"} => place'[r.cohort][r.student] # "none"
  BY <1>1 DEF Established, RowsStay, Fits, Joining
<1>6. (r.pc = "accept.mark" /\ r.cohort # None) => place'[r.cohort][r.student] # "none"
  BY <1>1 DEF Established, RowsStay, Fits, Accepting, CallRecords
<1> QED BY <1>2, <1>3, <1>4, <1>5, <1>6 DEF Established

\* An idle request has nothing to establish.
LEMMA BlankEstablished == ASSUME NEW c \in Calls, call'[c] = Blank PROVE Established(call[c])'
BY DEF Blank, Established, Joining

\* Each step establishes what the next one relies on.
LEMMA AcceptStep == ASSUME TypeOK, AcceptInv, [Next]_vars PROVE AcceptInv'
<1>0. RowsStay
  BY RowsStayStep
<1>s. ASSUME NEW d \in Calls, call'[d] = call[d] PROVE Established(call[d])'
  BY <1>0, <1>s, EstablishedStays DEF AcceptInv
<1>e. ASSUME NEW c \in Calls, End(c) PROVE Established(call[c])'
  BY <1>e, BlankEstablished DEF End, TypeOK
<1>r. \A c \in Calls : /\ call[c] \in CallRecords /\ Fits(call[c]) /\ Established(call[c])
                       /\ call[c].invite # None => call[c].invite \in Invites
  BY DEF TypeOK, AcceptInv, CallRecords
<1>1. ASSUME NEW c \in Calls, Invitation(c) PROVE Established(call[c])'
  <2>1. ASSUME NEW i \in Invites, NEW pc \in {"accept.consent", "decline", "resend.create"}, ReadInvite(c, i, pc)
        PROVE  Established(call[c])'
    <3>1. /\ call'[c].pc = pc /\ call'[c].invite = i
          /\ call'[c].student = invite[i].student /\ call'[c].cohort = invite[i].cohort
      BY <2>1 DEF ReadInvite, TypeOK, Blank
    <3> QED BY <2>1, <3>1 DEF ReadInvite, Established, Blank, Joining
  <2>2. CASE AcceptConsent(c) /\ ~End(c)
    <3>1. call'[c] = [call[c] EXCEPT !.pc = "accept.member"] /\ call[c].student \in consent'
      BY <2>2 DEF AcceptConsent, Goto, TypeOK
    <3>2. UNCHANGED invite
      BY <2>2 DEF AcceptConsent
    <3> QED BY <1>r, <3>1, <3>2 DEF Established, Joining, CallRecords
  <2>3. CASE AcceptMember(c)
    <3>1. call'[c] = [call[c] EXCEPT !.pc = IF call[c].cohort = None THEN "accept.mark" ELSE "join"]
      BY <2>3 DEF AcceptMember, Goto, TypeOK
    <3>2. call[c].pc = "accept.member" /\ UNCHANGED <<invite, consent>> /\ call[c].student \in Students
      BY <1>r, <2>3 DEF AcceptMember, At, Fits, Accepting
    <3>3. member'[call[c].student] = "ACTIVE"
      BY <2>3, <3>2 DEF AcceptMember, TypeOK
    <3> QED BY <1>r, <3>1, <3>2, <3>3 DEF Established, Joining, CallRecords
  <2>4. ASSUME NEW j \in Invites, ResendCreate(c, j) PROVE Established(call[c])'
    <3>1. call'[c] = [call[c] EXCEPT !.pc = "resend.revoke"]
      BY <2>4 DEF ResendCreate, Goto, TypeOK
    <3>2. call[c].invite # None => /\ invite'[call[c].invite].student = invite[call[c].invite].student
                                   /\ invite'[call[c].invite].cohort = invite[call[c].invite].cohort
      BY <1>0, <1>r DEF RowsStay, TypeOK
    <3> QED BY <1>r, <3>1, <3>2 DEF Established, Joining, CallRecords
  <2> QED BY <1>1, <1>e, <2>1, <2>2, <2>3, <2>4
       DEF Invitation, AcceptAsk, DeclineAsk, ResendAsk, AcceptConsent, AcceptMark, DeclineWrite, ResendRevoke
<1>2. ASSUME NEW c \in Calls, Rostering(c) PROVE Established(call[c])'
  <2>0. UNCHANGED <<invite, consent, member>>
    BY <1>2 DEF Rostering, Join, SyncList, SyncAdd, SyncEnd, MoveAsk, MoveLeave, MoveEnd, AssignCreate, AssignList, AssignAdd, AssignEnd
  <2>1. CASE Join(c)
    <3>1. call'[c] = [call[c] EXCEPT !.pc = "sync.list"] /\ call[c].pc = "join"
      BY <2>1 DEF Join, Goto, At, TypeOK
    <3>2. call[c].cohort \in Cohorts /\ call[c].student \in Students
      BY <1>r, <3>1 DEF Fits, Joining
    <3>3. place'[call[c].cohort][call[c].student] = "ACTIVE"
      BY <2>1, <3>2 DEF Join, TypeOK
    <3> QED BY <1>r, <2>0, <3>1, <3>3 DEF Established, Joining, CallRecords
  <2>2. CASE SyncList(c)
    <3>1. /\ call'[c].pc = "sync.add" /\ call[c].pc = "sync.list" /\ call'[c].invite = call[c].invite
          /\ call'[c].student = call[c].student /\ call'[c].cohort = call[c].cohort
      BY <1>r, <2>2 DEF SyncList, At, TypeOK, CallRecords
    <3> QED BY <1>r, <2>0, <2>2, <3>1 DEF Established, Joining, SyncList
  <2>3. ASSUME NEW a \in Assignments, SyncAdd(c, a) PROVE Established(call[c])'
    <3>1. /\ call'[c].pc = "sync.add" /\ call[c].pc = "sync.add" /\ call'[c].invite = call[c].invite
          /\ call'[c].student = call[c].student /\ call'[c].cohort = call[c].cohort
      BY <1>r, <2>3 DEF SyncAdd, At, TypeOK, CallRecords
    <3> QED BY <1>r, <2>0, <2>3, <3>1 DEF Established, Joining, SyncAdd
  <2>4. CASE SyncEnd(c)
    <3>1. /\ call'[c].pc = (IF call[c].invite = None THEN "move" ELSE "accept.mark")
          /\ call[c].pc = "sync.add" /\ call'[c].invite = call[c].invite
          /\ call'[c].student = call[c].student /\ call'[c].cohort = call[c].cohort
      BY <1>r, <2>4 DEF SyncEnd, Goto, At, TypeOK, CallRecords
    <3> QED BY <1>r, <2>0, <2>4, <3>1 DEF Established, Joining, SyncEnd
  <2>5. ASSUME NEW chosen \in SUBSET Students, NEW from \in Cohorts \cup {None}, NEW to \in Cohorts,
               MoveAsk(c, chosen, from, to)
        PROVE  Established(call[c])'
    <3>1. call'[c].pc = "move" /\ call'[c].invite = None
      BY <2>5 DEF MoveAsk, TypeOK, Blank
    <3> QED BY <3>1 DEF Established, Joining
  <2>6. ASSUME NEW s \in Students, MoveLeave(c, s) PROVE Established(call[c])'
    <3>1. call'[c].pc = "join" /\ call[c].pc = "move" /\ call'[c].invite = call[c].invite
      BY <1>r, <2>6 DEF MoveLeave, At, TypeOK, CallRecords
    <3>2. call[c].invite = None
      BY <1>r, <3>1 DEF Fits
    <3> QED BY <3>1, <3>2 DEF Established, Joining
  <2>7. ASSUME NEW a \in Assignments, NEW targets \in SUBSET Cohorts, AssignCreate(c, a, targets)
        PROVE  Established(call[c])'
    <3>1. call'[c].pc = "assign" /\ call'[c].invite = None
      BY <2>7 DEF AssignCreate, TypeOK, Blank
    <3> QED BY <3>1 DEF Established, Joining
  <2>8. ASSUME NEW k \in Cohorts, AssignList(c, k) PROVE Established(call[c])'
    <3>1. call'[c].pc = "assign" /\ call[c].pc = "assign" /\ call'[c].invite = call[c].invite
      BY <1>r, <2>8 DEF AssignList, At, TypeOK, CallRecords
    <3>2. call[c].invite = None
      BY <1>r, <3>1 DEF Fits
    <3> QED BY <3>1, <3>2 DEF Established, Joining
  <2>9. ASSUME NEW s \in Students, AssignAdd(c, s) PROVE Established(call[c])'
    <3>1. call'[c].pc = "assign" /\ call[c].pc = "assign" /\ call'[c].invite = call[c].invite
      BY <1>r, <2>9 DEF AssignAdd, At, TypeOK, CallRecords
    <3>2. call[c].invite = None
      BY <1>r, <3>1 DEF Fits
    <3> QED BY <3>1, <3>2 DEF Established, Joining
  <2> QED BY <1>2, <1>e, <2>1, <2>2, <2>3, <2>4, <2>5, <2>6, <2>7, <2>8, <2>9 DEF Rostering, MoveEnd, AssignEnd
<1>3. ASSUME NEW c \in Calls, Stops(c) PROVE Established(call[c])'
  <2>1. /\ call'[c].invite = None
        /\ \/ call'[c].pc = "idle"
           \/ /\ call'[c].pc = call[c].pc /\ call[c].pc \in Owing
              /\ call'[c].student = call[c].student /\ call'[c].cohort = call[c].cohort
    BY <1>3 DEF Stops, Blank, TypeOK
  <2> QED BY <1>r, <1>3, <2>1 DEF Stops, Established, Owing, Joining
<1> QED
  <2> SUFFICES ASSUME NEW d \in Calls PROVE Established(call[d])'
    BY DEF AcceptInv
  <2>1. CASE UNCHANGED call
    BY <1>s, <2>1
  <2>2. ASSUME NEW c \in Calls, Invitation(c) \/ Rostering(c) \/ Stops(c) PROVE Established(call[d])'
    BY <1>s, <1>1, <1>2, <1>3, <2>2, OthersStay
  <2> QED BY <2>1, <2>2 DEF Next, Single, vars, CreateInvite, RemoveMember, RemoveFromCohort, CloseAssignment

\* Who writes memberships and invitations.
LEMMA Writers ==
    ASSUME [Next]_vars
    PROVE  /\ \/ UNCHANGED member
              \/ \E c \in Calls : AcceptMember(c)
              \/ \E s \in Students : RemoveMember(s)
           /\ \/ UNCHANGED invite
              \/ \E c \in Calls : AcceptMark(c) \/ DeclineWrite(c) \/ ResendRevoke(c) \/ \E j \in Invites : ResendCreate(c, j)
              \/ \E i \in Invites, s \in Students, k \in Cohorts \cup {None} : CreateInvite(i, s, k)
<1>1. ASSUME NEW c \in Calls, Invitation(c)
      PROVE  /\ UNCHANGED member \/ AcceptMember(c)
             /\ \/ UNCHANGED invite
                \/ AcceptMark(c) \/ DeclineWrite(c) \/ ResendRevoke(c) \/ \E j \in Invites : ResendCreate(c, j)
  BY <1>1 DEF Invitation, AcceptAsk, DeclineAsk, ResendAsk, ReadInvite, AcceptConsent, AcceptMember, AcceptMark,
       DeclineWrite, ResendCreate, ResendRevoke
<1>2. ASSUME NEW c \in Calls, Rostering(c) PROVE UNCHANGED <<invite, member>>
  BY <1>2 DEF Rostering, Join, SyncList, SyncAdd, SyncEnd, MoveAsk, MoveLeave, MoveEnd, AssignCreate, AssignList, AssignAdd, AssignEnd
<1>3. ASSUME NEW c \in Calls, Stops(c) PROVE UNCHANGED <<invite, member>>
  BY <1>3 DEF Stops
<1>4. CASE Single
  BY <1>4 DEF Single, CreateInvite, RemoveMember, RemoveFromCohort, CloseAssignment
<1>5. CASE UNCHANGED vars
  BY <1>5 DEF vars
<1> QED BY <1>1, <1>2, <1>3, <1>4, <1>5 DEF Next

\* What acceptances establish, and what the properties ask of them.
AcceptAll == TypeOK /\ AcceptInv /\ DisclosureFirst /\ AcceptedIsComplete

\* Only an acceptance that recorded the consent makes a member.
LEMMA DisclosureStep == ASSUME TypeOK, AcceptInv, DisclosureFirst, [Next]_vars PROVE DisclosureFirst'
<1> SUFFICES ASSUME NEW s \in Students, member'[s] = "ACTIVE" PROVE s \in consent'
  BY DEF DisclosureFirst
<1>0. consent \subseteq consent'
  BY RowsStayStep DEF RowsStay
<1>1. CASE member[s] = "ACTIVE"
  BY <1>0, <1>1 DEF DisclosureFirst
<1>2. ASSUME NEW c \in Calls, AcceptMember(c) PROVE s \in consent'
  <2>1. call[c].pc = "accept.member" /\ call[c].student \in Students
    BY <1>2 DEF AcceptMember, At, TypeOK, Fits, Accepting
  <2>2. s = call[c].student \/ member[s] = "ACTIVE"
    BY <1>2, <2>1 DEF AcceptMember, TypeOK
  <2>3. call[c].student \in consent
    BY <2>1 DEF AcceptInv, Established
  <2> QED BY <1>0, <1>1, <2>2, <2>3
<1>3. ASSUME NEW t \in Students, RemoveMember(t) PROVE member[s] = "ACTIVE"
  BY <1>3 DEF RemoveMember, TypeOK
<1>4. CASE UNCHANGED member
  BY <1>1, <1>4
<1> QED BY <1>1, <1>2, <1>3, <1>4, Writers

\* Only an acceptance that has written everything else marks an invitation.
LEMMA CompleteStep == ASSUME TypeOK, AcceptInv, AcceptedIsComplete, [Next]_vars PROVE AcceptedIsComplete'
<1> SUFFICES ASSUME NEW i \in Invites, invite'[i].status = "ACCEPTED"
             PROVE  /\ invite'[i].student \in consent' /\ member'[invite'[i].student] # "none"
                    /\ invite'[i].cohort # None => place'[invite'[i].cohort][invite'[i].student] # "none"
  BY DEF AcceptedIsComplete
<1>0. RowsStay
  BY RowsStayStep
<1> DEFINE s == invite[i].student
           k == invite[i].cohort
           Written == s \in consent /\ member[s] # "none" /\ (k # None => place[k][s] # "none")
<1>1. ASSUME invite[i].status # "none", Written
      PROVE  /\ invite'[i].student \in consent' /\ member'[invite'[i].student] # "none"
             /\ invite'[i].cohort # None => place'[invite'[i].cohort][invite'[i].student] # "none"
  <2>1. s \in Students /\ (k = None \/ k \in Cohorts)
    BY <1>1 DEF TypeOK, InviteRecords
  <2>2. invite'[i].student = s /\ invite'[i].cohort = k
    BY <1>0, <1>1 DEF RowsStay
  <2>3. s \in consent' /\ member'[s] # "none" /\ (k # None => place'[k][s] # "none")
    BY <1>0, <1>1, <2>1 DEF RowsStay
  <2> QED BY <2>2, <2>3
<1>2. CASE invite[i].status = "ACCEPTED"
  <2>1. Written
    BY <1>2 DEF AcceptedIsComplete
  <2> QED BY <1>1, <1>2, <2>1
<1>3. ASSUME NEW c \in Calls, AcceptMark(c), call[c].invite = i, invite[i].status # "ACCEPTED"
      PROVE  invite[i].status # "none" /\ Written
  <2>1. call[c].pc = "accept.mark"
    BY <1>3 DEF AcceptMark, At
  <2>2. i # None
    BY RosterAssumption
  <2>3. invite[i].status # "none" /\ Established(call[c])
    BY <1>3, <2>2 DEF TypeOK, AcceptInv
  <2>4. call[c].student = s /\ call[c].cohort = k
    BY <1>3, <2>2, <2>3 DEF Established
  <2>5. s \in consent /\ member[s] # "none" /\ (k # None => place[k][s] # "none")
    BY <1>3, <2>1, <2>2, <2>3, <2>4 DEF Established
  <2> QED BY <2>3, <2>5
<1>4. ASSUME invite[i].status # "ACCEPTED" PROVE \E c \in Calls : AcceptMark(c) /\ call[c].invite = i
  <2>1. \A c \in Calls : call[c].invite \in Invites \cup {None}
    BY DEF TypeOK, CallRecords
  <2>2. ASSUME NEW c \in Calls, AcceptMark(c) PROVE call[c].invite = i
    <3>1. invite' = [invite EXCEPT ![call[c].invite].status = "ACCEPTED"]
      BY <2>2 DEF AcceptMark
    <3>2. call[c].invite # i => invite'[i] = invite[i]
      BY <3>1 DEF TypeOK
    <3> QED BY <1>4, <3>2
  <2>3. ASSUME NEW c \in Calls, DeclineWrite(c) \/ ResendRevoke(c) PROVE FALSE
    <3>1. PICK st \in {"DECLINED", "REVOKED"} : invite' = [invite EXCEPT ![call[c].invite].status = st]
      BY <2>3 DEF DeclineWrite, ResendRevoke
    <3> QED BY <1>4, <2>1, <3>1 DEF TypeOK, InviteRecords
  <2>4. ASSUME NEW c \in Calls, NEW j \in Invites, ResendCreate(c, j) PROVE FALSE
    BY <1>4, <2>4 DEF ResendCreate, TypeOK
  <2>5. ASSUME NEW j \in Invites, NEW t \in Students, NEW q \in Cohorts \cup {None}, CreateInvite(j, t, q) PROVE FALSE
    BY <1>4, <2>5 DEF CreateInvite, TypeOK
  <2>6. ~(UNCHANGED invite)
    BY <1>4
  <2> QED BY <2>2, <2>3, <2>4, <2>5, <2>6, Writers
<1> QED BY <1>1, <1>2, <1>3, <1>4

\* Consent comes before membership, and an invitation marked accepted has the
\* member, the place and the consent it promises.
THEOREM AcceptanceIsOrdered == Spec => []AcceptanceSound
<1>1. Init => AcceptAll
  <2> SUFFICES ASSUME Init PROVE AcceptAll
    OBVIOUS
  <2>1. AcceptInv
    BY DEF Init, AcceptInv, Established, Blank, Joining
  <2>2. DisclosureFirst /\ AcceptedIsComplete
    BY DEF Init, DisclosureFirst, AcceptedIsComplete
  <2> QED BY <2>1, <2>2, TypeInit DEF AcceptAll
<1>2. AcceptAll /\ TypeOK' /\ [Next]_vars => AcceptAll'
  BY AcceptStep, DisclosureStep, CompleteStep DEF AcceptAll
<1>3. AcceptAll => AcceptanceSound
  BY DEF AcceptAll, AcceptanceSound
<1> QED BY <1>1, <1>2, <1>3, RosterTypes, PTL DEF Spec

-----------------------------------------------------------------------------
(* Rosters *)

\* Nobody is taken off a roster.
LEMMA RosterGrows == ASSUME TypeOK, [Next]_vars PROVE \A a \in Assignments : roster[a] \subseteq roster'[a]
<1>1. ASSUME NEW c \in Calls, Rostering(c) PROVE \A a \in Assignments : roster[a] \subseteq roster'[a]
  <2>1. ASSUME NEW b \in Assignments, SyncAdd(c, b) PROVE \A a \in Assignments : roster[a] \subseteq roster'[a]
    BY <2>1 DEF SyncAdd, TypeOK
  <2>2. ASSUME NEW s \in Students, AssignAdd(c, s) PROVE \A a \in Assignments : roster[a] \subseteq roster'[a]
    BY <2>2 DEF AssignAdd, TypeOK
  <2>3. CASE UNCHANGED roster
    BY <2>3
  <2> QED BY <1>1, <2>1, <2>2, <2>3
       DEF Rostering, Join, SyncList, SyncEnd, MoveAsk, MoveLeave, MoveEnd, AssignCreate, AssignList, AssignEnd
<1>2. ASSUME NEW c \in Calls, Invitation(c) PROVE UNCHANGED roster
  BY <1>2 DEF Invitation, AcceptAsk, DeclineAsk, ResendAsk, ReadInvite, AcceptConsent, AcceptMember, AcceptMark,
       DeclineWrite, ResendCreate, ResendRevoke
<1>3. CASE UNCHANGED roster
  BY <1>3
<1> QED BY <1>1, <1>2, <1>3
     DEF Next, vars, Stops, Single, CreateInvite, RemoveMember, RemoveFromCohort, CloseAssignment

\* Whose step it was: nobody's, or one request's.
LEMMA Steppers ==
    ASSUME TypeOK, [Next]_vars, NEW c \in Calls
    PROVE  call'[c] = call[c] \/ Invitation(c) \/ Rostering(c) \/ Stops(c)
BY OthersStay DEF Next, vars, Single, CreateInvite, RemoveMember, RemoveFromCohort, CloseAssignment

\* A roster refresh owes an entry until it has made it.
LEMMA SyncDebtKept ==
    ASSUME TypeOK, [Next]_vars, NEW c \in Calls, NEW a \in Assignments, NEW k \in assignment[a].targets, NEW s \in Students,
           assignment[a].status = "live", SyncOwes(call[c], a, k, s)
    PROVE  s \in roster'[a] \/ SyncOwes(call'[c], a, k, s)
<1>0. /\ call[c] \in CallRecords /\ call[c].pc \in {"sync.list", "sync.add"}
      /\ call[c].student = s /\ call[c].cohort = k
  BY DEF TypeOK, SyncOwes
<1>1. CASE call'[c] = call[c]
  BY <1>1
<1>2. CASE Invitation(c)
  BY <1>0, <1>2 DEF Invitation, AcceptAsk, DeclineAsk, ResendAsk, ReadInvite, AcceptConsent, AcceptMember, AcceptMark,
       DeclineWrite, ResendCreate, ResendRevoke, At
<1>3. CASE SyncList(c)
  <2>1. /\ call'[c].pc = "sync.add" /\ call'[c].student = s /\ call'[c].cohort = k
        /\ call'[c].todo = {b \in Assignments : assignment[b].status = "live" /\ call[c].cohort \in assignment[b].targets}
    BY <1>0, <1>3 DEF SyncList, TypeOK, CallRecords
  <2> QED BY <1>0, <2>1 DEF SyncOwes
<1>4. ASSUME NEW b \in Assignments, SyncAdd(c, b) PROVE s \in roster'[a] \/ SyncOwes(call'[c], a, k, s)
  <2>1. /\ call'[c].pc = "sync.add" /\ call'[c].student = s /\ call'[c].cohort = k
        /\ call'[c].todo = call[c].todo \ {b} /\ a \in call[c].todo
    BY <1>0, <1>4 DEF SyncAdd, At, SyncOwes, TypeOK, CallRecords
  <2>2. a = b => s \in roster'[a]
    BY <1>0, <1>4 DEF SyncAdd, TypeOK
  <2> QED BY <2>1, <2>2 DEF SyncOwes
<1>5. CASE SyncEnd(c)
  BY <1>5 DEF SyncEnd, At, SyncOwes
<1>6. CASE Stops(c)
  <2>1. /\ call'[c].pc = call[c].pc /\ call'[c].student = s /\ call'[c].cohort = k /\ call'[c].stopped
    BY <1>0, <1>6 DEF Stops, Owing, Blank, TypeOK
  <2> QED BY <1>0, <2>1 DEF SyncOwes
<1>7. CASE Rostering(c) /\ ~SyncList(c) /\ ~SyncEnd(c) /\ ~\E b \in Assignments : SyncAdd(c, b)
  BY <1>0, <1>7 DEF Rostering, Join, MoveAsk, MoveLeave, MoveEnd, AssignCreate, AssignList, AssignAdd, AssignEnd, At
<1> QED BY <1>1, <1>2, <1>3, <1>4, <1>5, <1>6, <1>7, Steppers

\* So does a launch, for whoever is in the cohort.
LEMMA AssignDebtKept ==
    ASSUME TypeOK, [Next]_vars, NEW c \in Calls, NEW a \in Assignments, NEW k \in Cohorts, NEW s \in Students,
           place[k][s] = "ACTIVE", AssignOwes(call[c], a, k, s)
    PROVE  s \in roster'[a] \/ AssignOwes(call'[c], a, k, s)
<1>0. call[c] \in CallRecords /\ call[c].pc = "assign" /\ call[c].assignment = a
  BY DEF TypeOK, AssignOwes
<1>1. CASE call'[c] = call[c]
  BY <1>1
<1>2. CASE Invitation(c)
  BY <1>0, <1>2 DEF Invitation, AcceptAsk, DeclineAsk, ResendAsk, ReadInvite, AcceptConsent, AcceptMember, AcceptMark,
       DeclineWrite, ResendCreate, ResendRevoke, At
<1>3. ASSUME NEW q \in Cohorts, AssignList(c, q) PROVE AssignOwes(call'[c], a, k, s)
  <2>1. /\ call'[c].pc = "assign" /\ call'[c].assignment = a
        /\ call'[c].cohorts = call[c].cohorts \ {q} /\ call'[c].people = {t \in Students : place[q][t] = "ACTIVE"}
    BY <1>0, <1>3 DEF AssignList, At, TypeOK, CallRecords
  <2>2. k \in call[c].cohorts
    BY <1>3 DEF AssignList, At, AssignOwes
  <2> QED BY <2>1, <2>2 DEF AssignOwes
<1>4. ASSUME NEW t \in Students, AssignAdd(c, t) PROVE s \in roster'[a] \/ AssignOwes(call'[c], a, k, s)
  <2>1. /\ call'[c].pc = "assign" /\ call'[c].assignment = a
        /\ call'[c].cohorts = call[c].cohorts /\ call'[c].people = call[c].people \ {t}
    BY <1>0, <1>4 DEF AssignAdd, At, TypeOK, CallRecords
  <2>2. t = s => s \in roster'[a]
    BY <1>0, <1>4 DEF AssignAdd, TypeOK
  <2>3. k \in call[c].cohorts \/ s \in call[c].people
    BY <1>4 DEF AssignAdd, At, AssignOwes
  <2> QED BY <2>1, <2>2, <2>3 DEF AssignOwes
<1>5. CASE AssignEnd(c)
  BY <1>5 DEF AssignEnd, At, AssignOwes
<1>6. CASE Stops(c)
  <2>1. call'[c].pc = "assign" /\ call'[c].assignment = a /\ call'[c].stopped
    BY <1>0, <1>6 DEF Stops, Owing, Blank, TypeOK
  <2> QED BY <2>1 DEF AssignOwes
<1>7. CASE Rostering(c) /\ ~AssignEnd(c) /\ (~\E q \in Cohorts : AssignList(c, q)) /\ (~\E t \in Students : AssignAdd(c, t))
  BY <1>0, <1>7 DEF Rostering, Join, SyncList, SyncAdd, SyncEnd, MoveAsk, MoveLeave, MoveEnd, AssignCreate, At
<1> QED BY <1>1, <1>2, <1>3, <1>4, <1>5, <1>6, <1>7, Steppers

\* A student comes into a cohort only by a join.
LEMMA PlaceWriters ==
    ASSUME TypeOK, [Next]_vars, NEW k \in Cohorts, NEW s \in Students, place[k][s] # "ACTIVE", place'[k][s] = "ACTIVE"
    PROVE  \E c \in Calls : Join(c) /\ call[c].cohort = k /\ call[c].student = s
<1>0. \A q \in Cohorts, t \in Students : Left(q, t)[k][s] # "ACTIVE"
  BY DEF Left, TypeOK, RowStatuses
<1>1. ASSUME NEW c \in Calls, Rostering(c) PROVE Join(c) /\ call[c].cohort = k /\ call[c].student = s
  <2>1. CASE Join(c)
    <3>1. call[c].cohort \in Cohorts /\ call[c].student \in Students
      BY <2>1 DEF Join, At, TypeOK, Fits, Joining
    <3> QED BY <2>1, <3>1 DEF Join, TypeOK
  <2>2. ASSUME NEW t \in Students, MoveLeave(c, t) PROVE FALSE
    <3>1. call[c].from \in Cohorts \cup {None}
      BY DEF TypeOK, CallRecords
    <3> QED BY <1>0, <2>2, <3>1 DEF MoveLeave
  <2>3. CASE UNCHANGED place
    BY <2>3
  <2> QED BY <1>1, <2>1, <2>2, <2>3
       DEF Rostering, SyncList, SyncAdd, SyncEnd, MoveAsk, MoveEnd, AssignCreate, AssignList, AssignAdd, AssignEnd
<1>2. ASSUME NEW c \in Calls, Invitation(c) PROVE UNCHANGED place
  BY <1>2 DEF Invitation, AcceptAsk, DeclineAsk, ResendAsk, ReadInvite, AcceptConsent, AcceptMember, AcceptMark,
       DeclineWrite, ResendCreate, ResendRevoke
<1>3. ASSUME NEW q \in Cohorts, NEW t \in Students, RemoveFromCohort(q, t) PROVE FALSE
  BY <1>0, <1>3 DEF RemoveFromCohort
<1>4. ~(UNCHANGED place)
  OBVIOUS
<1> QED BY <1>1, <1>2, <1>3, <1>4 DEF Next, vars, Stops, Single, CreateInvite, RemoveMember, CloseAssignment

\* An assignment gets its targets, and goes live, only when it is created.
LEMMA LaunchWriters ==
    ASSUME TypeOK, [Next]_vars, NEW a \in Assignments, assignment'[a].status = "live",
           ~(assignment[a].status = "live" /\ assignment'[a].targets = assignment[a].targets)
    PROVE  \E c \in Calls, targets \in SUBSET Cohorts : AssignCreate(c, a, targets)
<1>1. ASSUME NEW c \in Calls, Rostering(c) PROVE \E targets \in SUBSET Cohorts : AssignCreate(c, a, targets)
  <2>1. ASSUME NEW b \in Assignments, NEW targets \in SUBSET Cohorts, AssignCreate(c, b, targets) PROVE b = a
    BY <2>1 DEF AssignCreate, TypeOK
  <2>2. ~(UNCHANGED assignment)
    OBVIOUS
  <2> QED BY <1>1, <2>1, <2>2
       DEF Rostering, Join, SyncList, SyncAdd, SyncEnd, MoveAsk, MoveLeave, MoveEnd, AssignList, AssignAdd, AssignEnd
<1>2. ASSUME NEW c \in Calls, Invitation(c) PROVE UNCHANGED assignment
  BY <1>2 DEF Invitation, AcceptAsk, DeclineAsk, ResendAsk, ReadInvite, AcceptConsent, AcceptMember, AcceptMark,
       DeclineWrite, ResendCreate, ResendRevoke
<1>3. ASSUME NEW b \in Assignments, CloseAssignment(b) PROVE FALSE
  BY <1>3 DEF CloseAssignment, TypeOK
<1>4. ~(UNCHANGED assignment)
  OBVIOUS
<1> QED BY <1>1, <1>2, <1>3, <1>4 DEF Next, vars, Stops, Single, CreateInvite, RemoveMember, RemoveFromCohort

\* Joining and launching see each other.
LEMMA CoverStep == ASSUME TypeOK, RosterCovers, [Next]_vars PROVE RosterCovers'
<1> SUFFICES ASSUME NEW a \in Assignments, NEW s \in Students, NEW k \in assignment'[a].targets,
                    assignment'[a].status = "live", place'[k][s] = "ACTIVE"
             PROVE  s \in roster'[a] \/ \E c \in Calls : SyncOwes(call'[c], a, k, s) \/ AssignOwes(call'[c], a, k, s)
  BY DEF RosterCovers, SyncOwes, AssignOwes
<1>1. ASSUME NEW c \in Calls, NEW targets \in SUBSET Cohorts, AssignCreate(c, a, targets)
      PROVE  AssignOwes(call'[c], a, k, s)
  <2>1. call'[c].pc = "assign" /\ call'[c].assignment = a /\ call'[c].cohorts = targets
    BY <1>1 DEF AssignCreate, TypeOK, Blank
  <2>2. assignment'[a].targets = targets
    BY <1>1 DEF AssignCreate, TypeOK
  <2> QED BY <2>1, <2>2 DEF AssignOwes
<1>2. CASE assignment[a].status = "live" /\ assignment'[a].targets = assignment[a].targets
  <2>0. k \in assignment[a].targets /\ k \in Cohorts
    BY <1>2 DEF TypeOK
  <2>1. CASE place[k][s] # "ACTIVE"
    <3>1. PICK c \in Calls : Join(c) /\ call[c].cohort = k /\ call[c].student = s
      BY <2>0, <2>1, PlaceWriters
    <3>2. call'[c] = [call[c] EXCEPT !.pc = "sync.list"] /\ call[c] \in CallRecords
      BY <3>1 DEF Join, Goto, TypeOK
    <3>3. SyncOwes(call'[c], a, k, s)
      BY <3>1, <3>2 DEF SyncOwes, CallRecords
    <3> QED BY <3>3
  <2>2. CASE place[k][s] = "ACTIVE"
    <3>1. CASE s \in roster[a]
      BY <3>1, RosterGrows
    <3>2. ASSUME NEW c \in Calls, SyncOwes(call[c], a, k, s) PROVE s \in roster'[a] \/ SyncOwes(call'[c], a, k, s)
      BY <1>2, <2>0, <3>2, SyncDebtKept
    <3>3. ASSUME NEW c \in Calls, AssignOwes(call[c], a, k, s) PROVE s \in roster'[a] \/ AssignOwes(call'[c], a, k, s)
      BY <2>0, <2>2, <3>3, AssignDebtKept
    <3>4. s \in roster[a] \/ \E c \in Calls : SyncOwes(call[c], a, k, s) \/ AssignOwes(call[c], a, k, s)
      BY <1>2, <2>0, <2>2 DEF RosterCovers
    <3> QED BY <3>1, <3>2, <3>3, <3>4
  <2> QED BY <2>1, <2>2
<1> QED BY <1>1, <1>2, LaunchWriters

\* A cohort's member is on the roster of each live assignment that targets the
\* cohort, or a request under way or cut short owes the entry.
THEOREM RosterIsComplete == Spec => []RosterCovers
<1>1. Init => RosterCovers
  BY DEF Init, RosterCovers
<1>2. TypeOK /\ RosterCovers /\ [Next]_vars => RosterCovers'
  BY CoverStep
<1> QED BY <1>1, <1>2, RosterTypes, PTL DEF Spec

\* What a request carries stays good while it rests: targets do not change.
LEMMA CarriedStays ==
    ASSUME TypeOK, RowsStay, TargetInv, NEW c \in Calls, call'[c] = call[c]
    PROVE  Carried(call[c])'
<1> DEFINE r == call[c]
<1>1. r \in CallRecords /\ Fits(r) /\ Carried(r)
  BY DEF TypeOK, TargetInv
<1>2. \A a \in r.todo : r.cohort \in assignment'[a].targets
  BY <1>1 DEF Carried, TargetInv, RowsStay, CallRecords
<1>3. r.pc = "assign" =>
        /\ assignment'[r.assignment].status # "none"
        /\ r.cohorts \subseteq assignment'[r.assignment].targets
        /\ \A s \in r.people : \E k \in assignment'[r.assignment].targets : place'[k][s] # "none"
  <2> SUFFICES ASSUME r.pc = "assign"
               PROVE  /\ assignment'[r.assignment].status # "none"
                      /\ r.cohorts \subseteq assignment'[r.assignment].targets
                      /\ \A s \in r.people : \E k \in assignment'[r.assignment].targets : place'[k][s] # "none"
    OBVIOUS
  <2>1. r.assignment \in Assignments /\ assignment[r.assignment].status # "none"
    BY <1>1 DEF Fits, Carried
  <2>2. assignment'[r.assignment].status # "none" /\ assignment'[r.assignment].targets = assignment[r.assignment].targets
    BY <2>1 DEF RowsStay
  <2>3. ASSUME NEW s \in r.people PROVE \E k \in assignment[r.assignment].targets : place'[k][s] # "none"
    <3>1. PICK k \in assignment[r.assignment].targets : place[k][s] # "none"
      BY <1>1, <2>3 DEF Carried
    <3>2. k \in Cohorts /\ s \in Students
      BY <1>1, <2>1 DEF TypeOK, CallRecords
    <3> QED BY <3>1, <3>2 DEF RowsStay
  <2> QED BY <1>1, <2>2, <2>3 DEF Carried
<1> QED BY <1>1, <1>2, <1>3 DEF Carried

\* Every step keeps what requests carry within the targets.
LEMMA TargetStep == ASSUME TypeOK, TargetInv, [Next]_vars PROVE TargetInv'
<1>0. RowsStay
  BY RowsStayStep
<1>r. \A c \in Calls : call[c] \in CallRecords /\ Fits(call[c]) /\ Carried(call[c])
  BY DEF TypeOK, TargetInv
<1>s. ASSUME NEW d \in Calls, call'[d] = call[d] PROVE Carried(call[d])'
  BY <1>0, <1>s, CarriedStays
<1>b. ASSUME NEW c \in Calls, call'[c].todo = {}, call'[c].pc # "assign" PROVE Carried(call[c])'
  BY <1>b DEF Carried
<1>e. ASSUME NEW c \in Calls, End(c) PROVE Carried(call[c])'
  BY <1>b, <1>e DEF End, Blank, TypeOK
<1>1. ASSUME NEW c \in Calls, Invitation(c) PROVE Carried(call[c])'
  <2>1. ASSUME NEW i \in Invites, NEW pc \in {"accept.consent", "decline", "resend.create"}, ReadInvite(c, i, pc)
        PROVE  call'[c].todo = {} /\ call'[c].pc # "assign"
    BY <2>1 DEF ReadInvite, TypeOK, Blank
  <2>2. ASSUME NEW pc, Goto(c, pc), pc # "assign", call[c].pc # "sync.add" PROVE call'[c].todo = {} /\ call'[c].pc # "assign"
    <3>1. call'[c].pc = pc /\ call'[c].todo = call[c].todo
      BY <1>r, <2>2 DEF Goto, TypeOK, CallRecords
    <3> QED BY <1>r, <2>2, <3>1 DEF Carried
  <2> QED BY <1>1, <1>b, <1>e, <2>1, <2>2
       DEF Invitation, AcceptAsk, DeclineAsk, ResendAsk, AcceptConsent, AcceptMember, AcceptMark, DeclineWrite, ResendCreate,
           ResendRevoke, At
<1>2. ASSUME NEW c \in Calls, Rostering(c) PROVE Carried(call[c])'
  <2>1. CASE Join(c)
    <3>1. call'[c].pc = "sync.list" /\ call'[c].todo = call[c].todo /\ call[c].pc = "join"
      BY <1>r, <2>1 DEF Join, Goto, At, TypeOK, CallRecords
    <3> QED BY <1>r, <1>b, <3>1 DEF Carried
  <2>2. CASE SyncList(c)
    <3>1. /\ call'[c].pc = "sync.add" /\ call'[c].cohort = call[c].cohort
          /\ call'[c].todo = {a \in Assignments : assignment[a].status = "live" /\ call[c].cohort \in assignment[a].targets}
      BY <1>r, <2>2 DEF SyncList, TypeOK, CallRecords
    <3> QED BY <2>2, <3>1 DEF Carried, SyncList
  <2>3. ASSUME NEW a \in Assignments, SyncAdd(c, a) PROVE Carried(call[c])'
    <3>1. /\ call'[c].pc = "sync.add" /\ call'[c].cohort = call[c].cohort /\ call'[c].todo = call[c].todo \ {a}
      BY <1>r, <2>3 DEF SyncAdd, At, TypeOK, CallRecords
    <3> QED BY <1>r, <2>3, <3>1 DEF Carried, SyncAdd
  <2>4. CASE SyncEnd(c)
    <3>1. call'[c].todo = {} /\ call'[c].pc # "assign"
      BY <1>r, <2>4 DEF SyncEnd, Goto, TypeOK, CallRecords
    <3> QED BY <1>b, <3>1
  <2>5. ASSUME NEW chosen \in SUBSET Students, NEW from \in Cohorts \cup {None}, NEW to \in Cohorts,
               MoveAsk(c, chosen, from, to)
        PROVE  Carried(call[c])'
    BY <1>b, <2>5 DEF MoveAsk, TypeOK, Blank
  <2>6. ASSUME NEW s \in Students, MoveLeave(c, s) PROVE Carried(call[c])'
    <3>1. call'[c].pc = "join" /\ call'[c].todo = call[c].todo /\ call[c].pc = "move"
      BY <1>r, <2>6 DEF MoveLeave, At, TypeOK, CallRecords
    <3> QED BY <1>r, <1>b, <3>1 DEF Carried
  <2>7. ASSUME NEW a \in Assignments, NEW targets \in SUBSET Cohorts, AssignCreate(c, a, targets)
        PROVE  Carried(call[c])'
    <3>1. /\ call'[c].pc = "assign" /\ call'[c].assignment = a /\ call'[c].cohorts = targets
          /\ call'[c].people = {} /\ call'[c].todo = {}
      BY <2>7 DEF AssignCreate, TypeOK, Blank
    <3>2. assignment'[a].status = "live" /\ assignment'[a].targets = targets
      BY <2>7 DEF AssignCreate, TypeOK
    <3> QED BY <3>1, <3>2 DEF Carried
  <2>8. ASSUME NEW k \in Cohorts, AssignList(c, k) PROVE Carried(call[c])'
    <3>1. /\ call[c].pc = "assign" /\ call'[c].pc = "assign" /\ call'[c].assignment = call[c].assignment
          /\ call'[c].cohorts = call[c].cohorts \ {k} /\ call'[c].todo = call[c].todo
          /\ call'[c].people = {s \in Students : place[k][s] = "ACTIVE"} /\ k \in call[c].cohorts
      BY <1>r, <2>8 DEF AssignList, At, TypeOK, CallRecords
    <3>2. UNCHANGED <<place, assignment>> /\ call[c].todo = {}
      BY <1>r, <2>8, <3>1 DEF AssignList, Carried
    <3>3. \A s \in call'[c].people : \E q \in assignment[call[c].assignment].targets : place[q][s] # "none"
      BY <1>r, <3>1 DEF Carried
    <3> QED BY <1>r, <3>1, <3>2, <3>3 DEF Carried
  <2>9. ASSUME NEW s \in Students, AssignAdd(c, s) PROVE Carried(call[c])'
    <3>1. /\ call[c].pc = "assign" /\ call'[c].pc = "assign" /\ call'[c].assignment = call[c].assignment
          /\ call'[c].cohorts = call[c].cohorts /\ call'[c].todo = call[c].todo
          /\ call'[c].people = call[c].people \ {s}
      BY <1>r, <2>9 DEF AssignAdd, At, TypeOK, CallRecords
    <3>2. UNCHANGED <<place, assignment>> /\ call[c].todo = {}
      BY <1>r, <2>9, <3>1 DEF AssignAdd, Carried
    <3> QED BY <1>r, <3>1, <3>2 DEF Carried
  <2> QED BY <1>2, <1>e, <2>1, <2>2, <2>3, <2>4, <2>5, <2>6, <2>7, <2>8, <2>9 DEF Rostering, MoveEnd, AssignEnd
<1>3. ASSUME NEW c \in Calls, Stops(c) PROVE Carried(call[c])'
  <2>1. /\ call'[c].todo = {} /\ call'[c].cohorts = {} /\ call'[c].people = {}
        /\ call'[c].pc = "assign" => call[c].pc = "assign" /\ call'[c].assignment = call[c].assignment
    BY <1>3 DEF Stops, Blank, TypeOK
  <2>2. UNCHANGED assignment
    BY <1>3 DEF Stops
  <2> QED BY <1>r, <2>1, <2>2 DEF Carried
<1>4. ASSUME NEW a \in Assignments, assignment'[a].status = "none" PROVE assignment'[a].targets = {}
  <2>1. assignment[a].status = "none"
    BY <1>0, <1>4 DEF RowsStay
  <2>2. CASE UNCHANGED assignment
    BY <2>1, <2>2 DEF TargetInv
  <2>3. ASSUME NEW c \in Calls, NEW b \in Assignments, NEW targets \in SUBSET Cohorts, AssignCreate(c, b, targets)
        PROVE  assignment'[a] = assignment[a]
    BY <1>4, <2>3 DEF AssignCreate, TypeOK
  <2>4. ASSUME NEW b \in Assignments, CloseAssignment(b) PROVE assignment'[a] = assignment[a]
    BY <2>1, <2>4 DEF CloseAssignment, TypeOK
  <2>5. ASSUME NEW c \in Calls, Invitation(c) PROVE UNCHANGED assignment
    BY <2>5 DEF Invitation, AcceptAsk, DeclineAsk, ResendAsk, ReadInvite, AcceptConsent, AcceptMember, AcceptMark,
         DeclineWrite, ResendCreate, ResendRevoke
  <2>6. ASSUME NEW c \in Calls, Rostering(c)
        PROVE  UNCHANGED assignment \/ \E b \in Assignments, targets \in SUBSET Cohorts : AssignCreate(c, b, targets)
    BY <2>6 DEF Rostering, Join, SyncList, SyncAdd, SyncEnd, MoveAsk, MoveLeave, MoveEnd, AssignList, AssignAdd, AssignEnd
  <2>7. assignment'[a] = assignment[a]
    BY <2>3, <2>4, <2>5, <2>6 DEF Next, vars, Stops, Single, CreateInvite, RemoveMember, RemoveFromCohort
  <2> QED BY <2>1, <2>7 DEF TargetInv
<1>5. \A d \in Calls : Carried(call[d])'
  BY <1>1, <1>2, <1>3, <1>s, Steppers
<1> QED BY <1>4, <1>5 DEF TargetInv

\* What goes onto a roster was carried there.
LEMMA FromTargetsStep == ASSUME TypeOK, AcceptInv, TargetInv, RosterFromTargets, [Next]_vars PROVE RosterFromTargets'
<1> SUFFICES ASSUME NEW a \in Assignments, NEW s \in roster'[a]
             PROVE  \E k \in assignment'[a].targets : place'[k][s] # "none"
  BY DEF RosterFromTargets
<1>0. RowsStay
  BY RowsStayStep
<1>1. ASSUME s \in Students, \E k \in assignment[a].targets : place[k][s] # "none"
      PROVE  \E k \in assignment'[a].targets : place'[k][s] # "none"
  <2>1. PICK k \in assignment[a].targets : place[k][s] # "none"
    BY <1>1
  <2>2. assignment[a].status # "none" /\ k \in Cohorts
    BY <2>1 DEF TargetInv, TypeOK
  <2> QED BY <1>0, <1>1, <2>1, <2>2 DEF RowsStay
<1>2. CASE s \in roster[a]
  <2>1. s \in Students
    BY <1>2 DEF TypeOK
  <2> QED BY <1>1, <1>2, <2>1 DEF RosterFromTargets
<1>3. ASSUME NEW c \in Calls, SyncAdd(c, a), s = call[c].student PROVE \E k \in assignment'[a].targets : place'[k][s] # "none"
  <2>1. call[c].pc = "sync.add" /\ a \in call[c].todo
    BY <1>3 DEF SyncAdd, At
  <2>2. s \in Students /\ call[c].cohort \in assignment[a].targets /\ place[call[c].cohort][s] # "none"
    BY <1>3, <2>1 DEF TypeOK, Fits, Joining, TargetInv, Carried, AcceptInv, Established
  <2> QED BY <1>1, <2>2
<1>4. ASSUME NEW c \in Calls, AssignAdd(c, s), call[c].assignment = a PROVE \E k \in assignment'[a].targets : place'[k][s] # "none"
  <2>1. call[c].pc = "assign" /\ s \in call[c].people
    BY <1>4 DEF AssignAdd, At
  <2>2. s \in Students /\ \E k \in assignment[a].targets : place[k][s] # "none"
    BY <1>4, <2>1 DEF TypeOK, CallRecords, TargetInv, Carried
  <2> QED BY <1>1, <2>2
<1>5. ASSUME s \notin roster[a]
      PROVE  \E c \in Calls : (SyncAdd(c, a) /\ s = call[c].student) \/ (AssignAdd(c, s) /\ call[c].assignment = a)
  <2>1. ASSUME NEW c \in Calls, NEW b \in Assignments, SyncAdd(c, b) PROVE b = a /\ s = call[c].student
    BY <1>5, <2>1 DEF SyncAdd, TypeOK
  <2>2. ASSUME NEW c \in Calls, NEW t \in Students, AssignAdd(c, t) PROVE t = s /\ call[c].assignment = a
    BY <1>5, <2>2 DEF AssignAdd, TypeOK
  <2>3. ASSUME NEW c \in Calls, Invitation(c) PROVE UNCHANGED roster
    BY <2>3 DEF Invitation, AcceptAsk, DeclineAsk, ResendAsk, ReadInvite, AcceptConsent, AcceptMember, AcceptMark,
         DeclineWrite, ResendCreate, ResendRevoke
  <2>4. ASSUME NEW c \in Calls, Rostering(c)
        PROVE  \/ UNCHANGED roster
               \/ \E b \in Assignments : SyncAdd(c, b)
               \/ \E t \in Students : AssignAdd(c, t)
    BY <2>4 DEF Rostering, Join, SyncList, SyncEnd, MoveAsk, MoveLeave, MoveEnd, AssignCreate, AssignList, AssignEnd
  <2>5. ~(UNCHANGED roster)
    BY <1>5
  <2>6. \E c \in Calls : (\E b \in Assignments : SyncAdd(c, b)) \/ \E t \in Students : AssignAdd(c, t)
    BY <2>3, <2>4, <2>5 DEF Next, vars, Stops, Single, CreateInvite, RemoveMember, RemoveFromCohort, CloseAssignment
  <2> QED BY <2>1, <2>2, <2>6
<1> QED BY <1>2, <1>3, <1>4, <1>5

\* Nobody is rostered who never belonged to a cohort the assignment targets.
THEOREM RosterIsTargeted == Spec => []RosterFromTargets
<1> DEFINE Inv == TypeOK /\ AcceptInv /\ TargetInv /\ RosterFromTargets
<1>1. Init => Inv
  <2> SUFFICES ASSUME Init PROVE Inv
    OBVIOUS
  <2>1. AcceptInv
    BY DEF Init, AcceptInv, Established, Blank, Joining
  <2>2. TargetInv /\ RosterFromTargets
    BY DEF Init, TargetInv, Carried, Blank, RosterFromTargets
  <2> QED BY <2>1, <2>2, TypeInit
<1>2. Inv /\ TypeOK' /\ [Next]_vars => Inv'
  BY AcceptStep, TargetStep, FromTargetsStep
<1>3. Inv => RosterFromTargets
  OBVIOUS
<1> QED BY <1>1, <1>2, <1>3, RosterTypes, PTL DEF Spec

\* Rosters follow the targeted cohorts, both ways.
THEOREM RosterIsSound == Spec => []RosterFollowsTargets
<1>1. RosterCovers /\ RosterFromTargets => RosterFollowsTargets
  BY DEF RosterFollowsTargets
<1> QED BY <1>1, RosterIsComplete, RosterIsTargeted, PTL

=============================================================================
