------------------------- MODULE CompletionNotices -------------------------
(***************************************************************************)
(* The notices an assignment's creator gets when half and all of its roster *)
(* have finished: settling a student's row (server/domain/assessments/      *)
(* sessionService.js) and checkCompletionThresholds (server/domain/          *)
(* campusAdmin/service.js), which counts, lists what was sent and sends.    *)
(* Nothing locks, so that students who settle together check together.      *)
(***************************************************************************)
EXTENDS Naturals, Sequences, FiniteSets

CONSTANTS
    Learners, OnRoster,   \* students, and those of them on the roster at first
    Settles,              \* requests
    Window,               \* how many of the creator's notifications are listed, 200 in the code
    MaxOther              \* bound on other notifications to the creator

ASSUME NoticeAssumption ==
    /\ Learners # {} /\ IsFiniteSet(Learners) /\ OnRoster \subseteq Learners
    /\ Window \in Nat \ {0} /\ MaxOther \in Nat

VARIABLES
    seat,      \* assessment_assignment_students: status per student, "none" without a row
    notices,   \* the creator's notifications about this assignment: thresholds, 0 for another kind
    settle,    \* the requests
    crossed    \* history: whether a check listed while another was yet to send

noticeVars == <<seat, notices, settle, crossed>>

COMPLETION_THRESHOLDS == {50, 100}
SettleSteps == {"idle", "write", "count", "list", "send", "done", "broken"}

NoticeTypeOK ==
    /\ seat \in [Learners -> {"none", "STARTED", "COMPLETED"}]
    /\ notices \in Seq(COMPLETION_THRESHOLDS \cup {0})
    /\ settle \in [Settles -> [pc : SettleSteps, who : Learners, owed : SUBSET COMPLETION_THRESHOLDS]]
    /\ crossed \in BOOLEAN

NoticeInit ==
    /\ seat = [s \in Learners |-> IF s \in OnRoster THEN "STARTED" ELSE "none"]
    /\ notices = <<>>
    /\ settle = [c \in Settles |-> [pc |-> "idle", who |-> CHOOSE s \in Learners : TRUE, owed |-> {}]]
    /\ crossed = FALSE

-----------------------------------------------------------------------------
Roster == {s \in Learners : seat[s] # "none"}
Completed == {s \in Learners : seat[s] = "COMPLETED"}
Percent == (Cardinality(Completed) * 100) \div Cardinality(Roster)
Reached == {t \in COMPLETION_THRESHOLDS : Roster # {} /\ Percent >= t}

\* What listNotifications shows of the thresholds: the newest Window rows.
Listed == {notices[i] : i \in {n \in 1..Len(notices) : n + Window > Len(notices)}}
Told(t) == Cardinality({i \in 1..Len(notices) : notices[i] = t})
Sending(c) == settle[c].pc = "send"

\* The row is read, and a student who has completed is left alone.
AskSettle(c, s) ==
    /\ settle[c].pc = "idle" /\ seat[s] = "STARTED"
    /\ settle' = [settle EXCEPT ![c].pc = "write", ![c].who = s]
    /\ UNCHANGED <<seat, notices, crossed>>

WriteSeat(c) ==
    /\ settle[c].pc = "write"
    /\ seat' = [seat EXCEPT ![settle[c].who] = "COMPLETED"]
    /\ settle' = [settle EXCEPT ![c].pc = "count"]
    /\ UNCHANGED <<notices, crossed>>

CountSeats(c) ==
    /\ settle[c].pc = "count"
    /\ settle' = [settle EXCEPT ![c].pc = IF Reached = {} THEN "done" ELSE "list", ![c].owed = Reached]
    /\ UNCHANGED <<seat, notices, crossed>>

\* Mutant: one notice of the assignment is as good as another.
ListAnyKind(c) ==
    LET owed == IF Listed \cap COMPLETION_THRESHOLDS = {} THEN settle[c].owed ELSE {} IN
    /\ settle[c].pc = "list"
    /\ settle' = [settle EXCEPT ![c].owed = owed, ![c].pc = IF owed = {} THEN "done" ELSE "send"]
    /\ crossed' = (crossed \/ \E d \in Settles : Sending(d))
    /\ UNCHANGED <<seat, notices>>

ListSent(c) ==
    LET owed == settle[c].owed \ Listed IN
    /\ settle[c].pc = "list"
    /\ settle' = [settle EXCEPT ![c].owed = owed, ![c].pc = IF owed = {} THEN "done" ELSE "send"]
    /\ crossed' = (crossed \/ \E d \in Settles : Sending(d))
    /\ UNCHANGED <<seat, notices>>

\* One notice at a time, the lower threshold first.
Send(c) ==
    /\ Sending(c)
    /\ \E t \in settle[c].owed :
         /\ \A x \in settle[c].owed : t <= x
         /\ notices' = Append(notices, t)
         /\ settle' = [settle EXCEPT ![c].owed = @ \ {t}, ![c].pc = IF @ = "send" /\ settle[c].owed = {t} THEN "done" ELSE @]
    /\ UNCHANGED <<seat, crossed>>

\* The check fails, which the student's request swallows, or the process dies.
CheckBreaks(c) ==
    /\ settle[c].pc \in {"write", "count", "list", "send"}
    /\ settle' = [settle EXCEPT ![c].pc = "broken", ![c].owed = {}]
    /\ UNCHANGED <<seat, notices, crossed>>

\* A student joins a cohort of the assignment.
Joins(s) ==
    /\ seat[s] = "none"
    /\ seat' = [seat EXCEPT ![s] = "STARTED"]
    /\ UNCHANGED <<notices, settle, crossed>>

\* The creator is notified of something else.
OtherNotice ==
    /\ Told(0) < MaxOther
    /\ notices' = Append(notices, 0)
    /\ UNCHANGED <<seat, settle, crossed>>

NoticeNext ==
    \/ \E c \in Settles :
         \/ \E s \in Learners : AskSettle(c, s)
         \/ WriteSeat(c) \/ CountSeats(c) \/ ListSent(c) \/ Send(c) \/ CheckBreaks(c)
    \/ \E s \in Learners : Joins(s)
    \/ OtherNotice

NoticeSpec == NoticeInit /\ [][NoticeNext]_noticeVars

-----------------------------------------------------------------------------
(* Properties *)

\* No threshold is missed: once every check that began has ended and none was
\* cut short, the creator has been told of each threshold the roster stands at.
ReachedIsTold ==
    (\A c \in Settles : settle[c].pc \in {"idle", "done"}) => \A t \in Reached : Told(t) > 0

\* A threshold is told once, however the roster grows and falls back, unless
\* two checks overlapped or more than Window newer notices hid the first one.
ToldOnce == crossed \/ Len(notices) > Window \/ \A t \in COMPLETION_THRESHOLDS : Told(t) <= 1

\* Each threshold is told, and told once.
NoticesSound == ReachedIsTold /\ ToldOnce
=============================================================================
