--------------------------- MODULE StudentImport ---------------------------
(***************************************************************************)
(* The commit of a previewed student import: commitImport and runCommit     *)
(* (server/domain/campusAdmin/service.js) over the import jobs and the      *)
(* invitations of the store (server/domain/campusAdmin/repository.pg.js).   *)
(*                                                                         *)
(* A commit claims its job with a compare-and-set, links students who are   *)
(* members, invites the others, revokes the links they had before, and      *)
(* commits the outcomes in one transaction.  A commit that fails frees its  *)
(* claim; a process that dies does not.  Each row is a cohort of its own,   *)
(* so that one row can fail while another is invited.  A link is named by   *)
(* the commit that created it.  Every row is one the uploader may reach.    *)
(***************************************************************************)
EXTENDS Naturals, FiniteSets

CONSTANTS
    Jobs, CommitKeys, \* import jobs, Idempotency-Keys of the commit requests
    Emails,
    RowsOf,           \* [Jobs -> sets of emails]: the rows without errors
    Existing,         \* emails whose row says ALREADY_MEMBER
    Commits,          \* requests
    FirstLink,        \* names the links that are there before any import
    NoKey

ASSUME ImportAssumption ==
    /\ Jobs # {} /\ CommitKeys # {} /\ Emails # {}
    /\ RowsOf \in [Jobs -> SUBSET Emails]
    /\ Existing \subseteq Emails
    /\ NoKey \notin CommitKeys /\ FirstLink \notin Commits

Senders == Commits \cup {FirstLink}

VARIABLES
    job,      \* student_import_jobs: status, commit_key and the outcomes of the rows
    link,     \* organization_invites, per sender and email
    linked,   \* members put into the cohort of their row
    run,      \* the requests
    stuck     \* history: jobs whose claim was left behind

importVars == <<job, link, linked, run, stuck>>

Outcomes == {"none", "INVITED", "FAILED", "SKIPPED"}
Running == {"rows", "invite", "revoke", "tell"}
CommitSteps == {"idle", "claim"} \cup Running \cup {"release", "done", "refused", "failed"}

ImportTypeOK ==
    /\ job \in [Jobs -> [status : {"PREVIEW", "COMMITTED"}, key : CommitKeys \cup {NoKey}, outcome : [Emails -> Outcomes]]]
    /\ link \in [Senders -> [Emails -> {"none", "PENDING", "ACCEPTED", "REVOKED"}]]
    /\ linked \subseteq Existing
    /\ run \in [Commits -> [pc : CommitSteps, job : Jobs, key : CommitKeys, todo : SUBSET Emails, row : Emails,
                            before : SUBSET (Senders \X Emails), outcome : [Emails -> Outcomes]]]
    /\ stuck \subseteq Jobs

Fresh == [e \in Emails |-> "none"]

ImportInit ==
    /\ job = [j \in Jobs |-> [status |-> "PREVIEW", key |-> NoKey, outcome |-> Fresh]]
    /\ link = [s \in Senders |-> [e \in Emails |-> IF s = FirstLink /\ e \notin Existing THEN "PENDING" ELSE "none"]]
    /\ linked = {}
    /\ run = [c \in Commits |-> [pc |-> "idle", job |-> CHOOSE j \in Jobs : TRUE, key |-> CHOOSE k \in CommitKeys : TRUE,
                                 todo |-> {}, row |-> CHOOSE e \in Emails : TRUE, before |-> {}, outcome |-> Fresh]]
    /\ stuck = {}

-----------------------------------------------------------------------------
JobOf(c) == job[run[c].job]
PendingLinks == {l \in Senders \X Emails : link[l[1]][l[2]] = "PENDING"}
OldLinks(c) == {l \in run[c].before : l[2] = run[c].row}

StepTo(c, pc) == run' = [run EXCEPT ![c].pc = pc]
GiveUp(c) == run' = [run EXCEPT ![c].pc = "failed", ![c].todo = {}, ![c].before = {}, ![c].outcome = Fresh]

\* The job is read: a committed job is replayed to its key and refused to any other.
AskCommit(c, j, k) ==
    /\ run[c].pc = "idle"
    /\ run' = [run EXCEPT ![c].job = j, ![c].key = k,
                 ![c].pc = IF job[j].status = "PREVIEW" THEN "claim" ELSE IF job[j].key = k THEN "done" ELSE "refused"]
    /\ UNCHANGED <<job, link, linked, stuck>>

\* claimImportCommit: the update finds a preview nobody has claimed, or nothing.
Claim(c) ==
    /\ run[c].pc = "claim"
    /\ IF JobOf(c).status = "PREVIEW" /\ JobOf(c).key = NoKey
         THEN /\ job' = [job EXCEPT ![run[c].job].key = run[c].key]
              /\ StepTo(c, "rows")
         ELSE StepTo(c, "refused") /\ UNCHANGED job
    /\ UNCHANGED <<link, linked, stuck>>

\* Members are linked to their cohorts, then the links that work are listed.
LinkRows(c) ==
    /\ run[c].pc = "rows"
    /\ linked' = linked \cup (RowsOf[run[c].job] \cap Existing)
    /\ run' = [run EXCEPT ![c].pc = "invite", ![c].before = PendingLinks,
                          ![c].todo = RowsOf[run[c].job] \ Existing,
                          ![c].outcome = [e \in Emails |-> IF e \in RowsOf[run[c].job] \cap Existing THEN "SKIPPED" ELSE "none"]]
    /\ UNCHANGED <<job, link, stuck>>

\* createInvites: a new link, or none and the row has failed.
Invite(c, e) ==
    /\ run[c].pc = "invite" /\ e \in run[c].todo
    /\ \/ /\ link' = [link EXCEPT ![c][e] = "PENDING"]
          /\ run' = [run EXCEPT ![c].pc = "revoke", ![c].row = e, ![c].todo = @ \ {e}, ![c].outcome[e] = "INVITED"]
       \/ /\ run' = [run EXCEPT ![c].todo = @ \ {e}, ![c].outcome[e] = "FAILED"]
          /\ UNCHANGED link
    /\ UNCHANGED <<job, linked, stuck>>

\* Mutant: a link that cannot be revoked leaves the row as it is.
RevokeBestEffort(c) ==
    /\ run[c].pc = "revoke"
    /\ \E revoked \in SUBSET OldLinks(c) :
         link' = [s \in Senders |-> [e \in Emails |-> IF <<s, e>> \in revoked THEN "REVOKED" ELSE link[s][e]]]
    /\ StepTo(c, "invite")
    /\ UNCHANGED <<job, linked, stuck>>

\* The links the row's student had are revoked, whatever became of them
\* meanwhile; when one cannot be, the row has failed though its own link was sent.
Revoke(c) ==
    /\ run[c].pc = "revoke"
    /\ \E revoked \in SUBSET OldLinks(c) :
         /\ link' = [s \in Senders |-> [e \in Emails |-> IF <<s, e>> \in revoked THEN "REVOKED" ELSE link[s][e]]]
         /\ run' = [run EXCEPT ![c].pc = "invite",
                      ![c].outcome[run[c].row] = IF revoked = OldLinks(c) THEN "INVITED" ELSE "FAILED"]
    /\ UNCHANGED <<job, linked, stuck>>

\* commitImportJob, under the job's row lock.
CommitJob(c) ==
    /\ run[c].pc = "invite" /\ run[c].todo = {}
    /\ job' = [job EXCEPT ![run[c].job] = [status |-> "COMMITTED", key |-> run[c].key, outcome |-> run[c].outcome]]
    /\ StepTo(c, "tell")
    /\ UNCHANGED <<link, linked, stuck>>

\* The audit event and the notification.
Tell(c) ==
    /\ run[c].pc = "tell"
    /\ StepTo(c, "done")
    /\ UNCHANGED <<job, link, linked, stuck>>

\* Anything in the run throws.
Throws(c) ==
    /\ run[c].pc \in {"rows", "invite", "tell"}
    /\ StepTo(c, "release")
    /\ UNCHANGED <<job, link, linked, stuck>>

\* releaseImportClaim; its own failure is swallowed.
FreeClaim(c) ==
    /\ run[c].pc = "release"
    /\ GiveUp(c)
    /\ LET held == JobOf(c).status = "PREVIEW" /\ JobOf(c).key = run[c].key IN
         \/ /\ job' = IF held THEN [job EXCEPT ![run[c].job].key = NoKey] ELSE job
            /\ UNCHANGED stuck
         \/ held /\ stuck' = stuck \cup {run[c].job} /\ UNCHANGED job
    /\ UNCHANGED <<link, linked>>

\* The process dies under the request; nothing frees its claim.
Dies(c) ==
    /\ run[c].pc \in Running \cup {"release"}
    /\ GiveUp(c)
    /\ stuck' = IF JobOf(c).status = "PREVIEW" THEN stuck \cup {run[c].job} ELSE stuck
    /\ UNCHANGED <<job, link, linked>>

\* A student accepts a link that works.
AcceptLink(l) ==
    /\ l \in PendingLinks
    /\ link' = [link EXCEPT ![l[1]][l[2]] = "ACCEPTED"]
    /\ UNCHANGED <<job, linked, run, stuck>>

ImportNext ==
    \/ \E c \in Commits :
         \/ \E j \in Jobs, k \in CommitKeys : AskCommit(c, j, k)
         \/ \E e \in Emails : Invite(c, e)
         \/ Claim(c) \/ LinkRows(c) \/ Revoke(c) \/ CommitJob(c) \/ Tell(c) \/ Throws(c) \/ FreeClaim(c) \/ Dies(c)
    \/ \E l \in Senders \X Emails : AcceptLink(l)

ImportSpec == ImportInit /\ [][ImportNext]_importVars

-----------------------------------------------------------------------------
(* Properties *)

\* One commit runs on a job at a time, whichever keys, tabs and retries ask for it.
OneRunPerJob ==
    \A c, d \in Commits : (run[c].pc \in Running \cup {"release"} /\ run[d].pc \in Running \cup {"release"}
                           /\ run[c].job = run[d].job /\ JobOf(c).status = "PREVIEW") => c = d

\* "A failed commit frees its claim so the same key can be retried": a claimed
\* preview has a commit running on it, unless the process died or the release itself failed.
ClaimHasRunner ==
    \A j \in Jobs \ stuck : (job[j].status = "PREVIEW" /\ job[j].key # NoKey)
        => \E c \in Commits : run[c].job = j /\ run[c].pc \in Running \cup {"release"}

\* "A re-imported student keeps one working link: the new one."  Of the links a
\* commit found, none works any more for a row it reports as invited; and its
\* own link was taken back only by another commit.
ReplacedLinksAreDead ==
    \A c \in Commits : run[c].pc \in {"tell", "done"} => \A e \in Emails :
        (run[c].outcome[e] = "INVITED") =>
            /\ \A l \in run[c].before : l[2] = e => link[l[1]][e] # "PENDING"
            /\ link[c][e] \in {"PENDING", "ACCEPTED"} \/ \E d \in Commits \ {c} : link[d][e] # "none"

\* A committed job tells the truth about its rows: members are in their
\* cohorts, and whoever is reported as invited was sent a link by the commit whose key it keeps.
CommittedRowsHappened ==
    \A j \in Jobs : job[j].status = "COMMITTED" => \A e \in RowsOf[j] :
        /\ job[j].outcome[e] # "none"
        /\ job[j].outcome[e] = "SKIPPED" => e \in linked
        /\ job[j].outcome[e] = "INVITED" =>
             \E c \in Commits : run[c].job = j /\ run[c].key = job[j].key /\ link[c][e] # "none"

\* A job is committed once, by a commit that did what it reports, however many
\* requests ask for it and wherever they fail.
ImportSound == OneRunPerJob /\ ClaimHasRunner /\ ReplacedLinksAreDead /\ CommittedRowsHappened
=============================================================================
