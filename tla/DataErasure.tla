----------------------------- MODULE DataErasure -----------------------------
(***************************************************************************)
(* One erasure request of the privacy office, its dry run and its execution *)
(* (server/routes/admin/privacy.js), the cascade (executeErasure of         *)
(* server/lib/privacyPlanner.js) and the legal holds it looks up            *)
(* (holdCovering of server/lib/retentionEnforcement.js), while the          *)
(* candidate starts and goes on with sessions, before and after they are    *)
(* wiped, sessions are scored, and holds are placed and released.  A wipe   *)
(* leaves the live session in the cache, which messages and scorings go on  *)
(* from (server/routes/assessment.js).  Every query of an execution is a    *)
(* step of its own, the deletes of one session's rows being one step that   *)
(* may break in the middle.  The candidate's account, payments and disputes *)
(* are rows like others.                                                    *)
(***************************************************************************)
EXTENDS Naturals, FiniteSets, FiniteSetsExt

CONSTANTS
    Files,          \* sessions of the candidate
    Erasers,        \* requests to plan or to execute
    Whole,          \* the candidate, as what a request or a hold is about
    MaxHolds,       \* bound on the holds that are placed
    MaxAsked,       \* bound on the dry runs, executions and holds together
    MaxAllowed      \* how many approvals the request was given

ASSUME ErasureAssumption ==
    /\ Whole \notin Files
    /\ MaxHolds \in Nat /\ MaxAsked \in Nat /\ MaxAllowed \in Nat

VARIABLES
    scope,          \* what the request covers: the candidate or one session
    standing,       \* privacy_requests.status
    allowed,        \* admin_approvals: those that may still be used, numbered as they were given
    store,          \* the rows of each session: listed as begun or as scored, gone, or rows that no list finds
    account,        \* whether the candidate's account exists
    owned,          \* sessions a scoring of which has found its owner
    holds,          \* legal_holds in force: what each is on, and the executions that had looked before
    placed,         \* how many holds were placed
    erase,          \* the requests
    spared          \* history: sessions written to since their last wipe, or that its sweep failed on

erasureVars == <<scope, standing, allowed, store, account, owned, holds, placed, erase, spared>>

IdleErasure == [pc |-> "idle", by |-> 0, listed |-> {}, todo |-> {}, known |-> FALSE, blind |-> FALSE]

Working == {"wipe", "account", "complete"}
Executing == Working \cup {"list", "look", "yield"}
EraseSteps == Executing \cup {"idle", "plan", "pick", "take", "mark", "done", "refused", "broken"}

ErasureTypeOK ==
    /\ scope \in Files \cup {Whole}
    /\ standing \in {"verifying", "awaiting_approval", "executing", "completed", "rejected"}
    /\ allowed \subseteq 1..MaxAllowed
    /\ store \in [Files -> {"unborn", "open", "scored", "stray", "gone"}]
    /\ owned \subseteq Files /\ spared \subseteq Files /\ account \in BOOLEAN
    /\ holds \subseteq [on : Files \cup {Whole}, after : SUBSET Erasers] /\ placed \in 0..MaxHolds
    /\ erase \in [Erasers -> [pc : EraseSteps, by : 0..MaxAllowed, listed : SUBSET Files, todo : SUBSET Files,
                              known : BOOLEAN, blind : BOOLEAN]]

ErasureInit ==
    /\ \E first \in SUBSET Files :
         /\ scope \in first \cup {Whole}
         /\ store = [s \in Files |-> IF s \in first THEN "open" ELSE "unborn"]
    /\ standing \in {"verifying", "awaiting_approval"} /\ allowed = 1..MaxAllowed
    /\ account = TRUE /\ owned = {}
    /\ holds = {} /\ placed = 0 /\ spared = {}
    /\ erase = [c \in Erasers |-> IdleErasure]

-----------------------------------------------------------------------------
(* Around the request *)

Asked == placed + Cardinality({c \in Erasers : erase[c].pc # "idle"})

\* POST /:id/reject, of any request that is not closed.
RejectRequest ==
    /\ standing \notin {"completed", "rejected"}
    /\ standing' = "rejected"
    /\ UNCHANGED <<scope, allowed, store, account, owned, holds, placed, erase, spared>>

\* The history marks the executions that have looked for holds already.
PlaceHold(on) ==
    /\ placed < MaxHolds /\ Asked < MaxAsked
    /\ placed' = placed + 1
    /\ holds' = holds \cup {[on |-> on, after |-> {c \in Erasers : erase[c].pc \in Working}]}
    /\ UNCHANGED <<scope, standing, allowed, store, account, owned, erase, spared>>

ReleaseHold(h) ==
    /\ h \in holds
    /\ holds' = holds \ {h}
    /\ UNCHANGED <<scope, standing, allowed, store, account, owned, placed, erase, spared>>

-----------------------------------------------------------------------------
(* The candidate: what the ends of handlers write.  Each of them has loaded the *)
(* session at some time since it began, from the row or from the cache, where *)
(* no execution drops it; their beginnings change nothing here.              *)

\* The candidate starts a session.
BeginFile(s) ==
    /\ store[s] = "unborn" /\ account
    /\ store' = [store EXCEPT ![s] = "open"]
    /\ UNCHANGED <<scope, standing, allowed, account, owned, holds, placed, erase, spared>>

\* Rows of s other than its own are written: after a wipe, no list finds them.
Writes(s) ==
    /\ store[s] # "unborn"
    /\ store' = IF store[s] = "gone" THEN [store EXCEPT ![s] = "stray"] ELSE store
    /\ spared' = IF store[s] \in {"gone", "stray"} THEN spared \cup {s} ELSE spared
    /\ UNCHANGED <<scope, standing, allowed, account, owned, holds, placed, erase>>

\* POST /message, once the reply is there: the cache is set, updateSession passes over a
\* row that is gone, and the turn's item is recorded for any session.
Message(s) == Writes(s)

\* POST /event, and the consents, identity checks and calibrations that are recorded
\* the same way.
Event(s) == Writes(s)

\* A scoring reads the report's owner from the session's row,
FindOwner(s) ==
    /\ store[s] \in {"open", "scored"}
    /\ owned' = owned \cup {s}
    /\ UNCHANGED <<scope, standing, allowed, store, account, holds, placed, erase, spared>>

\* and upserts the report, which without a row has no owner and is listed for nobody.
StoreReport(s) ==
    \/ /\ s \in owned /\ owned' = owned \ {s}
       /\ store' = [store EXCEPT ![s] = "scored"]
       /\ spared' = IF store[s] \in {"gone", "stray"} THEN spared \cup {s} ELSE spared
       /\ UNCHANGED <<scope, standing, allowed, account, holds, placed, erase>>
    \/ Writes(s)

\* It fails, or the process restarts under it.
ScoringFails(s) ==
    /\ s \in owned
    /\ owned' = owned \ {s}
    /\ UNCHANGED <<scope, standing, allowed, store, account, holds, placed, erase, spared>>

-----------------------------------------------------------------------------
(* The dry run *)

AskPlan(c) ==
    /\ erase[c].pc = "idle" /\ Asked < MaxAsked
    /\ erase' = [erase EXCEPT ![c].pc = IF standing \in {"verifying", "awaiting_approval"} THEN "plan" ELSE "refused"]
    /\ UNCHANGED <<scope, standing, allowed, store, account, owned, holds, placed, spared>>

\* The plan and the status are written whatever the status is by then.
WritePlan(c) ==
    /\ erase[c].pc = "plan"
    /\ standing' = "awaiting_approval"
    /\ erase' = [erase EXCEPT ![c].pc = "refused"]
    /\ UNCHANGED <<scope, allowed, store, account, owned, holds, placed, spared>>

-----------------------------------------------------------------------------
(* The execution *)

\* Only a planned request awaits its approval.
AskExecute(c) ==
    /\ erase[c].pc = "idle" /\ Asked < MaxAsked
    /\ erase' = [erase EXCEPT ![c].pc = IF standing = "awaiting_approval" THEN "pick" ELSE "refused"]
    /\ UNCHANGED <<scope, standing, allowed, store, account, owned, holds, placed, spared>>

\* consumeApproval reads the oldest approval and then takes it by its id.
PickAllowed(c) ==
    /\ erase[c].pc = "pick"
    /\ erase' = [erase EXCEPT ![c] = IF allowed = {} THEN [@ EXCEPT !.pc = "refused"] ELSE [@ EXCEPT !.pc = "take", !.by = Min(allowed)]]
    /\ UNCHANGED <<scope, standing, allowed, store, account, owned, holds, placed, spared>>

TakeAllowed(c) ==
    /\ erase[c].pc = "take"
    /\ allowed' = allowed \ {erase[c].by}
    /\ erase' = [erase EXCEPT ![c].pc = "mark", ![c].by = 0]
    /\ UNCHANGED <<scope, standing, store, account, owned, holds, placed, spared>>

MarkExecuting(c) ==
    /\ erase[c].pc = "mark"
    /\ standing' = "executing"
    /\ erase' = [erase EXCEPT ![c].pc = "list"]
    /\ UNCHANGED <<scope, allowed, store, account, owned, holds, placed, spared>>

\* resolveCandidate and resolveSessionIds.  A request about one session may leave
\* the candidate out.
ListFiles(c) ==
    LET listed == IF scope # Whole THEN {scope} ELSE IF account THEN {s \in Files : store[s] \in {"open", "scored"}} ELSE {} IN
    /\ erase[c].pc = "list"
    /\ \E known \in IF scope = Whole THEN {account} ELSE {account, FALSE} :
         erase' = [erase EXCEPT ![c] = [@ EXCEPT !.pc = "look", !.listed = listed, !.todo = listed, !.known = known]]
    /\ UNCHANGED <<scope, standing, allowed, store, account, owned, holds, placed, spared>>

Covers(h, c) == h.on \in erase[c].listed \/ (h.on = Whole /\ erase[c].known)
AfterFiles(c, todo) == IF todo # {} THEN "wipe" ELSE IF scope = Whole /\ erase[c].known THEN "account" ELSE "complete"

\* Mutant: only the holds on sessions are looked for.
LookForSessionHolds(c) ==
    /\ erase[c].pc = "look"
    /\ \E blind \in BOOLEAN :
         erase' = [erase EXCEPT ![c].blind = blind,
                     ![c].pc = IF ~blind /\ \E h \in holds : h.on \in erase[c].listed THEN "yield" ELSE AfterFiles(c, erase[c].todo)]
    /\ UNCHANGED <<scope, standing, allowed, store, account, owned, holds, placed, spared>>

\* holdCovering: a query that fails reads as no holds.
LookForHolds(c) ==
    /\ erase[c].pc = "look"
    /\ \E blind \in BOOLEAN :
         erase' = [erase EXCEPT ![c].blind = blind,
                     ![c].pc = IF ~blind /\ \E h \in holds : Covers(h, c) THEN "yield" ELSE AfterFiles(c, erase[c].todo)]
    /\ UNCHANGED <<scope, standing, allowed, store, account, owned, holds, placed, spared>>

\* A hold sends the request back; its approval is used.
Yield(c) ==
    /\ erase[c].pc = "yield"
    /\ standing' = "awaiting_approval"
    /\ erase' = [erase EXCEPT ![c] = [IdleErasure EXCEPT !.pc = "refused"]]
    /\ UNCHANGED <<scope, allowed, store, account, owned, holds, placed, spared>>

\* eraseSession, of one session after the other; eraseTelemetryUnconditionally
\* swallows the failure of a delete, and the live session stays in the cache.
WipeFile(c, s) ==
    LET todo == erase[c].todo \ {s} IN
    /\ erase[c].pc = "wipe" /\ s \in erase[c].todo
    /\ \/ store' = [store EXCEPT ![s] = "gone"] /\ spared' = spared \ {s}
       \/ store' = [store EXCEPT ![s] = "stray"] /\ spared' = spared \cup {s}
    /\ erase' = [erase EXCEPT ![c].pc = AfterFiles(c, todo), ![c].todo = todo]
    /\ UNCHANGED <<scope, standing, allowed, account, owned, holds, placed>>

\* deleteUser
DropAccount(c) ==
    /\ erase[c].pc = "account"
    /\ account' = FALSE
    /\ erase' = [erase EXCEPT ![c].pc = "complete"]
    /\ UNCHANGED <<scope, standing, allowed, store, owned, holds, placed, spared>>

CompleteErasure(c) ==
    /\ erase[c].pc = "complete"
    /\ standing' = "completed"
    /\ erase' = [erase EXCEPT ![c] = [IdleErasure EXCEPT !.pc = "done", !.listed = erase[c].listed]]
    /\ UNCHANGED <<scope, allowed, store, account, owned, holds, placed, spared>>

\* A query fails or the process dies; in the middle of a wipe the session's own row is
\* deleted already and no list finds the others again.
EraseBreaks(c) ==
    /\ erase[c].pc \notin {"idle", "done", "refused", "broken"}
    /\ \/ UNCHANGED store
       \/ \E s \in erase[c].todo :
            erase[c].pc = "wipe" /\ store[s] # "gone" /\ store' = [store EXCEPT ![s] = "stray"]
    /\ erase' = [erase EXCEPT ![c] = [IdleErasure EXCEPT !.pc = "broken"]]
    /\ UNCHANGED <<scope, standing, allowed, account, owned, holds, placed, spared>>

ErasureNext ==
    \/ RejectRequest
    \/ \E on \in Files \cup {Whole} : PlaceHold(on)
    \/ \E h \in holds : ReleaseHold(h)
    \/ \E s \in Files :
         BeginFile(s) \/ Message(s) \/ Event(s) \/ FindOwner(s) \/ StoreReport(s) \/ ScoringFails(s)
    \/ \E c \in Erasers :
         \/ AskPlan(c) \/ WritePlan(c) \/ AskExecute(c) \/ PickAllowed(c) \/ TakeAllowed(c)
         \/ MarkExecuting(c) \/ ListFiles(c) \/ LookForHolds(c) \/ Yield(c)
         \/ \E s \in Files : WipeFile(c, s)
         \/ DropAccount(c) \/ CompleteErasure(c) \/ EraseBreaks(c)

ErasureSpec == ErasureInit /\ [][ErasureNext]_erasureVars

-----------------------------------------------------------------------------
(* Properties *)

\* When an execution has answered, nothing is left of the sessions it had listed but
\* what the candidate or a scoring wrote after their last wipe and what its sweep
\* failed to delete.
ListedIsGone ==
    \A c \in Erasers : erase[c].pc = "done" =>
        \A s \in erase[c].listed : s \in spared \/ store[s] = "gone"

\* An execution deletes under a legal hold that covers it only if the hold was placed
\* after it had looked, or its look failed.
HoldsAreHeeded ==
    \A c \in Erasers : \A h \in holds :
        erase[c].pc \in Working /\ Covers(h, c) => c \in h.after \/ erase[c].blind

\* A request that reads as executing is being executed, or its execution broke.
ExecutingIsRunning ==
    standing = "executing" => \E c \in Erasers : erase[c].pc \in Executing \cup {"broken"}

ErasureSound == ListedIsGone /\ HoldsAreHeeded /\ ExecutingIsRunning
=============================================================================
