----------------------------- MODULE WorkMaterial -----------------------------
(***************************************************************************)
(* One work material in the candidate's browser: the artifact store         *)
(* (src/features/assessments/state/artifactStore.js) with the autosave, the *)
(* session contract it is loaded from (hooks/useAssessmentSession.js,       *)
(* pages/AssessmentPlayerPage.jsx) and saveArtifact of the server           *)
(* (server/domain/assessments/sessionService.js) with the engine's save under *)
(* it (routes/assessment.js), over a network that loses requests and answers *)
(* and delivers what the browser has given up on, to a server that may break *)
(* off between the writes of a save.                                        *)
(*                                                                         *)
(* An edit fills a field of its own, so that the contents of the material   *)
(* are a set of edits.  A save changes the engine's cached copy, which a    *)
(* message replaces by one without materials: the next save then starts from *)
(* the scenario's originals.  What breaks is a request, at any of its steps; *)
(* an engine handler that goes on after its service has given it up is in   *)
(* SessionWork.  The reasoning notes, kept with a version only, are not      *)
(* modelled, nor are the finish and its report.                             *)
(***************************************************************************)
EXTENDS Naturals, FiniteSets

CONSTANTS
    Edits,        \* edits of this page
    OtherEdits,   \* edits another tab saves
    MaxEvents,    \* bound: client event ids of this page
    MaxTurns,     \* bound: messages the engine handles
    MaxReads,     \* bound: readings of the contract
    MaxGivenUp,   \* bound: saves the browser gives up on
    MaxCuts,      \* bound: saves that break off on the server
    MaxMishaps    \* bound: readings, saves given up or broken off, and saves of another tab, together

ASSUME MaterialAssumption ==
    /\ MaxEvents \in Nat /\ MaxTurns \in Nat /\ MaxReads \in Nat /\ MaxGivenUp \in Nat
    /\ MaxCuts \in Nat /\ MaxMishaps \in Nat
    /\ OtherEdits \cap (0..MaxEvents) = {}

VARIABLES
    stored,     \* the work in the session row, and the latest number in the table of versions
    base,       \* the work in the engine's copy of the session, which the next save builds on
    recorded,   \* the work in any version of the table
    events,     \* the client events the server has answered: event -> version
    wire,       \* save requests under way
    item,       \* the store's record of the material
    lastEvent,  \* the event ids used
    cached,   \* the material in the query cache
    reading,    \* a reading of the contract under way
    replied,    \* a reply to this page is on its way
    used,       \* bounds: messages, readings made, saves given up, saves broken off
    typed,      \* history: edits typed
    given,      \* history: edits the candidate discarded or left the page with
    shownSaved, \* history: edits this page has shown as saved
    exposed,    \* history: edits in the row when a message was handled
    written,    \* history: events whose version was appended
    cut,        \* history: events broken off after their version was appended
    refused,    \* history: events answered with a conflict after their version was appended
    doubled     \* history: events two requests of which were past the lookup at once

serverVars == <<stored, base, recorded, events>>
pageVars == <<item, lastEvent, cached, reading, replied>>
delivery == <<exposed, written, cut, refused, doubled>>
histories == <<typed, given, shownSaved, delivery>>
materialVars == <<serverVars, wire, pageVars, used, histories>>

Work == SUBSET (Edits \cup OtherEdits)
Snapshot == [version : Nat, work : Work]
Untouched == [version |-> 0, work |-> {}]   \* before the first save; also: no answer stored
Status == {"SAVED", "DIRTY", "SAVING", "ERROR", "CONFLICT"}
Unsaved == Status \ {"SAVED"}
EventIds == (1..MaxEvents) \cup OtherEdits   \* another tab's event is named by its edit
Request == [event : EventIds, match : Nat, edits : Work,
            at : {"sent", "looked", "stored", "versioned"}, waited : BOOLEAN]

MaterialTypeOK ==
    /\ stored \in Snapshot /\ cached \in Snapshot /\ base \in Work /\ recorded \in Work
    /\ events \in [EventIds -> Snapshot]
    /\ wire \subseteq Request
    /\ item \in [status : Status, server : Snapshot, local : Work, pending : Work, queued : BOOLEAN,
                 sending : Work, event : 0..MaxEvents, sent : Work, aside : Work]
    /\ lastEvent \in 0..MaxEvents
    /\ reading \in [at : {"idle", "asked", "row", "read"}, seen : Snapshot]
    /\ replied \in BOOLEAN
    /\ used \in [turns : 0..MaxTurns, reads : 0..MaxReads, givenUp : 0..MaxGivenUp, cuts : 0..MaxCuts]
    /\ typed \subseteq Edits /\ given \in Work /\ shownSaved \in Work /\ exposed \in Work
    /\ written \subseteq EventIds /\ cut \subseteq EventIds /\ refused \subseteq EventIds /\ doubled \subseteq EventIds

NoReading == [at |-> "idle", seen |-> Untouched]
\* Of the other tab, the saves that are answered or under way are counted.
Mishaps == used.reads + used.givenUp + used.cuts
           + Cardinality({o \in OtherEdits : events[o] # Untouched \/ \E r \in wire : r.event = o})

Clean(server) == [status |-> "SAVED", server |-> server, local |-> server.work, pending |-> {}, queued |-> FALSE,
                  sending |-> {}, event |-> 0, sent |-> {}, aside |-> {}]

MaterialInit ==
    /\ stored = Untouched /\ base = {} /\ recorded = {} /\ cached = Untouched
    /\ events = [n \in EventIds |-> Untouched]
    /\ wire = {} /\ item = Clean(Untouched) /\ lastEvent = 0
    /\ reading = NoReading /\ replied = FALSE /\ used = [turns |-> 0, reads |-> 0, givenUp |-> 0, cuts |-> 0]
    /\ typed = {} /\ given = {} /\ shownSaved = {} /\ exposed = {}
    /\ written = {} /\ cut = {} /\ refused = {} /\ doubled = {}

-----------------------------------------------------------------------------
(* The candidate *)

\* edit and setNotes: during a conflict the edit joins the draft that was put aside.
Edit(e) ==
    /\ e \notin typed
    /\ typed' = typed \cup {e}
    /\ item' = IF item.status = "CONFLICT" THEN [item EXCEPT !.aside = @ \cup {e}]
               ELSE [item EXCEPT !.local = @ \cup {e}, !.pending = @ \cup {e}, !.queued = TRUE,
                                 !.status = IF @ = "SAVING" THEN @ ELSE "DIRTY"]
    /\ UNCHANGED <<serverVars, wire, lastEvent, cached, reading, replied, used, given, shownSaved, delivery>>

\* resolveConflict
KeepServer ==
    /\ item.status = "CONFLICT"
    /\ given' = given \cup item.aside
    /\ item' = [item EXCEPT !.status = "SAVED", !.aside = {}, !.pending = {}, !.queued = FALSE, !.local = item.server.work]
    /\ UNCHANGED <<serverVars, wire, lastEvent, cached, reading, replied, used, typed, shownSaved, delivery>>

Reapply ==
    /\ item.status = "CONFLICT"
    /\ item' = [item EXCEPT !.status = "DIRTY", !.aside = {}, !.pending = item.aside, !.queued = TRUE,
                            !.local = item.server.work \cup item.aside]
    /\ UNCHANGED <<serverVars, wire, lastEvent, cached, reading, replied, used, histories>>

\* Nobody waits any more for the answers of the requests under way.
Abandoned == {[r EXCEPT !.waited = FALSE] : r \in wire}

\* The page is left with unsaved work, past the warning, and opened again.
Reload ==
    /\ used.reads < MaxReads /\ Mishaps < MaxMishaps
    /\ given' = given \cup item.pending \cup item.aside \cup item.sending
    /\ cached' = stored
    /\ item' = Clean(stored)
    /\ used' = [used EXCEPT !.reads = @ + 1]
    /\ wire' = Abandoned
    /\ reading' = NoReading /\ replied' = FALSE
    /\ UNCHANGED <<serverVars, lastEvent, typed, shownSaved, delivery>>

-----------------------------------------------------------------------------
(* The contract *)

\* load: unsaved work is kept and only its server side renewed; a clean item is
\* replaced by the contract it is given.
LoadedFrom(c) == IF item.status \in Unsaved THEN [item EXCEPT !.server = c] ELSE Clean(c)

\* applyTurn puts the turn into a new contract whose materials are those of the
\* last reading; the page loads every new contract into the store.
ApplyTurn ==
    /\ replied /\ replied' = FALSE
    /\ item' = LoadedFrom(cached)
    /\ UNCHANGED <<serverVars, wire, lastEvent, cached, reading, used, histories>>

\* A reading after a replayed turn, an interruption or a finish: the row's
\* materials are read before their versions.
AskContract ==
    /\ reading = NoReading /\ used.reads < MaxReads /\ Mishaps < MaxMishaps
    /\ reading' = [NoReading EXCEPT !.at = "asked"]
    /\ used' = [used EXCEPT !.reads = @ + 1]
    /\ UNCHANGED <<serverVars, wire, item, lastEvent, cached, replied, histories>>
ReadMaterials ==
    /\ reading.at = "asked"
    /\ reading' = [at |-> "row", seen |-> [Untouched EXCEPT !.work = stored.work]]
    /\ UNCHANGED <<serverVars, wire, item, lastEvent, cached, replied, used, histories>>
ReadVersions ==
    /\ reading.at = "row"
    /\ reading' = [reading EXCEPT !.at = "read", !.seen.version = stored.version]
    /\ UNCHANGED <<serverVars, wire, item, lastEvent, cached, replied, used, histories>>
TakeContract ==
    /\ reading.at = "read"
    /\ cached' = reading.seen /\ item' = LoadedFrom(reading.seen) /\ reading' = NoReading
    /\ UNCHANGED <<serverVars, wire, lastEvent, replied, used, histories>>

-----------------------------------------------------------------------------
(* flush *)

\* Mutant: the id of the failed attempt is kept for whatever is sent next.
RetriesAny == item.event # 0

\* The id is kept for a retry of the same payload; another payload gets a new one.
Retries == item.event # 0 /\ item.sent = item.pending

Flush ==
    LET id == IF Retries THEN item.event ELSE lastEvent + 1 IN
    /\ item.status \in {"DIRTY", "ERROR"} /\ item.queued /\ id <= MaxEvents
    /\ item' = [item EXCEPT !.status = "SAVING", !.sending = item.pending, !.pending = {}, !.queued = FALSE,
                            !.event = id, !.sent = item.pending]
    /\ lastEvent' = IF Retries THEN lastEvent ELSE id
    /\ wire' = wire \cup {[event |-> id, match |-> item.server.version, edits |-> item.pending, at |-> "sent", waited |-> TRUE]}
    /\ UNCHANGED <<serverVars, cached, reading, replied, used, histories>>

Saved(answer) ==
    [item EXCEPT !.server = answer, !.status = IF item.queued THEN "DIRTY" ELSE "SAVED",
                 !.local = IF item.queued THEN @ ELSE answer.work, !.sending = {}, !.event = 0, !.sent = {}]

\* 409: the server's version is shown, the draft put aside.
Conflicted(now) ==
    [item EXCEPT !.status = "CONFLICT", !.aside = item.sending \cup item.pending, !.server = now,
                 !.local = now.work, !.pending = {}, !.queued = FALSE, !.sending = {}]

\* An error, an answer lost or never waited for: the changes are queued again.
GivesUp ==
    /\ item.status = "SAVING" /\ used.givenUp < MaxGivenUp /\ Mishaps < MaxMishaps
    /\ used' = [used EXCEPT !.givenUp = @ + 1]
    /\ item' = [item EXCEPT !.status = "ERROR", !.pending = @ \cup item.sending, !.queued = TRUE, !.sending = {}]
    /\ wire' = Abandoned
    /\ UNCHANGED <<serverVars, lastEvent, cached, reading, replied, histories>>

-----------------------------------------------------------------------------
(* saveArtifact, before the lock *)

\* A request is lost on its way, or breaks off before it has changed anything.
Lost(r) ==
    /\ r.at \in {"sent", "looked"}
    /\ wire' = wire \ {r}
    /\ UNCHANGED <<serverVars, pageVars, used, histories>>

\* The event's answer is stored: it was saved before.
Answered(r) == events[r.event] # Untouched

\* The page takes an answer it still waits for.
Answers(r, answer) ==
    /\ wire' = wire \ {r}
    /\ item' = IF r.waited THEN Saved(answer) ELSE item
    /\ shownSaved' = IF r.waited THEN shownSaved \cup r.edits ELSE shownSaved
    /\ UNCHANGED <<lastEvent, cached, reading, replied, used, typed, given, delivery>>

\* A stored event is answered with its response, before the lock and only there.
Replay(r) ==
    /\ r.at = "sent" /\ Answered(r)
    /\ Answers(r, events[r.event])
    /\ UNCHANGED serverVars

Reaches(r, to) == wire' = (wire \ {r}) \cup {[r EXCEPT !.at = to]}

Look(r) ==
    /\ r.at = "sent" /\ ~Answered(r)
    /\ Reaches(r, "looked")
    /\ doubled' = IF \E q \in wire : q.at # "sent" /\ q.event = r.event THEN doubled \cup {r.event} ELSE doubled
    /\ UNCHANGED <<serverVars, pageVars, used, typed, given, shownSaved, exposed, written, cut, refused>>

-----------------------------------------------------------------------------
(* Under the lock *)

Writing(r) == r.at \in {"stored", "versioned"}
Unlocked == \A r \in wire : ~Writing(r)

\* The version must be the one the edit was made on.
Matches(r) == r.at = "looked" /\ Unlocked /\ r.match = stored.version

\* The engine's copy in memory is edited in place, ahead of the row; a copy in Redis is not.
EditedInPlace(r) == base' \in {base, base \cup r.edits}

\* The engine's save: its copy with the edit becomes the row's materials.
WriteWork(r) ==
    /\ Matches(r)
    /\ stored' = [stored EXCEPT !.work = base \cup r.edits]
    /\ EditedInPlace(r) /\ Reaches(r, "stored")
    /\ UNCHANGED <<recorded, events, pageVars, used, histories>>

\* The copy takes the edit, and the version is appended.
AppendVersion(r) ==
    /\ r.at = "stored"
    /\ base' = stored.work
    /\ stored' = [stored EXCEPT !.version = @ + 1]
    /\ recorded' = recorded \cup stored.work
    /\ Reaches(r, "versioned") /\ written' = written \cup {r.event}
    /\ UNCHANGED <<events, pageVars, used, typed, given, shownSaved, exposed, cut, refused, doubled>>

\* putClientEvent keeps the first answer of an event; the request gets its own.
StoreEvent(r) ==
    /\ r.at = "versioned"
    /\ events' = [events EXCEPT ![r.event] = IF Answered(r) THEN @ ELSE stored]
    /\ Answers(r, stored)
    /\ UNCHANGED <<stored, base, recorded>>

Refuse(r) ==
    /\ r.at = "looked" /\ Unlocked /\ r.match # stored.version
    /\ wire' = wire \ {r}
    /\ item' = IF r.waited THEN Conflicted(stored) ELSE item
    /\ refused' = IF r.event \in written THEN refused \cup {r.event} ELSE refused
    /\ UNCHANGED <<serverVars, lastEvent, cached, reading, replied, used, typed, given, shownSaved, exposed, written, cut, doubled>>

\* A save breaks off between two writes: a write fails, or the process dies.
CutShort(r) ==
    /\ used.cuts < MaxCuts /\ Mishaps < MaxMishaps
    /\ Matches(r) \/ Writing(r)
    /\ EditedInPlace(r) /\ wire' = wire \ {r}
    /\ cut' = IF r.at = "versioned" THEN cut \cup {r.event} ELSE cut
    /\ used' = [used EXCEPT !.cuts = @ + 1]
    /\ UNCHANGED <<stored, recorded, events, pageVars, typed, given, shownSaved, exposed, written, refused, doubled>>

-----------------------------------------------------------------------------
(* The rest of the server *)

\* The copy is lost with the process or its time, and is read from the row again.
EngineForgets ==
    /\ base' = stored.work
    /\ UNCHANGED <<stored, recorded, events, wire, pageVars, used, histories>>

\* A message of this page or another tab: its turn replaces the engine's copy by
\* one that names no materials.  The reply may be lost.
Message ==
    /\ Unlocked /\ ~replied /\ used.turns < MaxTurns
    /\ base' = {}
    /\ exposed' = exposed \cup stored.work
    /\ replied' \in BOOLEAN
    /\ used' = [used EXCEPT !.turns = @ + 1]
    /\ UNCHANGED <<stored, recorded, events, wire, item, lastEvent, cached, reading, typed, given, shownSaved, written, cut, refused, doubled>>

\* Another tab of the session saves: one request at a time, on the latest version.
OtherTabSaves(o) ==
    /\ events[o] = Untouched /\ \A r \in wire : r.event # o
    /\ Mishaps < MaxMishaps
    /\ wire' = wire \cup {[event |-> o, match |-> stored.version, edits |-> {o}, at |-> "sent", waited |-> FALSE]}
    /\ UNCHANGED <<serverVars, pageVars, used, histories>>

MaterialNext ==
    \/ \E e \in Edits : Edit(e)
    \/ KeepServer \/ Reapply \/ Reload
    \/ ApplyTurn \/ AskContract \/ ReadMaterials \/ ReadVersions \/ TakeContract
    \/ Flush \/ GivesUp
    \/ \E r \in wire : Lost(r) \/ Replay(r) \/ Look(r) \/ WriteWork(r) \/ AppendVersion(r) \/ StoreEvent(r) \/ Refuse(r) \/ CutShort(r)
    \/ EngineForgets \/ Message
    \/ \E o \in OtherEdits : OtherTabSaves(o)

MaterialSpec == MaterialInit /\ [][MaterialNext]_materialVars

-----------------------------------------------------------------------------
(* Properties *)

\* Nothing the candidate typed is silently dropped: it is in a version the server
\* has kept, queued, on its way or put aside, unless the candidate discarded it
\* or left.  The latest version may lack it (see WorkSinceMessageIsStored).
NothingSilentlyDropped ==
    typed \subseteq recorded \cup item.pending \cup item.sending \cup item.aside \cup given

\* Work shown as saved is in a version the server has kept, whatever was lost on the way.
ShownSavedIsRecorded == shownSaved \subseteq recorded

\* Work shown as saved is in the session row, and the engine's next save builds
\* on it, unless a message was handled since it came there (assessment.js:1028).
WorkSinceMessageIsStored == shownSaved \ exposed \subseteq stored.work \cap base

\* A retry of a change whose version was appended is recognised: it is not
\* answered with a conflict, unless both deliveries were looked up before either
\* was answered (sessionService.js:220), or the first broke off between its
\* version and its event (sessionService.js:243-245).
RetryIsRecognised == refused \subseteq doubled \cup cut

\* The candidate's work survives losses, retries, conflicts and broken saves.
MaterialSound == NothingSilentlyDropped /\ ShownSavedIsRecorded /\ WorkSinceMessageIsStored /\ RetryIsRecognised

\* A material the page shows as saved shows every edit it has shown as saved.
SavedStaysOnScreen == item.status = "SAVED" => shownSaved \subseteq item.local
==============================================================================
