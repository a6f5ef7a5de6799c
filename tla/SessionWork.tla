---------------------------- MODULE SessionWork ----------------------------
(***************************************************************************)
(* The work a candidate does in one started session: messages, edits of the *)
(* work artifacts and the finish, from the V3 session service               *)
(* (server/domain/assessments/sessionService.js) through the in-process     *)
(* invoker (engine.js) to the engine's handlers (server/routes/assessment.js)*)
(* and their three stores: the session cache, the session row and the       *)
(* report.  The service holds its per-session lock around messages and saves;*)
(* the engine holds none, and finish takes none.                            *)
(*                                                                         *)
(* A turn and an edit are named by their client event.  An edit is a patch  *)
(* of its own field, so an artifact's content is the set of edits in it; an *)
(* artifact list that is missing means the scenario's originals, no edits.  *)
(* One engine load (cache, then row, then cache refill) is one step, every  *)
(* write is its own, and updateSession is the read and the write it is.     *)
(* The lock is granted in any order, the promise chain grants it in turn.   *)
(***************************************************************************)
EXTENDS Naturals, Sequences, FiniteSets

CONSTANTS
    Calls,           \* requests
    Texts, Edits,    \* client event ids of messages and of artifact saves
    Artifacts,
    ArtifactOf,      \* [Edits -> Artifacts]
    Scenarios,       \* what the candidate sends and the faults it meets, chosen at the start
    MaxCrashes,      \* bound on process restarts
    NoEvent, NoReport, NoCall

\* "crash": the process restarts; "store": a write after the engine's first
\* fails; "timeout": an engine handler outlives its 120 s invoker.
FaultKinds == {"crash", "store", "timeout"}

ASSUME WorkAssumption ==
    /\ ArtifactOf \in [Edits -> Artifacts]
    /\ MaxCrashes \in Nat
    /\ \A s \in Scenarios : s.faults \subseteq FaultKinds /\ s.events \subseteq Texts \cup Edits
    /\ Texts \cap Edits = {} /\ NoEvent \notin Texts \cup Edits
    /\ NoReport \notin Seq(Texts) /\ NoCall \notin Calls

VARIABLES
    cache,       \* sessionCache entry: history and artifacts, while it is live
    row,         \* v1_sessions row: history (until freed), artifacts, completed_at
    report,      \* v1_reports row: the history it scores
    stored,      \* assessment_client_events
    versions,    \* assessment_artifact_versions, per artifact
    holder,      \* the service's per-session lock
    registry,    \* evaluationJobs entry: the call whose job it is
    call,
    crashes,
    scenario     \* the scenario of this behaviour

vars == <<cache, row, report, stored, versions, holder, registry, call, crashes, scenario>>

Messaging == {"msg.load", "msg.cache", "msg.row", "msg.write"}
Saving == {"save.load", "save.row", "save.write", "save.cache"}
Scoring == {"eval.job", "eval.mark", "eval.forget"}
Locked == {"msg.check", "msg.answer", "save.check", "save.version", "save.answer"} \cup Messaging \cup Saving
Ended == {"done", "failed"}
Steps == {"idle", "msg.lock", "save.lock", "eval.lookup", "eval.load"} \cup Locked \cup Scoring \cup Ended

Rows == [hist: Seq(Texts), art: SUBSET Edits, freed: BOOLEAN, complete: BOOLEAN]
Versions == [edit: Edits, content: SUBSET Edits]
Requests == [pc: Steps, event: Texts \cup Edits \cup {NoEvent}, match: Nat, hist: Seq(Texts), art: SUBSET Edits,
             row: Rows, seen: SUBSET Texts, late: BOOLEAN]

\* A request that has not begun.
Blank == [pc |-> "idle", event |-> NoEvent, match |-> 0, hist |-> <<>>, art |-> {},
          row |-> [hist |-> <<>>, art |-> {}, freed |-> FALSE, complete |-> FALSE], seen |-> {}, late |-> FALSE]

\* Types, and that whoever holds the lock is a request between lock and answer.
TypeOK ==
    /\ cache \in [live: BOOLEAN, hist: Seq(Texts), art: SUBSET Edits]
    /\ row \in Rows
    /\ report = NoReport \/ report \in Seq(Texts)
    /\ stored \subseteq Texts \cup Edits
    /\ versions \in [Artifacts -> Seq(Versions)]
    /\ holder \in Calls \cup {NoCall} /\ registry \in Calls \cup {NoCall}
    /\ call \in [Calls -> Requests]
    /\ holder # NoCall => call[holder].pc \in Locked /\ ~call[holder].late
    /\ crashes \in 0..MaxCrashes /\ scenario \in Scenarios

\* A session as /start leaves it.
Init ==
    /\ cache = [live |-> TRUE, hist |-> <<>>, art |-> {}]
    /\ row = [hist |-> <<>>, art |-> {}, freed |-> FALSE, complete |-> FALSE]
    /\ report = NoReport
    /\ stored = {}
    /\ versions = [a \in Artifacts |-> <<>>]
    /\ holder = NoCall /\ registry = NoCall
    /\ call = [c \in Calls |-> Blank]
    /\ crashes = 0 /\ scenario \in Scenarios

-----------------------------------------------------------------------------
Turns(h) == {h[i] : i \in 1..Len(h)}

InEngine(c) == call[c].pc \in Messaging \cup Saving

Goto(c, pc) == call' = [call EXCEPT ![c].pc = pc]

\* The call ends, and with it its hold on the lock.
Leave(c, pc) ==
    /\ Goto(c, pc)
    /\ holder' = IF holder = c THEN NoCall ELSE holder

Stores == <<cache, row, report, stored, versions, registry, crashes, scenario>>

\* loadSession: the cache, else the row if it still has a history (and the cache is refilled).
Loadable == cache.live \/ ~row.freed
Loaded == IF cache.live THEN cache ELSE [live |-> TRUE, hist |-> row.hist, art |-> row.art]

\* The first half of updateSession.
ReadRow(c, next) ==
    /\ call' = [call EXCEPT ![c].pc = next, ![c].row = row]
    /\ UNCHANGED <<holder, Stores>>

-----------------------------------------------------------------------------
(* sendMessage *)

MsgAsk(c, e) ==
    /\ call[c].pc = "idle"
    /\ call' = [call EXCEPT ![c].pc = IF e \in stored THEN "done" ELSE "msg.lock", ![c].event = e]
    /\ UNCHANGED <<holder, Stores>>

Lock(c) ==
    /\ holder = NoCall
    /\ \/ call[c].pc = "msg.lock" /\ Goto(c, "msg.check")
       \/ call[c].pc = "save.lock" /\ Goto(c, "save.check")
    /\ holder' = c
    /\ UNCHANGED Stores

\* Mutant: the replay is looked for before the lock only.
MsgCheckOnce(c) ==
    /\ call[c].pc = "msg.check"
    /\ \/ report # NoReport /\ Leave(c, "failed")
       \/ report = NoReport /\ Goto(c, "msg.load") /\ UNCHANGED holder
    /\ UNCHANGED Stores

MsgCheck(c) ==
    /\ call[c].pc = "msg.check"
    /\ \/ call[c].event \in stored /\ Leave(c, "done")
       \/ call[c].event \notin stored /\ report # NoReport /\ Leave(c, "failed")
       \/ call[c].event \notin stored /\ report = NoReport /\ Goto(c, "msg.load") /\ UNCHANGED holder
    /\ UNCHANGED Stores

\* The engine's handler: load, then the models are asked.
MsgLoad(c) ==
    /\ call[c].pc = "msg.load"
    /\ Loadable
    /\ cache' = Loaded
    /\ call' = [call EXCEPT ![c].pc = "msg.cache", ![c].hist = Append(Loaded.hist, call[c].event)]
    /\ UNCHANGED <<row, report, stored, versions, holder, registry, crashes, scenario>>

\* Mutant: the turn is persisted, the cache keeps the old history.
MsgCacheKept(c) ==
    /\ call[c].pc = "msg.cache"
    /\ Goto(c, "msg.row")
    /\ UNCHANGED <<holder, Stores>>

\* Mutant: the answer does not wait for the row.
MsgCacheAnswers(c) ==
    /\ call[c].pc = "msg.cache"
    /\ cache' = [live |-> TRUE, hist |-> call[c].hist, art |-> {}]
    /\ Goto(c, IF call[c].late THEN "done" ELSE "msg.answer")
    /\ UNCHANGED <<row, report, stored, versions, holder, registry, crashes, scenario>>

\* The cache entry is replaced by one that names no artifacts.
MsgCache(c) ==
    /\ call[c].pc = "msg.cache"
    /\ cache' = [live |-> TRUE, hist |-> call[c].hist, art |-> {}]
    /\ Goto(c, "msg.row")
    /\ UNCHANGED <<row, report, stored, versions, holder, registry, crashes, scenario>>

MsgRow(c) == call[c].pc = "msg.row" /\ ReadRow(c, "msg.write")

MsgWrite(c) ==
    /\ call[c].pc = "msg.write"
    /\ row' = [call[c].row EXCEPT !.hist = call[c].hist, !.freed = FALSE]
    /\ Goto(c, IF call[c].late THEN "done" ELSE "msg.answer")
    /\ UNCHANGED <<cache, report, stored, versions, holder, registry, crashes, scenario>>

\* putClientEvent, and the reply.
MsgAnswer(c) ==
    /\ call[c].pc = "msg.answer"
    /\ stored' = stored \cup {call[c].event}
    /\ Leave(c, "done")
    /\ UNCHANGED <<cache, row, report, versions, registry, crashes, scenario>>

-----------------------------------------------------------------------------
(* saveArtifact *)

\* The candidate's page names the version it was built on.
SaveAsk(c, e, v) ==
    /\ call[c].pc = "idle"
    /\ v <= Len(versions[ArtifactOf[e]])
    /\ call' = [call EXCEPT ![c].pc = IF e \in stored THEN "done" ELSE "save.lock", ![c].event = e, ![c].match = v]
    /\ UNCHANGED <<holder, Stores>>

\* The report and the version, but not the replay again.
SaveCheck(c) ==
    /\ call[c].pc = "save.check"
    /\ LET fits == report = NoReport /\ call[c].match = Len(versions[ArtifactOf[call[c].event]]) IN
         \/ fits /\ Goto(c, "save.load") /\ UNCHANGED holder
         \/ ~fits /\ Leave(c, "failed")
    /\ UNCHANGED Stores

SaveLoad(c) ==
    /\ call[c].pc = "save.load"
    /\ Loadable
    /\ cache' = Loaded
    /\ call' = [call EXCEPT ![c].pc = "save.row", ![c].hist = Loaded.hist, ![c].art = Loaded.art \cup {call[c].event}]
    /\ UNCHANGED <<row, report, stored, versions, holder, registry, crashes, scenario>>

SaveRow(c) == call[c].pc = "save.row" /\ ReadRow(c, "save.write")

\* Mutant: only the edited artifact is written back.
SaveWriteOnlyOwn(c) ==
    /\ call[c].pc = "save.write"
    /\ row' = [call[c].row EXCEPT !.art = {e \in call[c].art : ArtifactOf[e] = ArtifactOf[call[c].event]}]
    /\ Goto(c, "save.cache")
    /\ UNCHANGED <<cache, report, stored, versions, holder, registry, crashes, scenario>>

SaveWrite(c) ==
    /\ call[c].pc = "save.write"
    /\ row' = [call[c].row EXCEPT !.art = call[c].art]
    /\ Goto(c, "save.cache")
    /\ UNCHANGED <<cache, report, stored, versions, holder, registry, crashes, scenario>>

SaveCache(c) ==
    /\ call[c].pc = "save.cache"
    /\ cache' = [live |-> TRUE, hist |-> call[c].hist, art |-> call[c].art]
    /\ Goto(c, IF call[c].late THEN "done" ELSE "save.version")
    /\ UNCHANGED <<row, report, stored, versions, holder, registry, crashes, scenario>>

\* Mutant: a version that cannot be appended is let go.
SaveVersionBestEffort(c) ==
    /\ call[c].pc = "save.version"
    /\ Goto(c, "save.answer")
    /\ UNCHANGED <<holder, Stores>>

\* appendArtifactVersion.  Its unique key cannot refuse here: versions are
\* appended under the lock by the call that compared them.
SaveVersion(c) ==
    LET e == call[c].event
        a == ArtifactOf[e] IN
    /\ call[c].pc = "save.version"
    /\ Len(versions[a]) = call[c].match
    /\ versions' = [versions EXCEPT ![a] =
                      Append(@, [edit |-> e, content |-> {x \in call[c].art : ArtifactOf[x] = a}])]
    /\ Goto(c, "save.answer")
    /\ UNCHANGED <<cache, row, report, stored, holder, registry, crashes, scenario>>

SaveAnswer(c) ==
    /\ call[c].pc = "save.answer"
    /\ stored' = stored \cup {call[c].event}
    /\ Leave(c, "done")
    /\ UNCHANGED <<cache, row, report, versions, registry, crashes, scenario>>

-----------------------------------------------------------------------------
(* finish, and the scoring job of the engine's /evaluate *)

EvalAsk(c) ==
    /\ call[c].pc = "idle"
    /\ call' = [call EXCEPT ![c].pc = IF report = NoReport THEN "eval.lookup" ELSE "done",
                            ![c].seen = stored \cap Texts]
    /\ UNCHANGED <<holder, Stores>>

\* A job that is running is joined.
EvalLookup(c) ==
    /\ call[c].pc = "eval.lookup"
    /\ Goto(c, IF registry = NoCall THEN "eval.load" ELSE "done")
    /\ UNCHANGED <<holder, Stores>>

\* The session is loaded, and only then is the job registered.
EvalLoad(c) ==
    /\ call[c].pc = "eval.load"
    /\ Loadable
    /\ cache' = Loaded
    /\ call' = [call EXCEPT ![c].pc = "eval.job", ![c].hist = Loaded.hist]
    /\ registry' = c
    /\ UNCHANGED <<row, report, stored, versions, holder, crashes, scenario>>

\* saveReport: the report row is an upsert ...
JobReports(c) ==
    /\ call[c].pc = "eval.job"
    /\ report' = call[c].hist
    /\ Goto(c, "eval.mark")
    /\ UNCHANGED <<cache, row, stored, versions, holder, registry, crashes, scenario>>

\* ... then the session is marked complete and its transcript freed.
JobMarks(c) ==
    /\ call[c].pc = "eval.mark"
    /\ row' = [row EXCEPT !.hist = <<>>, !.freed = TRUE, !.complete = TRUE]
    /\ Goto(c, "eval.forget")
    /\ UNCHANGED <<cache, report, stored, versions, holder, registry, crashes, scenario>>

\* The live cache is freed; the registry entry goes when the job resolves.
JobForgets(c) ==
    /\ call[c].pc = "eval.forget"
    /\ cache' = [live |-> FALSE, hist |-> <<>>, art |-> {}]
    /\ registry' = NoCall
    /\ Goto(c, "done")
    /\ UNCHANGED <<row, report, stored, versions, holder, crashes, scenario>>

-----------------------------------------------------------------------------
(* What goes wrong *)

\* Before its first write a request may be refused or the models may fail;
\* after it only a store failure ends it.  Nothing that was written is undone.
MayFail(c) ==
    \/ call[c].pc \in {"msg.check", "msg.load", "msg.cache", "save.check", "save.load", "save.row", "eval.lookup", "eval.load"}
    \/ "store" \in scenario.faults /\ call[c].pc \in {"msg.row", "msg.write", "msg.answer", "save.write", "save.cache", "save.version", "save.answer"}

\* Mutant: an error path that keeps the lock.
FailsLocked(c) ==
    /\ MayFail(c)
    /\ Goto(c, "failed")
    /\ UNCHANGED <<holder, Stores>>

Fails(c) ==
    /\ MayFail(c)
    /\ Leave(c, "failed")
    /\ UNCHANGED Stores

\* A scoring job fails, in the models or between saveReport's two queries, and
\* leaves the registry.
JobFails(c) ==
    /\ call[c].pc = "eval.job" \/ ("store" \in scenario.faults /\ call[c].pc = "eval.mark")
    /\ registry' = NoCall
    /\ Goto(c, "failed")
    /\ UNCHANGED <<cache, row, report, stored, versions, holder, crashes, scenario>>

\* The invoker gives up: the service's call fails and unlocks, the handler goes on.
EngineTimesOut(c) ==
    /\ "timeout" \in scenario.faults
    /\ InEngine(c) /\ ~call[c].late
    /\ call' = [call EXCEPT ![c].late = TRUE]
    /\ holder' = IF holder = c THEN NoCall ELSE holder
    /\ UNCHANGED Stores

\* The process restarts: cache, lock, registry and every request are gone.
Crash ==
    /\ "crash" \in scenario.faults /\ crashes < MaxCrashes
    /\ crashes' = crashes + 1
    /\ cache' = [live |-> FALSE, hist |-> <<>>, art |-> {}]
    /\ holder' = NoCall /\ registry' = NoCall
    /\ call' = [c \in Calls |-> IF call[c].pc \in {"idle"} \cup Ended THEN call[c] ELSE [Blank EXCEPT !.pc = "failed"]]
    /\ UNCHANGED <<row, report, stored, versions, scenario>>

-----------------------------------------------------------------------------
Message(c) == MsgCheck(c) \/ MsgLoad(c) \/ MsgCache(c) \/ MsgRow(c) \/ MsgWrite(c) \/ MsgAnswer(c)
Save(c) == SaveCheck(c) \/ SaveLoad(c) \/ SaveRow(c) \/ SaveWrite(c) \/ SaveCache(c) \/ SaveVersion(c) \/ SaveAnswer(c)
Evaluate(c) == EvalLookup(c) \/ EvalLoad(c) \/ JobReports(c) \/ JobMarks(c) \/ JobForgets(c)

\* A request that was accepted goes on, one way or another.
Proceeds(c) == Lock(c) \/ Message(c) \/ Save(c) \/ Evaluate(c) \/ Fails(c) \/ JobFails(c)

Asks(c) ==
    \/ \E e \in scenario.events \cap Texts : MsgAsk(c, e)
    \/ \E e \in scenario.events \cap Edits : \E v \in 0..Len(versions[ArtifactOf[e]]) : SaveAsk(c, e, v)
    \/ EvalAsk(c)

Next == (\E c \in Calls : Asks(c) \/ Proceeds(c) \/ EngineTimesOut(c)) \/ Crash

Spec == Init /\ [][Next]_vars

\* Node runs every continuation that is ready, and the engine answers, fails
\* or is given up on: a request never stays where it is for ever.
FairSpec == Spec /\ \A c \in Calls : WF_vars(Proceeds(c))

-----------------------------------------------------------------------------
(* Properties *)

\* One client event is one engine turn, however often it is sent ("a
\* duplicate never produces a second engine turn", campusSessions.test.js),
\* as long as no call is cut off between its turn and its stored event.
TurnOncePerEvent ==
    \/ scenario.faults # {}
    \/ \A e \in Texts, h \in {row.hist, cache.hist} : Cardinality({i \in 1..Len(h) : h[i] = e}) <= 1

\* A turn the candidate was answered is in the persisted history until the
\* session is scored ("persist every exchange so a disconnect can't lose progress"), crashes and
\* failing stores included; a handler that outlives its invoker can undo turns.
AnsweredTurnsKept ==
    "timeout" \in scenario.faults \/ report # NoReport \/ stored \cap Texts \subseteq Turns(row.hist)

\* When no request is in flight, the turns the next message builds on are the
\* ones a restart would reload, until the session is scored and unless a store
\* failed or a handler was late.
CacheAgreesWithRow ==
    (scenario.faults = {} /\ report = NoReport /\ cache.live /\ \A c \in Calls : call[c].pc \in {"idle"} \cup Ended) => cache.hist = row.hist

\* A scoring job scores every turn that was answered before it was asked for.
ScoresWhatWasAnswered ==
    \/ "timeout" \in scenario.faults
    \/ \A c \in Calls : call[c].pc \in Scoring => call[c].seen \subseteq Turns(call[c].hist)

\* An edit that was acknowledged stays in the session's artifacts, whatever is
\* edited or said after it ("Autosave responses and artifact mutations").
EditsKept == stored \cap Edits \subseteq row.art

\* An acknowledged edit has a version row of its own that contains it.
AnsweredEditHasVersion ==
    \A e \in stored \cap Edits : \E n \in 1..Len(versions[ArtifactOf[e]]) :
        versions[ArtifactOf[e]][n].edit = e /\ e \in versions[ArtifactOf[e]][n].content

\* An acknowledged edit is neither lost from the session nor from its history.
AnsweredEditsKept == EditsKept /\ AnsweredEditHasVersion

\* A session is scored once: a report that exists is never written again.
ReportIsFinal == [][report # NoReport => report' = report]_vars

\* Every request that was queued is answered, whatever fails ahead of it.
QueuedCallEnds == \A c \in Calls : call[c].pc \in {"msg.lock", "save.lock"} ~> call[c].pc \in Ended

=============================================================================
