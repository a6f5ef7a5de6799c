-------------------------- MODULE SponsoredSession --------------------------
(***************************************************************************)
(* A sponsored assessment from acknowledgement to settled seat: the V3      *)
(* session service (server/domain/assessments/sessionService.js), the       *)
(* acknowledgement of assignmentService.js, the closing sweep of            *)
(* campusAdmin/service.js and the parts of the engine router they call,     *)
(* over the entitlements repository of LedgerStore.  One assignment, its    *)
(* roster, and requests that interleave at every await.                     *)
(*                                                                         *)
(* Reads that follow one another with no write between them are taken as    *)
(* one step where nothing but a refusal depends on their order; the gap     *)
(* between reading a pool and appending to it stays (EntitlementLedger has  *)
(* the finer steps).  Locks are granted in any order, the code's promise    *)
(* chain grants them first come first served.                               *)
(***************************************************************************)
EXTENDS LedgerStore

CONSTANTS
    Assignment,      \* the one assignment
    Calls,           \* requests: start, acknowledge, and get/finish that settle
    SessionOf,       \* [Calls -> Sessions], the randomUUID of a start
    BilledOnStart,   \* pools whose billableEvent is ASSESSMENT_STARTED
    EngineTimeouts,  \* whether an engine handler may outlive its 120 s invoker
    MaxTurns,        \* bound on the engine turns of a session
    NoUser, NoCall

ASSUME SessionAssumption ==
    /\ Items = {Assignment}
    /\ SessionOf \in [Calls -> Sessions]
    /\ \A c, d \in Calls : SessionOf[c] = SessionOf[d] => c = d
    /\ BilledOnStart \subseteq Pools
    /\ EngineTimeouts \in BOOLEAN
    /\ MaxTurns \in Nat
    /\ NoUser \notin Users /\ NoCall \notin Calls

VARIABLES
    assignment,   \* campus_assignments.status
    roster,       \* assignment_students: status, session_id, acknowledged
    startEvent,   \* [Sessions -> entitlementId of the recorded START event], NoPool: none
    engine,       \* what the engine's store holds of a session
    turns,        \* exchanges the engine has recorded for it
    orphan,       \* sessions whose engine /start outlived its caller
    holder,       \* the per-session lock
    call,
    closer        \* the administrator's closeAssignment

tables == <<assignment, roster, startEvent, engine, turns>>
vars == <<rows, held, poolStatus, assignment, roster, startEvent, engine, turns, orphan, holder, call, closer>>

Statuses == {"ASSIGNED", "ACKNOWLEDGED", "IN_PROGRESS", "COMPLETED"}
RosterRows == [status: Statuses, session: Sessions \cup {NoSession}, acked: BOOLEAN]

Phases == {"idle", "acking", "append", "lock", "locked", "starting", "finalize", "record", "enrol",
           "consume", "complete", "done", "failed"}
CallRecords == [pc: Phases, user: Users \cup {NoUser}, pool: Pools \cup {NoPool},
                session: Sessions \cup {NoSession}, was: Statuses]

InLock == {"locked", "starting", "finalize", "record", "enrol"}

TypeOK ==
    /\ StoreTypeOK
    /\ assignment \in {"ACTIVE", "CLOSED", "CANCELLED"}
    /\ roster \in [Users -> RosterRows]
    /\ startEvent \in [Sessions -> Pools \cup {NoPool}]
    /\ engine \in [Sessions -> {"none", "live", "reported"}]
    /\ turns \in [Sessions -> 0..MaxTurns]
    /\ orphan \subseteq Sessions
    /\ holder \in [Sessions -> Calls \cup {NoCall}]
    /\ call \in [Calls -> CallRecords]
    /\ closer \in [pc: {"idle", "list", "release", "swept"}, todo: SUBSET (Users \X Sessions)]

Idle == [pc |-> "idle", user |-> NoUser, pool |-> NoPool, session |-> NoSession, was |-> "ASSIGNED"]

\* createAssignment rosters a student ASSIGNED; some have acknowledged since.
Rostered == {[status |-> "ASSIGNED", session |-> NoSession, acked |-> FALSE],
             [status |-> "ACKNOWLEDGED", session |-> NoSession, acked |-> TRUE]}

Init ==
    /\ StoreInit([p \in Pools |-> "ACTIVE"])
    /\ assignment = "ACTIVE"
    /\ roster \in [Users -> Rostered]
    /\ startEvent = [s \in Sessions |-> NoPool]
    /\ engine = [s \in Sessions |-> "none"]
    /\ turns = [s \in Sessions |-> 0]
    /\ orphan = {}
    /\ holder = [s \in Sessions |-> NoCall]
    /\ call = [c \in Calls |-> Idle]
    /\ closer = [pc |-> "idle", todo |-> {}]

-----------------------------------------------------------------------------
Goto(c, pc) == call' = [call EXCEPT ![c].pc = pc]

Free(c) == [s \in Sessions |-> IF holder[s] = c THEN NoCall ELSE holder[s]]

\* The call ends; the `finally` of withLock passes the lock on.
Leave(c, pc) == Goto(c, pc) /\ holder' = Free(c)

Usable(p) == poolStatus[p] = "ACTIVE" /\ Remaining(p)

\* The card a student sees: closed is EXPIRED, cancelled is not listed, and a
\* session with a report counts as COMPLETED before its roster row says so.
HasReport(u) == roster[u].session # NoSession /\ engine[roster[u].session] = "reported"
CardOpen(u) == assignment = "ACTIVE" /\ roster[u].status # "COMPLETED" /\ ~HasReport(u)

-----------------------------------------------------------------------------
(* acknowledge: the roster row is patched from a status read before two more awaits *)

AcknowledgeRead(c, u) ==
    /\ call[c].pc = "idle"
    /\ CardOpen(u) /\ ~roster[u].acked
    /\ call' = [call EXCEPT ![c] = [Idle EXCEPT !.pc = "acking", !.user = u, !.was = roster[u].status]]
    /\ UNCHANGED <<storeVars, tables, orphan, holder, closer>>

AcknowledgeWrite(c) ==
    /\ call[c].pc = "acking"
    /\ LET u == call[c].user IN
         roster' = [roster EXCEPT ![u].acked = TRUE,
                                  ![u].status = IF call[c].was = "ASSIGNED" THEN "ACKNOWLEDGED" ELSE @]
    /\ Goto(c, "done")
    /\ UNCHANGED <<storeVars, assignment, startEvent, engine, turns, orphan, holder, closer>>

-----------------------------------------------------------------------------
(* start *)

\* resolveItem and the roster's own session id: resumed without a reservation.
StartResumed(c, u) ==
    /\ call[c].pc = "idle"
    /\ CardOpen(u)
    /\ roster[u].session # NoSession
    /\ call' = [call EXCEPT ![c] = [Idle EXCEPT !.pc = "done", !.user = u, !.session = roster[u].session]]
    /\ UNCHANGED <<storeVars, tables, orphan, holder, closer>>

\* The reads of reserve: a row under the assignment's key is replayed, closed
\* or not; otherwise a usable pool is picked, to be appended to later.
StartReads(c, u) ==
    /\ call[c].pc = "idle"
    /\ CardOpen(u) /\ roster[u].acked /\ roster[u].session = NoSession
    /\ LET found == Keyed(ReserveKey(u, Assignment))
           begun(pc, p, s) == call' = [call EXCEPT ![c] = [Idle EXCEPT !.pc = pc, !.user = u, !.pool = p, !.session = s]] IN
         \/ \E r \in found : begun("lock", r.pool, r.session)
         \/ found = {} /\ \E p \in Pools : Usable(p) /\ begun("append", p, NoSession)
    /\ UNCHANGED <<storeVars, tables, orphan, holder, closer>>

\* Mutant: a replay answers with the caller's own session id.
StartAppendOwnSession(c) ==
    /\ call[c].pc = "append"
    /\ call' = [call EXCEPT ![c].pc = "lock", ![c].session = SessionOf[c]]
    /\ \/ AppendReserved(call[c].pool, call[c].user, SessionOf[c], ReserveKey(call[c].user, Assignment))
       \/ Keyed(ReserveKey(call[c].user, Assignment)) # {} /\ UNCHANGED storeVars
    /\ UNCHANGED <<tables, orphan, holder, closer>>

StartAppend(c) ==
    LET k == ReserveKey(call[c].user, Assignment)
        p == call[c].pool
        seated(q, s) == call' = [call EXCEPT ![c].pc = "lock", ![c].pool = q, ![c].session = s] IN
    /\ call[c].pc = "append"
    /\ \/ (\E r \in Keyed(k) : seated(r.pool, r.session)) /\ UNCHANGED storeVars
       \/ Keyed(k) = {} /\ ~Remaining(p) /\ Goto(c, "failed") /\ UNCHANGED storeVars
       \/ AppendReserved(p, call[c].user, SessionOf[c], k) /\ seated(p, SessionOf[c])
    /\ UNCHANGED <<tables, orphan, holder, closer>>

\* The engine's entitlement record and the scope row are insert-if-absent; then the queue.
StartLock(c) ==
    /\ call[c].pc = "lock"
    /\ holder[call[c].session] = NoCall
    /\ holder' = [holder EXCEPT ![call[c].session] = c]
    /\ Goto(c, "locked")
    /\ UNCHANGED <<storeVars, tables, orphan, closer>>

\* Mutant: the engine is not asked whether it has the session.
StartLockedByEvent(c) ==
    LET s == call[c].session IN
    /\ call[c].pc = "locked"
    /\ \/ startEvent[s] # NoPool /\ Leave(c, "done")
       \/ startEvent[s] = NoPool /\ Goto(c, "starting") /\ UNCHANGED holder
    /\ UNCHANGED <<storeVars, tables, orphan, closer>>

\* A recorded start of a session the engine has is resumed; a session it has
\* whose start was never recorded skips the engine; otherwise the engine runs.
StartLocked(c) ==
    LET s == call[c].session IN
    /\ call[c].pc = "locked"
    /\ \/ startEvent[s] # NoPool /\ engine[s] # "none" /\ Leave(c, "done")
       \/ startEvent[s] = NoPool /\ engine[s] # "none" /\ Goto(c, "finalize") /\ UNCHANGED holder
       \/ engine[s] = "none" /\ Goto(c, "starting") /\ UNCHANGED holder
    /\ UNCHANGED <<storeVars, tables, orphan, closer>>

\* createSession of the engine's /start, an upsert: whatever is there is replaced.
EngineCreates(s) ==
    /\ engine' = [engine EXCEPT ![s] = IF @ = "none" THEN "live" ELSE @]
    /\ turns' = [turns EXCEPT ![s] = 0]

StartEngine(c) ==
    /\ call[c].pc = "starting"
    /\ EngineCreates(call[c].session)
    /\ Goto(c, "finalize")
    /\ UNCHANGED <<storeVars, assignment, roster, startEvent, orphan, holder, closer>>

\* The invoker gives up after 120 s; the handler it started does not.
StartEngineTimesOut(c) ==
    /\ EngineTimeouts
    /\ call[c].pc = "starting"
    /\ orphan' = orphan \cup {call[c].session}
    /\ Leave(c, "failed")
    /\ UNCHANGED <<storeVars, tables, closer>>

LateEngineStart(s) ==
    /\ s \in orphan
    /\ orphan' = orphan \ {s}
    /\ EngineCreates(s)
    /\ UNCHANGED <<storeVars, assignment, roster, startEvent, holder, call, closer>>

\* Mutant: whatever the ledger answers is swallowed.
StartFinalizeBestEffort(c) ==
    /\ call[c].pc = "finalize"
    /\ \/ call[c].pool \in BilledOnStart /\ AppendConsumed(call[c].pool, call[c].user, call[c].session)
       \/ UNCHANGED storeVars
    /\ Goto(c, "record")
    /\ UNCHANGED <<tables, orphan, holder, closer>>

\* finalizeOn('ASSESSMENT_STARTED'): CONFLICT and the replay of a closed seat change nothing.
StartFinalize(c) ==
    LET p == call[c].pool
        u == call[c].user
        s == call[c].session IN
    /\ call[c].pc = "finalize"
    /\ \/ p \in BilledOnStart /\ AppendConsumed(p, u, s)
       \/ (p \notin BilledOnStart \/ ~MayClose(p, u, s)) /\ UNCHANGED storeVars
    /\ Goto(c, "record")
    /\ UNCHANGED <<tables, orphan, holder, closer>>

\* putClientEvent: the first START event of the session wins.
StartRecord(c) ==
    /\ call[c].pc = "record"
    /\ startEvent' = [startEvent EXCEPT ![call[c].session] = IF @ = NoPool THEN call[c].pool ELSE @]
    /\ Goto(c, "enrol")
    /\ UNCHANGED <<storeVars, assignment, roster, engine, turns, orphan, holder, closer>>

StartEnrol(c) ==
    /\ call[c].pc = "enrol"
    /\ roster' = [roster EXCEPT ![call[c].user].status = "IN_PROGRESS", ![call[c].user].session = call[c].session]
    /\ Leave(c, "done")
    /\ UNCHANGED <<storeVars, assignment, startEvent, engine, turns, orphan, closer>>

\* Mutant: an error path that forgets the lock.
FailsHoldingLock(c) ==
    /\ call[c].pc \in Phases \ {"idle", "done", "failed"}
    /\ Goto(c, "failed")
    /\ UNCHANGED <<storeVars, tables, orphan, holder, closer>>

\* Any store or engine call in the chain may throw: nothing is undone.
Fails(c) ==
    /\ call[c].pc \in Phases \ {"idle", "done", "failed"}
    /\ Leave(c, "failed")
    /\ UNCHANGED <<storeVars, tables, orphan, closer>>

-----------------------------------------------------------------------------
(* the engine, as its own routes drive it *)

Turn(s) ==
    /\ engine[s] = "live" /\ turns[s] < MaxTurns
    /\ turns' = [turns EXCEPT ![s] = @ + 1]
    /\ UNCHANGED <<storeVars, assignment, roster, startEvent, engine, orphan, holder, call, closer>>

\* runEvaluation saves the report, in the background of a 202 answer.
Report(s) ==
    /\ engine[s] = "live"
    /\ engine' = [engine EXCEPT ![s] = "reported"]
    /\ UNCHANGED <<storeVars, assignment, roster, startEvent, turns, orphan, holder, call, closer>>

-----------------------------------------------------------------------------
(* get / finish: settle once a report exists.  Not under the lock. *)

SettleRead(c, u, s) ==
    /\ call[c].pc = "idle"
    /\ engine[s] = "reported"
    /\ \E r \in Keyed(ReserveKey(u, Assignment)) : r.session = s   \* authorize: the caller's own session
    /\ startEvent[s] # NoPool
    /\ call' = [call EXCEPT ![c] = [Idle EXCEPT !.pc = "consume", !.user = u, !.pool = startEvent[s], !.session = s]]
    /\ UNCHANGED <<storeVars, tables, orphan, holder, closer>>

\* Mutant: whatever the ledger answers is swallowed.
SettleConsumeBestEffort(c) ==
    /\ call[c].pc = "consume"
    /\ AppendConsumed(call[c].pool, call[c].user, call[c].session) \/ UNCHANGED storeVars
    /\ Goto(c, "complete")
    /\ UNCHANGED <<tables, orphan, holder, closer>>

SettleConsume(c) ==
    LET p == call[c].pool
        u == call[c].user
        s == call[c].session IN
    /\ call[c].pc = "consume"
    /\ AppendConsumed(p, u, s) \/ (~MayClose(p, u, s) /\ UNCHANGED storeVars)
    /\ Goto(c, "complete")
    /\ UNCHANGED <<tables, orphan, holder, closer>>

SettleComplete(c) ==
    /\ call[c].pc = "complete"
    /\ roster' = [roster EXCEPT ![call[c].user] =
                    IF @.status = "COMPLETED" THEN @ ELSE [@ EXCEPT !.status = "COMPLETED", !.session = call[c].session]]
    /\ Goto(c, "done")
    /\ UNCHANGED <<storeVars, assignment, startEvent, engine, turns, orphan, holder, closer>>

-----------------------------------------------------------------------------
(* closeAssignment *)

CloseMark(st) ==
    /\ closer.pc \in {"idle", "swept"}
    /\ assignment' = st
    /\ closer' = [pc |-> "list", todo |-> {}]
    /\ UNCHANGED <<storeVars, roster, startEvent, engine, turns, orphan, holder, call>>

\* Mutant: the sweep starts before the assignment is closed.
CloseListEarly ==
    /\ closer.pc \in {"idle", "list"}
    /\ closer' = [pc |-> "release",
                  todo |-> {us \in Users \X Sessions : roster[us[1]].status # "COMPLETED" /\ roster[us[1]].session = us[2]}]
    /\ UNCHANGED <<storeVars, tables, orphan, holder, call>>

\* The roster as it is now: rows not COMPLETED that have a session.
CloseList ==
    /\ closer.pc = "list"
    /\ closer' = [pc |-> "release",
                  todo |-> {us \in Users \X Sessions : roster[us[1]].status # "COMPLETED" /\ roster[us[1]].session = us[2]}]
    /\ UNCHANGED <<storeVars, tables, orphan, holder, call>>

\* The seat named by the START event is released if it is still open.
CloseRelease(u, s) ==
    LET p == startEvent[s] IN
    /\ closer.pc = "release" /\ <<u, s>> \in closer.todo
    /\ \/ p # NoPool /\ AppendReleased(p, u, s)
       \/ (p = NoPool \/ ~MayClose(p, u, s)) /\ UNCHANGED storeVars
    /\ closer' = [closer EXCEPT !.todo = @ \ {<<u, s>>}]
    /\ UNCHANGED <<tables, orphan, holder, call>>

\* A START event that cannot be read is taken for none (.catch(() => null)).
CloseSkip(u, s) ==
    /\ closer.pc = "release" /\ <<u, s>> \in closer.todo
    /\ closer' = [closer EXCEPT !.todo = @ \ {<<u, s>>}]
    /\ UNCHANGED <<storeVars, tables, orphan, holder, call>>

CloseDone ==
    /\ closer.pc = "release" /\ closer.todo = {}
    /\ closer' = [closer EXCEPT !.pc = "swept"]
    /\ UNCHANGED <<storeVars, tables, orphan, holder, call>>

\* A restart: requests, locks and running handlers are gone, the tables stay.
Restart ==
    /\ (\E c \in Calls : call[c].pc \notin {"idle", "done", "failed"}) \/ closer.pc \in {"list", "release"} \/ orphan # {}
    /\ call' = [c \in Calls |-> IF call[c].pc \in {"idle", "done"} THEN call[c] ELSE [call[c] EXCEPT !.pc = "failed"]]
    /\ holder' = [s \in Sessions |-> NoCall]
    /\ orphan' = {}
    /\ closer' = IF closer.pc = "swept" THEN closer ELSE [pc |-> "idle", todo |-> {}]
    /\ UNCHANGED <<storeVars, tables>>

-----------------------------------------------------------------------------
InStart(c) ==
    \/ StartAppend(c) \/ StartLock(c) \/ StartLocked(c) \/ StartEngine(c) \/ StartEngineTimesOut(c)
    \/ StartFinalize(c) \/ StartRecord(c) \/ StartEnrol(c)

InSettle(c) == SettleConsume(c) \/ SettleComplete(c)

Begin(c) ==
    \/ \E u \in Users : AcknowledgeRead(c, u) \/ StartResumed(c, u) \/ StartReads(c, u)
    \/ \E u \in Users, s \in Sessions : SettleRead(c, u, s)

Sweep ==
    \/ \E st \in {"CLOSED", "CANCELLED"} : CloseMark(st)
    \/ CloseList \/ CloseDone
    \/ \E u \in Users, s \in Sessions : CloseRelease(u, s) \/ CloseSkip(u, s)

Next ==
    \/ \E c \in Calls : Begin(c) \/ AcknowledgeWrite(c) \/ InStart(c) \/ InSettle(c) \/ Fails(c)
    \/ \E s \in Sessions : LateEngineStart(s) \/ Turn(s) \/ Report(s)
    \/ Sweep \/ Restart

Spec == Init /\ [][Next]_vars

\* A request in flight goes on: the event loop runs it, every engine call is cut
\* off after 120 s, and the lock's promise chain serves each waiter in turn
\* (strong fairness on taking it).  Nothing obliges anyone to send a request.
Fairness ==
    \A c \in Calls : /\ WF_vars(InStart(c) \/ InSettle(c) \/ AcknowledgeWrite(c))
                     /\ SF_vars(StartLock(c))

FairSpec == Spec /\ Fairness

-----------------------------------------------------------------------------
(* Properties *)

\* Whatever races, retries, crashes or fails, every start a student was ever
\* answered with names one session, the one the roster row carries: a second
\* tab and a retried key land on the same seat and session (K68, K69).
OneSessionPerStudent ==
    \A c, d \in Calls :
        /\ call[c].user = call[d].user /\ call[c].session # NoSession /\ call[d].session # NoSession
              => call[c].session = call[d].session
        /\ call[c].session # NoSession /\ roster[call[c].user].session # NoSession
              => call[c].session = roster[call[c].user].session

\* A seat of a pool billed on ASSESSMENT_STARTED is closed before its start is
\* recorded, so no recorded start leaves such a seat open (K99).
StartBilledOnce ==
    \A s \in Sessions : startEvent[s] \in BilledOnStart => Closing(startEvent[s], s) # {}

\* The completion path always closes the seat: a roster row never says
\* COMPLETED while the seat of its session is still open ("a seat is never
\* left open", ledger.js).
CompletedSeatIsClosed ==
    \A u \in Users : roster[u].status = "COMPLETED" => \A p \in Pools : ~IsOpen(p, roster[u].session)

\* A roster row that names a session names one the engine really has, whose
\* start was recorded against the pool that holds (or held) its seat.
RosterMatchesEngine ==
    \A u \in Users : LET s == roster[u].session IN
        s # NoSession => /\ engine[s] # "none"
                         /\ startEvent[s] # NoPool
                         /\ \E r \in Reserved(startEvent[s], s) : r.user = u

\* What the roster says of a session is so: it is there, and its seat is closed
\* before the row says COMPLETED.
RosterSound == CompletedSeatIsClosed /\ RosterMatchesEngine

\* The life of a student's assessment, read from the reservation under the
\* student's key, the engine's session and the roster row.
Mine(u) == Keyed(ReserveKey(u, Assignment))
SeatNow(r) == CASE IsConsumed(r.pool, r.session) -> "billed" [] IsReleased(r.pool, r.session) -> "returned" [] OTHER -> "open"
LifeOf(u) ==
    LET taken == Mine(u) # {}
        r == CHOOSE r \in Mine(u) : TRUE IN
    [acked     |-> roster[u].acked,
     session   |-> IF taken THEN r.session ELSE NoSession,
     seat      |-> IF taken THEN SeatNow(r) ELSE "none",
     work      |-> IF taken THEN engine[r.session] ELSE "none",
     completed |-> roster[u].status = "COMPLETED"]

Lives == [u \in Users |-> LifeOf(u)]

Assessment == INSTANCE SponsoredAssessment WITH life <- Lives, over <- assignment # "ACTIVE"

\* Seat, session, roster row and card of each student move in the order an
\* assessment has: no seat before the disclosure is acknowledged, one session,
\* no bill before there is work, nothing returned before the assignment is
\* closed, no completion before the report and the closed seat - though five
\* stores are written one by one and any request may stop between them.
ImplementsAssessment == Assessment!Spec

\* "The engine is never started twice for one assignment": the exchanges of a
\* session are never wiped by a second engine start.
ProgressIsKept == [][\A s \in Sessions : turns'[s] >= turns[s]]_turns

\* Every start that queues for a session's lock is answered.
QueuedStartEnds == \A c \in Calls : call[c].pc = "lock" ~> call[c].pc \in {"done", "failed"}

=============================================================================
