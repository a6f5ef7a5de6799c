------------------------ MODULE SponsoredSessionProofs ------------------------
(***************************************************************************)
(* The sponsored assessment, for any numbers of students, requests, seats   *)
(* and pools: seat, start event, roster and engine agree, and no progress   *)
(* is wiped as long as no engine handler outlives its invoker.              *)
(***************************************************************************)
EXTENDS SponsoredSession, LedgerStoreProofs

ReservedRows == {r \in rows : r.event = "RESERVED"}

\* The seat of a session is its user's, in this pool.
Holds(p, u, s) == \E r \in ReservedRows : r.pool = p /\ r.user = u /\ r.session = s
Seated(u, s) == \E p \in Pools : Holds(p, u, s)

\* A session id is a start's own until its reservation is appended, and one seat after it.
SeatsFromStarts ==
    /\ \A c \in Calls : call[c].pc \in {"idle", "append"} => \A r \in rows : r.session # SessionOf[c]
    /\ \A r, q \in ReservedRows : r.session = q.session => r = q

InStarted == {"finalize", "record", "enrol", "consume", "complete"}
InSeat == {"lock", "locked", "starting"} \cup InStarted
InFlight == {"acking", "append"} \cup InSeat

\* What a request carries when it stands at a step.
CallOK(c) ==
    /\ call[c].pc \in InFlight => call[c].user \in Users
    /\ call[c].pc = "append" => call[c].pool \in Pools /\ call[c].session = NoSession
    /\ call[c].session # NoSession => call[c].user \in Users /\ Seated(call[c].user, call[c].session)
    /\ call[c].pc \in InSeat => Holds(call[c].pool, call[c].user, call[c].session)
    /\ call[c].pc \in InStarted => engine[call[c].session] # "none"
    /\ call[c].pc \in {"enrol", "consume", "complete"} => startEvent[call[c].session] # NoPool
    /\ (call[c].pc = "complete" \/ (call[c].pc = "record" /\ call[c].pool \in BilledOnStart))
          => Closing(call[c].pool, call[c].session) # {}

\* A recorded start is one of the session's seat, billed where starts are.
EventsOK ==
    /\ \A s \in Sessions : startEvent[s] # NoPool => Reserved(startEvent[s], s) # {}
    /\ StartBilledOnce

\* What a roster row says of its session.
RosterOK(u) ==
    LET s == roster[u].session IN
    /\ s # NoSession => Seated(u, s) /\ engine[s] # "none" /\ startEvent[s] # NoPool
    /\ roster[u].status = "COMPLETED" => \A p \in Pools : ~IsOpen(p, s)

SessionInv ==
    /\ TypeOK /\ StoreInv
    /\ SeatsFromStarts
    /\ \A c \in Calls : CallOK(c)
    /\ EventsOK
    /\ \A u \in Users : RosterOK(u)

\* Without timed-out engine calls, one request at a time stands past the lock,
\* and the engine is started only for a session it does not have.
LockInv ==
    /\ orphan = {}
    /\ \A c \in Calls : call[c].pc \in InLock => holder[call[c].session] = c
    /\ \A c \in Calls : call[c].pc = "starting" => engine[call[c].session] = "none"
    /\ \A s \in Sessions : engine[s] = "none" => turns[s] = 0

\* What has happened before a student's assessment is where it is: whoever has a
\* seat acknowledged the disclosure, the engine has sessions of seats only, a
\* settlement found the report, and a sweep comes after the close.
OrderInv ==
    /\ \A s \in Sessions : engine[s] # "none" \/ s \in orphan => \E u \in Users : Seated(u, s)
    /\ \A r \in ReservedRows : roster[r.user].acked
    /\ \A u \in Users : roster[u].status = "COMPLETED" => roster[u].session # NoSession
    /\ \A c \in Calls : call[c].pc = "append" => roster[call[c].user].acked
    /\ \A c \in Calls : call[c].pc \in {"consume", "complete"} => engine[call[c].session] = "reported"
    /\ closer.pc \in {"list", "release"} => assignment # "ACTIVE"
    /\ \A us \in closer.todo : Seated(us[1], us[2]) /\ engine[us[2]] # "none"

-----------------------------------------------------------------------------
\* Every reservation is under the key of its user, and so a user has one.
LEMMA OneSeatPerUser ==
    ASSUME StoreInv
    PROVE  /\ \A r, q \in ReservedRows : r.user = q.user => r = q
           /\ \A r \in ReservedRows : r.pool \in Pools /\ r.user \in Users /\ r.session \in Sessions
<1>1. rows \subseteq Rows
  BY DEF StoreInv, StoreTypeOK
<1>2. \A r \in ReservedRows : r.key = ReserveKey(r.user, Assignment)
  BY SessionAssumption DEF StoreInv, ReservedKeyed, ReservedRows
<1>3. \A r, q \in ReservedRows : r.user = q.user => r = q
  BY <1>2 DEF StoreInv, KeysAreUnique, ReservedRows
<1> QED
  BY <1>1, <1>3 DEF ReservedRows, Rows

\* A write that reserves nothing: the closing row is of a session that has a seat.
ClosesOnly ==
    /\ rows \subseteq rows'
    /\ ReservedRows' = ReservedRows
    /\ \A r \in rows' : \E q \in rows : q.session = r.session

LEMMA NoWriteClosesOnly ==
    ASSUME UNCHANGED storeVars, StoreInv
    PROVE  ClosesOnly /\ StoreInv'
<1>1. rows' = rows /\ held' = held /\ poolStatus' = poolStatus
  BY DEF storeVars
<1>2. ClosesOnly
  BY <1>1 DEF ClosesOnly, ReservedRows
<1>3. StoreInv'
  BY <1>1, StatusOnly DEF StoreInv, StoreTypeOK
<1> QED
  BY <1>2, <1>3

LEMMA ConsumeClosesOnly ==
    ASSUME NEW p \in Pools, NEW u \in Users, NEW s \in Sessions, AppendConsumed(p, u, s), StoreInv
    PROVE  ClosesOnly /\ StoreInv' /\ Closing(p, s)' # {}
<1> DEFINE row == [pool |-> p, user |-> u, session |-> s, event |-> "CONSUMED", key |-> CloseKey("CONSUMED", p, s)]
<1>1. rows' = rows \cup {row} /\ \E q \in rows : q.session = s
  BY DEF AppendConsumed, Insert, MayClose, Reserved
<1>2. row.session = s /\ row.event = "CONSUMED" /\ row.pool = p
  OBVIOUS
<1> HIDE DEF row
<1>3. ClosesOnly
  BY <1>1, <1>2 DEF ClosesOnly, ReservedRows
<1>4. Closing(p, s)' # {}
  BY <1>1, <1>2 DEF Closing
<1> QED
  BY <1>3, <1>4, ConsumedKeepsStore

LEMMA ReleaseClosesOnly ==
    ASSUME NEW p \in Pools, NEW u \in Users, NEW s \in Sessions, AppendReleased(p, u, s), StoreInv
    PROVE  ClosesOnly /\ StoreInv'
<1> DEFINE row == [pool |-> p, user |-> u, session |-> s, event |-> "RELEASED", key |-> CloseKey("RELEASED", p, s)]
<1>1. rows' = rows \cup {row} /\ \E q \in rows : q.session = s
  BY DEF AppendReleased, Insert, MayClose, Reserved
<1>2. row.session = s /\ row.event = "RELEASED"
  OBVIOUS
<1> HIDE DEF row
<1>3. ClosesOnly
  BY <1>1, <1>2 DEF ClosesOnly, ReservedRows
<1> QED
  BY <1>3, ReleasedKeepsStore

-----------------------------------------------------------------------------
\* What a step leaves alone of a session: the engine has it and its start is recorded for good.
GoesOn ==
    /\ \A s \in Sessions : engine[s] # "none" => engine'[s] # "none"
    /\ \A s \in Sessions : startEvent[s] # NoPool => startEvent'[s] = startEvent[s]

\* A request that does not move keeps what it carries.
LEMMA RestingCall ==
    ASSUME SessionInv, ClosesOnly, GoesOn, NEW c \in Calls, call'[c] = call[c]
    PROVE  CallOK(c)'
<1> DEFINE p == call[c].pool
           u == call[c].user
           s == call[c].session
<1>1. CallOK(c)
  BY DEF SessionInv
<1>2. s # NoSession => s \in Sessions
  BY DEF SessionInv, TypeOK, CallRecords
<1>3. call[c].pc \in InSeat => s \in Sessions
  BY <1>1, OneSeatPerUser DEF SessionInv, CallOK, Holds
<1>4. Closing(p, s) # {} => Closing(call[c].pool, call[c].session)' # {}
  BY DEF ClosesOnly, Closing
<1>5. \A q \in Pools : Holds(q, u, s) => Holds(q, call[c].user, call[c].session)'
  BY DEF ClosesOnly, Holds
<1>6. Holds(p, u, s) => Holds(call[c].pool, call[c].user, call[c].session)'
  BY DEF ClosesOnly, Holds
<1>7. Seated(u, s) => Seated(call[c].user, call[c].session)'
  BY <1>5 DEF Seated
<1> QED
  BY <1>1, <1>2, <1>3, <1>4, <1>6, <1>7 DEF CallOK, GoesOn, InSeat, InStarted, InFlight

\* Neither does a roster row that is not written lose what it says.
LEMMA RestingRow ==
    ASSUME SessionInv, ClosesOnly, GoesOn, NEW u \in Users, roster'[u] = roster[u]
    PROVE  RosterOK(u)'
<1>1. RosterOK(u) /\ (roster[u].session # NoSession => roster[u].session \in Sessions)
  BY DEF SessionInv, TypeOK, RosterRows
<1>2. Seated(u, roster[u].session) => Seated(u, roster[u].session)'
  BY DEF ClosesOnly, Seated, Holds
<1>3. \A p \in Pools : ~IsOpen(p, roster[u].session) => ~IsOpen(p, roster[u].session)'
  BY DEF ClosesOnly, IsOpen, Reserved, Closing, ReservedRows
<1> QED
  BY <1>1, <1>2, <1>3 DEF RosterOK, GoesOn

\* Recorded starts stay those of seats, and billed.
LEMMA RestingEvents ==
    ASSUME SessionInv, ClosesOnly, UNCHANGED startEvent
    PROVE  EventsOK'
<1>1. \A s \in Sessions : Reserved(startEvent[s], s) # {} => Reserved(startEvent[s], s)' # {}
  BY DEF ClosesOnly, Reserved
<1>2. \A s \in Sessions : Closing(startEvent[s], s) # {} => Closing(startEvent[s], s)' # {}
  BY DEF ClosesOnly, Closing
<1> QED
  BY <1>1, <1>2 DEF SessionInv, EventsOK, StartBilledOnce

\* A step that reserves nothing keeps the invariant if what it moves is in order.
LEMMA StepKeeps ==
    ASSUME SessionInv, ClosesOnly, StoreInv', TypeOK', GoesOn, EventsOK',
           \A c \in Calls : call'[c] = call[c] \/ (CallOK(c)' /\ (call'[c].pc \in {"idle", "append"} => call[c].pc \in {"idle", "append"})),
           \A u \in Users : roster'[u] = roster[u] \/ RosterOK(u)'
    PROVE  SessionInv'
<1>1. \A c \in Calls : CallOK(c)'
  BY RestingCall
<1>2. \A u \in Users : RosterOK(u)'
  BY RestingRow
<1>3. SeatsFromStarts'
  BY DEF SessionInv, SeatsFromStarts, ClosesOnly
<1> QED
  BY <1>1, <1>2, <1>3 DEF SessionInv

\* The tables that a step of a request alone leaves as they are.
LEMMA NoRowStep ==
    ASSUME SessionInv, UNCHANGED <<storeVars, roster, startEvent>>,
           \A s \in Sessions : engine[s] # "none" => engine'[s] # "none", TypeOK',
           \A c \in Calls : call'[c] = call[c] \/ (CallOK(c)' /\ (call'[c].pc \in {"idle", "append"} => call[c].pc \in {"idle", "append"}))
    PROVE  SessionInv'
<1>1. ClosesOnly /\ StoreInv'
  BY NoWriteClosesOnly DEF SessionInv
<1>2. GoesOn
  BY DEF GoesOn
<1>3. EventsOK'
  BY <1>1, RestingEvents
<1> QED
  BY <1>1, <1>2, <1>3, StepKeeps

-----------------------------------------------------------------------------
\* Where a request's move takes it.
LEMMA Moves ==
    ASSUME TypeOK, NEW c \in Calls, NEW pc \in Phases, Goto(c, pc)
    PROVE  /\ call' \in [Calls -> CallRecords]
           /\ call'[c].pc = pc /\ call'[c].user = call[c].user /\ call'[c].pool = call[c].pool
           /\ call'[c].session = call[c].session
           /\ \A d \in Calls : d # c => call'[d] = call[d]
<1>1. call \in [Calls -> CallRecords] /\ call' = [call EXCEPT ![c].pc = pc]
  BY DEF TypeOK, Goto
<1>2. call'[c] = [call[c] EXCEPT !.pc = pc]
  BY <1>1
<1> QED
  BY <1>1, <1>2 DEF CallRecords

LEMMA Freed ==
    ASSUME TypeOK, NEW c \in Calls
    PROVE  Free(c) \in [Sessions -> Calls \cup {NoCall}]
BY DEF TypeOK, Free

\* A request that ends or goes on without a write keeps what it carries.
LEMMA MoveKeepsCall ==
    ASSUME SessionInv, NEW c \in Calls, NEW pc \in Phases \ {"idle", "append"}, Goto(c, pc), UNCHANGED rows,
           pc \in InFlight => call[c].user \in Users,
           pc \in InSeat => Holds(call[c].pool, call[c].user, call[c].session),
           pc \in InStarted => engine'[call[c].session] # "none",
           pc \in {"enrol", "consume", "complete"} => startEvent'[call[c].session] # NoPool,
           pc = "complete" \/ (pc = "record" /\ call[c].pool \in BilledOnStart) => Closing(call[c].pool, call[c].session) # {}
    PROVE  CallOK(c)'
<1>1. /\ call'[c].pc = pc /\ call'[c].user = call[c].user /\ call'[c].pool = call[c].pool
      /\ call'[c].session = call[c].session
  BY Moves DEF SessionInv
<1>2. CallOK(c)
  BY DEF SessionInv
<1>3. Seated(call[c].user, call[c].session) => Seated(call[c].user, call[c].session)'
  BY <1>1 DEF Seated, Holds, ReservedRows
<1>4. Holds(call[c].pool, call[c].user, call[c].session) => Holds(call[c].pool, call[c].user, call[c].session)'
  BY <1>1 DEF Holds, ReservedRows
<1>5. Closing(call[c].pool, call[c].session) # {} => Closing(call[c].pool, call[c].session)' # {}
  BY <1>1 DEF Closing
<1> QED
  BY <1>1, <1>2, <1>3, <1>4, <1>5 DEF CallOK

-----------------------------------------------------------------------------
(* A request begins *)

\* What the beginnings of a request have in common.
LEMMA BeginKeeps ==
    ASSUME SessionInv, NEW c \in Calls, NEW k \in CallRecords, call[c].pc = "idle",
           call' = [call EXCEPT ![c] = k], UNCHANGED <<storeVars, tables, orphan, holder, closer>>,
           k.pc \in {"acking", "append", "lock", "consume", "done"}, k.user \in Users,
           k.pc = "append" => k.pool \in Pools /\ k.session = NoSession,
           k.session # NoSession => Seated(k.user, k.session),
           k.pc \in InSeat => Holds(k.pool, k.user, k.session),
           k.pc = "consume" => engine[k.session] # "none" /\ startEvent[k.session] # NoPool
    PROVE  SessionInv'
<1>1. call \in [Calls -> CallRecords] /\ call'[c] = k /\ \A d \in Calls : d # c => call'[d] = call[d]
  BY DEF SessionInv, TypeOK
<1>2. TypeOK'
  BY <1>1, NoWriteClosesOnly DEF SessionInv, TypeOK, StoreInv, tables
<1>3. Seated(k.user, k.session) => Seated(k.user, k.session)'
  BY DEF Seated, Holds, ReservedRows, storeVars
<1>4. Holds(k.pool, k.user, k.session) => Holds(k.pool, k.user, k.session)'
  BY DEF Holds, ReservedRows, storeVars
<1>5. CallOK(c)'
  BY <1>1, <1>3, <1>4 DEF CallOK, InSeat, InStarted, tables
<1> QED
  BY <1>1, <1>2, <1>5, NoRowStep DEF tables

LEMMA BeginStep ==
    ASSUME SessionInv, NEW c \in Calls, Begin(c)
    PROVE  SessionInv'
<1>1. Idle \in CallRecords
  BY DEF Idle, CallRecords, Phases, Statuses
<1>2. ASSUME NEW u \in Users, AcknowledgeRead(c, u) PROVE SessionInv'
  <2> DEFINE k == [Idle EXCEPT !.pc = "acking", !.user = u, !.was = roster[u].status]
  <2>1. k \in CallRecords /\ k.pc = "acking" /\ k.user = u /\ k.session = NoSession
    BY DEF Idle, CallRecords, Phases, Statuses, SessionInv, TypeOK, RosterRows
  <2>2. call[c].pc = "idle" /\ call' = [call EXCEPT ![c] = k] /\ UNCHANGED <<storeVars, tables, orphan, holder, closer>>
    BY <1>2 DEF AcknowledgeRead
  <2> QED
    BY <2>1, <2>2, BeginKeeps DEF InSeat, InStarted
<1>3. ASSUME NEW u \in Users, StartResumed(c, u) PROVE SessionInv'
  <2> DEFINE k == [Idle EXCEPT !.pc = "done", !.user = u, !.session = roster[u].session]
  <2>1. k \in CallRecords /\ k.pc = "done" /\ k.user = u /\ k.session = roster[u].session
    BY DEF Idle, CallRecords, Phases, Statuses, SessionInv, TypeOK, RosterRows
  <2>2. call[c].pc = "idle" /\ call' = [call EXCEPT ![c] = k] /\ UNCHANGED <<storeVars, tables, orphan, holder, closer>>
    BY <1>3 DEF StartResumed
  <2>3. roster[u].session # NoSession => Seated(u, roster[u].session)
    BY DEF SessionInv, RosterOK
  <2> QED
    BY <2>1, <2>2, <2>3, BeginKeeps DEF InSeat, InStarted
<1>4. ASSUME NEW u \in Users, StartReads(c, u) PROVE SessionInv'
  <2>1. ASSUME NEW r \in Keyed(ReserveKey(u, Assignment)),
               call' = [call EXCEPT ![c] = [Idle EXCEPT !.pc = "lock", !.user = u, !.pool = r.pool, !.session = r.session]]
        PROVE  SessionInv'
    <3> DEFINE k == [Idle EXCEPT !.pc = "lock", !.user = u, !.pool = r.pool, !.session = r.session]
    <3>1. r \in ReservedRows /\ r.user = u
      <4>1. r \in rows /\ r.key = ReserveKey(u, Assignment)
        BY DEF Keyed
      <4>2. r.event = "RESERVED"
        BY <4>1 DEF SessionInv, StoreInv, StoreTypeOK, Rows, ClosingKeyed, ReserveKey, CloseKey
      <4> QED
        BY <4>1, <4>2 DEF SessionInv, StoreInv, ReservedKeyed, ReservedRows, ReserveKey
    <3>2. r.pool \in Pools /\ r.session \in Sessions
      BY <3>1, OneSeatPerUser DEF SessionInv
    <3>3. k \in CallRecords /\ k.pc = "lock" /\ k.user = u /\ k.pool = r.pool /\ k.session = r.session
      BY <3>2 DEF Idle, CallRecords, Phases, Statuses
    <3>4. Holds(r.pool, u, r.session) /\ Seated(u, r.session)
      BY <3>1, <3>2 DEF Holds, Seated
    <3>5. call[c].pc = "idle" /\ UNCHANGED <<storeVars, tables, orphan, holder, closer>>
      BY <1>4 DEF StartReads
    <3> QED
      BY <2>1, <3>3, <3>4, <3>5, BeginKeeps
  <2>2. ASSUME NEW p \in Pools,
               call' = [call EXCEPT ![c] = [Idle EXCEPT !.pc = "append", !.user = u, !.pool = p, !.session = NoSession]]
        PROVE  SessionInv'
    <3> DEFINE k == [Idle EXCEPT !.pc = "append", !.user = u, !.pool = p, !.session = NoSession]
    <3>1. k \in CallRecords /\ k.pc = "append" /\ k.user = u /\ k.pool = p /\ k.session = NoSession
      BY DEF Idle, CallRecords, Phases, Statuses
    <3>2. call[c].pc = "idle" /\ UNCHANGED <<storeVars, tables, orphan, holder, closer>>
      BY <1>4 DEF StartReads
    <3> QED
      BY <2>2, <3>1, <3>2, BeginKeeps DEF InSeat, InStarted
  <2> QED
    BY <1>4, <2>1, <2>2 DEF StartReads
<1>5. ASSUME NEW u \in Users, NEW s \in Sessions, SettleRead(c, u, s) PROVE SessionInv'
  <2> DEFINE k == [Idle EXCEPT !.pc = "consume", !.user = u, !.pool = startEvent[s], !.session = s]
  <2>1. k \in CallRecords /\ k.pc = "consume" /\ k.user = u /\ k.pool = startEvent[s] /\ k.session = s
    BY DEF Idle, CallRecords, Phases, Statuses, SessionInv, TypeOK
  <2>2. /\ call[c].pc = "idle" /\ call' = [call EXCEPT ![c] = k] /\ UNCHANGED <<storeVars, tables, orphan, holder, closer>>
        /\ engine[s] = "reported" /\ startEvent[s] # NoPool
    BY <1>5 DEF SettleRead
  <2>3. PICK r \in Keyed(ReserveKey(u, Assignment)) : r.session = s
    BY <1>5 DEF SettleRead
  <2>4. r \in ReservedRows /\ r.user = u
    <3>1. r \in rows /\ r.key = ReserveKey(u, Assignment)
      BY DEF Keyed
    <3>2. r.event = "RESERVED"
      BY <3>1 DEF SessionInv, StoreInv, StoreTypeOK, Rows, ClosingKeyed, ReserveKey, CloseKey
    <3> QED
      BY <3>1, <3>2 DEF SessionInv, StoreInv, ReservedKeyed, ReservedRows, ReserveKey
  <2>5. PICK q \in ReservedRows : q.session = s /\ q.pool = startEvent[s]
    BY <2>2 DEF SessionInv, EventsOK, Reserved, ReservedRows
  <2>6. q = r
    BY <2>3, <2>4, <2>5 DEF SessionInv, SeatsFromStarts
  <2>7. Holds(startEvent[s], u, s) /\ Seated(u, s)
    BY <2>4, <2>5, <2>6, OneSeatPerUser DEF Holds, Seated, SessionInv
  <2> QED
    BY <2>1, <2>2, <2>7, BeginKeeps
<1> QED
  BY <1>2, <1>3, <1>4, <1>5 DEF Begin

-----------------------------------------------------------------------------
(* The steps of a start *)

\* The one step that reserves: a seat of a session nothing had a row of.
LEMMA AppendStep ==
    ASSUME SessionInv, NEW c \in Calls, StartAppend(c)
    PROVE  SessionInv'
<1> DEFINE p == call[c].pool
           u == call[c].user
           k == ReserveKey(u, Assignment)
<1>1. call[c].pc = "append" /\ p \in Pools /\ u \in Users /\ UNCHANGED <<tables, orphan, holder, closer>>
  BY DEF StartAppend, SessionInv, CallOK, InFlight
<1>2. call \in [Calls -> CallRecords] /\ TypeOK
  BY DEF SessionInv, TypeOK
<1>3. ASSUME NEW r \in Keyed(k), UNCHANGED storeVars,
             call' = [call EXCEPT ![c].pc = "lock", ![c].pool = r.pool, ![c].session = r.session]
      PROVE  SessionInv'
  <2>1. r \in ReservedRows /\ r.user = u
    <3>1. r \in rows /\ r.key = k
      BY DEF Keyed
    <3>2. r.event = "RESERVED"
      BY <3>1 DEF SessionInv, StoreInv, StoreTypeOK, Rows, ClosingKeyed, ReserveKey, CloseKey
    <3> QED
      BY <3>1, <3>2 DEF SessionInv, StoreInv, ReservedKeyed, ReservedRows, ReserveKey
  <2>2. r.pool \in Pools /\ r.session \in Sessions
    BY <2>1, OneSeatPerUser DEF SessionInv
  <2>3. /\ call'[c] = [call[c] EXCEPT !.pc = "lock", !.pool = r.pool, !.session = r.session]
        /\ \A d \in Calls : d # c => call'[d] = call[d]
    BY <1>2, <1>3
  <2>4. call'[c].pc = "lock" /\ call'[c].pool = r.pool /\ call'[c].user = u /\ call'[c].session = r.session
    BY <1>2, <2>3 DEF CallRecords
  <2>5. call' \in [Calls -> CallRecords]
    <3>1. call'[c] \in CallRecords
      BY <1>2, <2>2, <2>3 DEF CallRecords, Phases
    <3> QED
      BY <1>2, <1>3, <2>3, <3>1
  <2>6. TypeOK'
    BY <1>1, <1>2, <1>3, <2>5, NoWriteClosesOnly DEF SessionInv, TypeOK, StoreInv, tables
  <2>7. r \in ReservedRows'
    BY <1>3, <2>1 DEF ReservedRows, storeVars
  <2>8. CallOK(c)'
    BY <1>1, <2>1, <2>2, <2>4, <2>7 DEF CallOK, InSeat, InStarted, InFlight, Holds, Seated
  <2> QED
    BY <1>1, <1>3, <2>3, <2>4, <2>6, <2>8, NoRowStep DEF tables
<1>4. ASSUME Goto(c, "failed"), UNCHANGED storeVars
      PROVE  SessionInv'
  <2>1. "failed" \in Phases
    BY DEF Phases
  <2>2. CallOK(c)'
    BY <1>4, <2>1, MoveKeepsCall DEF InFlight, InSeat, InStarted, storeVars
  <2>3. TypeOK'
    BY <1>1, <1>2, <1>4, <2>1, Moves, NoWriteClosesOnly DEF SessionInv, TypeOK, StoreInv, tables
  <2> QED
    BY <1>1, <1>2, <1>4, <2>1, <2>2, <2>3, Moves, NoRowStep DEF tables
<1>5. ASSUME AppendReserved(p, u, SessionOf[c], k),
             call' = [call EXCEPT ![c].pc = "lock", ![c].pool = p, ![c].session = SessionOf[c]]
      PROVE  SessionInv'
  <2> DEFINE s == SessionOf[c]
             row == [pool |-> p, user |-> u, session |-> s, event |-> "RESERVED", key |-> k]
  <2>1. s \in Sessions /\ Assignment \in Items
    BY SessionAssumption
  <2>2. \A r \in rows : r.session # s
    BY <1>1 DEF SessionInv, SeatsFromStarts
  <2>3. StoreInv'
    <3>1. Reserved(p, s) = {}
      BY <2>2 DEF Reserved
    <3> QED
      BY <1>1, <1>5, <2>1, <3>1, ReservedKeepsStore DEF SessionInv
  <2>4. rows' = rows \cup {row} /\ Keyed(k) = {}
    BY <1>5 DEF AppendReserved, Insert
  <2>5. row.pool = p /\ row.user = u /\ row.session = s /\ row.event = "RESERVED"
    OBVIOUS
  <2> HIDE DEF row
  <2>6. ReservedRows' = ReservedRows \cup {row}
    BY <2>4, <2>5 DEF ReservedRows
  <2>7. /\ call'[c] = [call[c] EXCEPT !.pc = "lock", !.pool = p, !.session = s]
        /\ \A d \in Calls : d # c => call'[d] = call[d]
    BY <1>2, <1>5
  <2>8. call'[c].pc = "lock" /\ call'[c].pool = p /\ call'[c].user = u /\ call'[c].session = s
    BY <1>2, <2>7 DEF CallRecords
  <2>9. call' \in [Calls -> CallRecords]
    <3>1. call'[c] \in CallRecords
      BY <1>1, <1>2, <2>1, <2>7 DEF CallRecords, Phases
    <3> QED
      BY <1>2, <1>5, <2>7, <3>1
  <2>10. TypeOK'
    BY <1>1, <1>2, <2>3, <2>9 DEF TypeOK, StoreInv, tables
  <2>11. SeatsFromStarts'
    <3>1. ASSUME NEW d \in Calls, call'[d].pc \in {"idle", "append"} PROVE \A r \in rows' : r.session # SessionOf[d]
      <4>1. d # c
        BY <2>8, <3>1
      <4>2. call'[d] = call[d] /\ SessionOf[d] # s
        BY <2>7, <4>1, SessionAssumption
      <4> QED
        BY <2>4, <2>5, <3>1, <4>2 DEF SessionInv, SeatsFromStarts
    <3>2. \A r, q \in ReservedRows' : r.session = q.session => r = q
      BY <2>2, <2>5, <2>6 DEF SessionInv, SeatsFromStarts, ReservedRows
    <3> QED
      BY <3>1, <3>2 DEF SeatsFromStarts
  <2>12. ASSUME NEW d \in Calls PROVE CallOK(d)'
    <3>1. CASE d = c
      BY <1>1, <2>1, <2>5, <2>6, <2>8, <3>1 DEF CallOK, InSeat, InStarted, InFlight, Holds, Seated
    <3>2. CASE d # c
      <4>1. call'[d] = call[d] /\ CallOK(d)
        BY <2>7, <3>2 DEF SessionInv
      <4>2. Seated(call[d].user, call[d].session) => Seated(call[d].user, call[d].session)'
        BY <2>6, <4>1 DEF Seated, Holds
      <4>3. Holds(call[d].pool, call[d].user, call[d].session) => Holds(call[d].pool, call[d].user, call[d].session)'
        BY <2>6, <4>1 DEF Holds
      <4>4. Closing(call[d].pool, call[d].session) # {} => Closing(call[d].pool, call[d].session)' # {}
        BY <2>4, <4>1 DEF Closing
      <4> QED
        BY <1>1, <4>1, <4>2, <4>3, <4>4 DEF CallOK, tables
    <3> QED
      BY <3>1, <3>2
  <2>13. EventsOK'
    <3>1. startEvent' = startEvent
      BY <1>1 DEF tables
    <3>2. \A t \in Sessions : Reserved(startEvent[t], t) # {} => Reserved(startEvent[t], t)' # {}
      BY <2>4, <3>1 DEF Reserved
    <3>3. \A t \in Sessions : Closing(startEvent[t], t) # {} => Closing(startEvent[t], t)' # {}
      BY <2>4, <3>1 DEF Closing
    <3> QED
      BY <3>1, <3>2, <3>3 DEF SessionInv, EventsOK, StartBilledOnce
  <2>14. ASSUME NEW v \in Users PROVE RosterOK(v)'
    <3>1. roster' = roster /\ engine' = engine /\ startEvent' = startEvent /\ RosterOK(v)
      BY <1>1 DEF tables, SessionInv
    <3>2. roster[v].session # s
      <4>1. roster[v].session # NoSession => \E r \in rows : r.session = roster[v].session
        BY <3>1 DEF RosterOK, Seated, Holds, ReservedRows
      <4> QED
        BY <2>1, <2>2, <4>1, StoreAssumption
    <3>3. \A q \in Pools : IsOpen(q, roster[v].session)' => IsOpen(q, roster[v].session)
      BY <2>4, <2>5, <3>1, <3>2 DEF IsOpen, Reserved, Closing
    <3>4. Seated(v, roster[v].session) => Seated(v, roster[v].session)'
      BY <2>6, <3>1 DEF Seated, Holds
    <3> QED
      BY <3>1, <3>3, <3>4 DEF RosterOK
  <2> QED
    BY <2>3, <2>10, <2>11, <2>12, <2>13, <2>14 DEF SessionInv
<1> QED
  BY <1>3, <1>4, <1>5 DEF StartAppend

\* The steps that write no row: a request moves to pc, the lock may change hands.
LEMMA QuietMove ==
    ASSUME SessionInv, NEW c \in Calls, NEW pc \in Phases \ {"idle", "append"}, Goto(c, pc),
           UNCHANGED <<storeVars, assignment, roster, startEvent, closer>>,
           engine' \in [Sessions -> {"none", "live", "reported"}], turns' \in [Sessions -> 0..MaxTurns],
           \A s \in Sessions : engine[s] # "none" => engine'[s] # "none",
           orphan' \subseteq Sessions, holder' \in [Sessions -> Calls \cup {NoCall}],
           CallOK(c)'
    PROVE  SessionInv'
<1>1. call' \in [Calls -> CallRecords] /\ call'[c].pc = pc /\ \A d \in Calls : d # c => call'[d] = call[d]
  BY Moves DEF SessionInv
<1>2. TypeOK'
  BY <1>1, NoWriteClosesOnly DEF SessionInv, TypeOK, StoreInv
<1> QED
  BY <1>1, <1>2, NoRowStep

\* What a request past its reservation is known to carry.
LEMMA InSeatCarries ==
    ASSUME SessionInv, NEW c \in Calls, call[c].pc \in InSeat
    PROVE  /\ call[c].pool \in Pools /\ call[c].user \in Users /\ call[c].session \in Sessions
           /\ Holds(call[c].pool, call[c].user, call[c].session)
BY OneSeatPerUser DEF SessionInv, CallOK, Holds

LEMMA FailsStep ==
    ASSUME SessionInv, NEW c \in Calls, Fails(c)
    PROVE  SessionInv'
<1>1. Goto(c, "failed") /\ holder' = Free(c) /\ UNCHANGED <<storeVars, tables, orphan, closer>>
  BY DEF Fails, Leave
<1>2. "failed" \in Phases \ {"idle", "append"} /\ "failed" \notin InFlight
  BY DEF Phases, InFlight, InSeat, InStarted
<1>3. CallOK(c)'
  BY <1>1, <1>2, MoveKeepsCall DEF InFlight, InSeat, storeVars
<1> QED
  BY <1>1, <1>2, <1>3, Freed, QuietMove DEF SessionInv, TypeOK, tables

LEMMA LockStep ==
    ASSUME SessionInv, NEW c \in Calls, StartLock(c) \/ StartLocked(c)
    PROVE  SessionInv'
<1>1. call[c].pc \in InSeat /\ UNCHANGED <<storeVars, tables, orphan, closer>>
  BY DEF StartLock, StartLocked, InSeat
<1>2. call[c].pool \in Pools /\ call[c].user \in Users /\ call[c].session \in Sessions /\ Holds(call[c].pool, call[c].user, call[c].session)
  BY <1>1, InSeatCarries
<1>3. PICK pc \in {"locked", "done", "finalize", "starting"} :
        /\ Goto(c, pc)
        /\ pc = "finalize" => engine[call[c].session] # "none"
        /\ holder' \in {holder, Free(c), [holder EXCEPT ![call[c].session] = c]}
  BY DEF StartLock, StartLocked, Leave
<1>4. pc \in Phases \ {"idle", "append"}
  BY DEF Phases
<1>5. holder' \in [Sessions -> Calls \cup {NoCall}]
  BY <1>3, Freed DEF SessionInv, TypeOK
<1>6. CallOK(c)'
  BY <1>1, <1>2, <1>3, <1>4, MoveKeepsCall DEF InSeat, InStarted, InFlight, tables, storeVars
<1> QED
  BY <1>1, <1>3, <1>4, <1>5, <1>6, QuietMove DEF SessionInv, TypeOK, tables

LEMMA CreatedEngine ==
    ASSUME TypeOK, NEW s \in Sessions, EngineCreates(s)
    PROVE  /\ engine' \in [Sessions -> {"none", "live", "reported"}] /\ turns' \in [Sessions -> 0..MaxTurns]
           /\ engine'[s] # "none" /\ \A t \in Sessions : engine[t] # "none" => engine'[t] # "none"
BY SessionAssumption DEF TypeOK, EngineCreates

LEMMA EngineStep ==
    ASSUME SessionInv, NEW c \in Calls, StartEngine(c) \/ StartEngineTimesOut(c)
    PROVE  SessionInv'
<1>1. call[c].pc = "starting" /\ TypeOK
  BY DEF StartEngine, StartEngineTimesOut, SessionInv
<1>2. call[c].pool \in Pools /\ call[c].user \in Users /\ call[c].session \in Sessions /\ Holds(call[c].pool, call[c].user, call[c].session)
  BY <1>1, InSeatCarries DEF InSeat
<1>3. CASE StartEngine(c)
  <2>1. PICK s \in Sessions : s = call[c].session
    BY <1>2
  <2>2. EngineCreates(s) /\ Goto(c, "finalize") /\ "finalize" \in Phases
        /\ UNCHANGED <<storeVars, assignment, roster, startEvent, orphan, holder, closer>>
    BY <1>3, <2>1 DEF StartEngine, Phases, EngineCreates
  <2>3. /\ engine' \in [Sessions -> {"none", "live", "reported"}] /\ turns' \in [Sessions -> 0..MaxTurns]
        /\ engine'[call[c].session] # "none" /\ \A t \in Sessions : engine[t] # "none" => engine'[t] # "none"
    BY <1>1, <2>1, <2>2, CreatedEngine
  <2>4. CallOK(c)'
    BY <1>2, <2>2, <2>3, MoveKeepsCall DEF InSeat, InStarted, InFlight, storeVars
  <2> QED
    BY <1>1, <2>2, <2>3, <2>4, QuietMove DEF TypeOK
<1>4. CASE StartEngineTimesOut(c)
  <2>1. orphan' = orphan \cup {call[c].session} /\ Goto(c, "failed") /\ holder' = Free(c) /\ "failed" \in Phases
        /\ UNCHANGED <<storeVars, tables, closer>>
    BY <1>4 DEF StartEngineTimesOut, Leave, Phases
  <2>2. CallOK(c)'
    BY <2>1, MoveKeepsCall DEF InSeat, InStarted, InFlight, storeVars
  <2> QED
    BY <1>1, <1>2, <2>1, <2>2, Freed, QuietMove DEF TypeOK, tables
<1> QED
  BY <1>3, <1>4

\* Whether the seat was closed now or before, it is closed.
LEMMA ClosedBy ==
    ASSUME SessionInv, NEW p \in Pools, NEW u \in Users, NEW s \in Sessions, Holds(p, u, s),
           AppendConsumed(p, u, s) \/ (~MayClose(p, u, s) /\ UNCHANGED storeVars)
    PROVE  ClosesOnly /\ StoreInv' /\ Closing(p, s)' # {}
<1>1. CASE AppendConsumed(p, u, s)
  BY <1>1, ConsumeClosesOnly DEF SessionInv
<1>2. CASE ~MayClose(p, u, s) /\ UNCHANGED storeVars
  <2>1. Closing(p, s) # {}
    BY <1>2 DEF MayClose, Holds, Reserved, ReservedRows
  <2> QED
    BY <1>2, <2>1, NoWriteClosesOnly DEF SessionInv, Closing, storeVars
<1> QED
  BY <1>1, <1>2

\* A request closes a seat, or finds it closed, or has none to close, and moves on.
LEMMA CloseMoves ==
    ASSUME SessionInv, NEW c \in Calls, NEW pc \in {"record", "complete"}, Goto(c, pc), ClosesOnly, StoreInv',
           UNCHANGED <<tables, orphan, holder, closer>>, call[c].pc \in InStarted,
           pc = "complete" => startEvent[call[c].session] # NoPool,
           pc = "complete" \/ call[c].pool \in BilledOnStart => Closing(call[c].pool, call[c].session)' # {}
    PROVE  SessionInv'
<1>1. "record" \in Phases /\ "complete" \in Phases /\ call[c].pc \in InSeat
  BY DEF Phases, InSeat
<1>2. call[c].pool \in Pools /\ call[c].user \in Users /\ call[c].session \in Sessions /\ Holds(call[c].pool, call[c].user, call[c].session)
  BY <1>1, InSeatCarries
<1>3. /\ call' \in [Calls -> CallRecords] /\ call'[c].pc = pc /\ call'[c].user = call[c].user
      /\ call'[c].pool = call[c].pool /\ call'[c].session = call[c].session
      /\ \A d \in Calls : d # c => call'[d] = call[d]
  BY <1>1, Moves DEF SessionInv
<1>4. engine' = engine /\ startEvent' = startEvent /\ roster' = roster
  BY DEF tables
<1>5. Holds(call[c].pool, call[c].user, call[c].session)'
  BY <1>2, <1>3 DEF Holds, ClosesOnly
<1>7. CallOK(c)'
  BY <1>2, <1>3, <1>4, <1>5 DEF CallOK, SessionInv, InSeat, InStarted, InFlight, Seated, Holds
<1>8. TypeOK'
  BY <1>3, StoreAssumption DEF SessionInv, TypeOK, StoreInv, tables
<1>9. GoesOn /\ EventsOK'
  BY <1>4, RestingEvents DEF GoesOn
<1> QED
  BY <1>3, <1>4, <1>7, <1>8, <1>9, StepKeeps

LEMMA CloseSteps ==
    ASSUME SessionInv, NEW c \in Calls, StartFinalize(c) \/ SettleConsume(c)
    PROVE  SessionInv'
<1>1. call[c].pc \in InStarted /\ UNCHANGED <<tables, orphan, holder, closer>>
  BY DEF StartFinalize, SettleConsume, InStarted
<1>2. PICK p \in Pools, u \in Users, s \in Sessions : p = call[c].pool /\ u = call[c].user /\ s = call[c].session /\ Holds(p, u, s)
  BY <1>1, InSeatCarries DEF InSeat
<1>3. CASE StartFinalize(c)
  <2>1. /\ Goto(c, "record")
        /\ \/ AppendConsumed(p, u, s) \/ (~MayClose(p, u, s) /\ UNCHANGED storeVars)
           \/ p \notin BilledOnStart /\ UNCHANGED storeVars
    BY <1>2, <1>3 DEF StartFinalize, AppendConsumed, MayClose, Insert
  <2>2. CASE AppendConsumed(p, u, s) \/ (~MayClose(p, u, s) /\ UNCHANGED storeVars)
    <3>1. ClosesOnly /\ StoreInv' /\ Closing(p, s)' # {}
      BY <1>2, <2>2, ClosedBy
    <3>2. Closing(call[c].pool, call[c].session)' # {}
      BY <1>2, <2>1, <3>1, Moves DEF SessionInv, Closing, Phases
    <3> QED
      BY <1>1, <2>1, <3>1, <3>2, CloseMoves
  <2>3. CASE p \notin BilledOnStart /\ UNCHANGED storeVars
    BY <1>1, <1>2, <2>1, <2>3, NoWriteClosesOnly, CloseMoves DEF SessionInv
  <2> QED
    BY <2>1, <2>2, <2>3
<1>4. CASE SettleConsume(c)
  <2>1. Goto(c, "complete") /\ (AppendConsumed(p, u, s) \/ (~MayClose(p, u, s) /\ UNCHANGED storeVars))
    BY <1>2, <1>4 DEF SettleConsume, AppendConsumed, MayClose, Insert
  <2>2. ClosesOnly /\ StoreInv' /\ Closing(p, s)' # {}
    BY <1>2, <2>1, ClosedBy
  <2>3. Closing(call[c].pool, call[c].session)' # {}
    BY <1>2, <2>1, <2>2, Moves DEF SessionInv, Closing, Phases
  <2>4. startEvent[call[c].session] # NoPool
    BY <1>4 DEF SettleConsume, SessionInv, CallOK
  <2> QED
    BY <1>1, <2>1, <2>2, <2>3, <2>4, CloseMoves
<1> QED
  BY <1>3, <1>4

\* The first START event is written once and names the seat of its session.
LEMMA RecordStep ==
    ASSUME SessionInv, NEW c \in Calls, StartRecord(c)
    PROVE  SessionInv'
<1>1. /\ call[c].pc = "record" /\ Goto(c, "enrol") /\ "enrol" \in Phases
      /\ startEvent' = [startEvent EXCEPT ![call[c].session] = IF @ = NoPool THEN call[c].pool ELSE @]
      /\ UNCHANGED <<storeVars, assignment, roster, engine, turns, orphan, holder, closer>>
  BY DEF StartRecord, Phases
<1>2. PICK p \in Pools, u \in Users, s \in Sessions : p = call[c].pool /\ u = call[c].user /\ s = call[c].session /\ Holds(p, u, s)
  BY <1>1, InSeatCarries DEF InSeat, InStarted
<1>3. /\ startEvent' \in [Sessions -> Pools \cup {NoPool}]
      /\ startEvent'[s] # NoPool /\ startEvent'[s] \in {startEvent[s], p}
      /\ \A t \in Sessions : startEvent[t] # NoPool \/ t # s => startEvent'[t] = startEvent[t]
  BY <1>1, <1>2, StoreAssumption DEF SessionInv, TypeOK
<1>4. ClosesOnly /\ StoreInv' /\ rows' = rows
  BY <1>1, NoWriteClosesOnly DEF SessionInv, storeVars
<1>5. /\ call' \in [Calls -> CallRecords] /\ call'[c].pc = "enrol"
      /\ call'[c].session = call[c].session /\ call'[c].user = call[c].user /\ call'[c].pool = call[c].pool
      /\ \A d \in Calls : d # c => call'[d] = call[d]
  BY <1>1, Moves DEF SessionInv
<1>6. TypeOK'
  BY <1>1, <1>3, <1>4, <1>5 DEF SessionInv, TypeOK, StoreInv
<1>7. GoesOn
  BY <1>1, <1>3 DEF GoesOn
<1>8. CallOK(c)'
  <2>1. Holds(call[c].pool, call[c].user, call[c].session)' /\ Seated(call[c].user, call[c].session)'
    BY <1>2, <1>4, <1>5 DEF Holds, Seated, ReservedRows
  <2> QED
    BY <1>1, <1>2, <1>3, <1>5, <2>1 DEF CallOK, InSeat, InStarted, InFlight, SessionInv
<1>9. EventsOK'
  <2>1. Reserved(p, s) # {} /\ (p \in BilledOnStart => Closing(p, s) # {})
    BY <1>1, <1>2 DEF Holds, Reserved, ReservedRows, SessionInv, CallOK
  <2>2. ASSUME NEW t \in Sessions, startEvent'[t] # NoPool
        PROVE  Reserved(startEvent'[t], t) # {} /\ (startEvent'[t] \in BilledOnStart => Closing(startEvent'[t], t) # {})
    BY <1>3, <2>1, <2>2 DEF SessionInv, EventsOK, StartBilledOnce
  <2>3. NoPool \notin BilledOnStart
    BY SessionAssumption, StoreAssumption
  <2> QED
    BY <1>4, <2>2, <2>3 DEF EventsOK, StartBilledOnce, Reserved, Closing
<1> QED
  BY <1>1, <1>4, <1>5, <1>6, <1>7, <1>8, <1>9, StepKeeps

-----------------------------------------------------------------------------
(* The steps that write a roster row *)

LEMMA RosterStep ==
    ASSUME SessionInv, NEW c \in Calls, Goto(c, "done"), NEW u \in Users,
           NEW x \in RosterRows, roster' = [roster EXCEPT ![u] = x],
           holder' \in [Sessions -> Calls \cup {NoCall}],
           UNCHANGED <<storeVars, assignment, startEvent, engine, turns, orphan, closer>>,
           RosterOK(u)'
    PROVE  SessionInv'
<1>1. /\ call' \in [Calls -> CallRecords] /\ call'[c].pc = "done"
      /\ call'[c].session = call[c].session /\ call'[c].user = call[c].user /\ call'[c].pool = call[c].pool
      /\ \A d \in Calls : d # c => call'[d] = call[d]
  BY Moves DEF SessionInv, Phases
<1>2. ClosesOnly /\ StoreInv' /\ rows' = rows
  BY NoWriteClosesOnly DEF SessionInv, storeVars
<1>3. CallOK(c)'
  BY <1>2, MoveKeepsCall DEF InFlight, InSeat, InStarted, Phases
<1>4. TypeOK'
  BY <1>1, <1>2 DEF SessionInv, TypeOK, StoreInv
<1>5. \A v \in Users : roster'[v] = roster[v] \/ v = u
  BY DEF SessionInv, TypeOK
<1>6. GoesOn /\ EventsOK'
  BY <1>2, RestingEvents DEF GoesOn
<1>7. \A v \in Users : roster'[v] = roster[v] \/ RosterOK(v)'
  BY <1>5
<1> QED
  BY <1>1, <1>2, <1>3, <1>4, <1>6, <1>7, StepKeeps

LEMMA RosterSteps ==
    ASSUME SessionInv, NEW c \in Calls, AcknowledgeWrite(c) \/ StartEnrol(c) \/ SettleComplete(c)
    PROVE  SessionInv'
<1>1. call[c].pc \in InFlight /\ call[c].user \in Users /\ CallOK(c) /\ TypeOK
  BY DEF AcknowledgeWrite, StartEnrol, SettleComplete, SessionInv, CallOK, InFlight, InSeat, InStarted
<1>2. PICK u \in Users : u = call[c].user
  BY <1>1
<1>3. roster[u] \in RosterRows /\ RosterOK(u)
  BY <1>1 DEF TypeOK, SessionInv
<1>4. CASE AcknowledgeWrite(c)
  <2> DEFINE x == [roster[u] EXCEPT !.acked = TRUE, !.status = IF call[c].was = "ASSIGNED" THEN "ACKNOWLEDGED" ELSE @]
  <2>1. /\ x \in RosterRows /\ x.session = roster[u].session
        /\ x.status = "COMPLETED" => roster[u].status = "COMPLETED"
    BY <1>3 DEF RosterRows, Statuses
  <2>2. roster' = [roster EXCEPT ![u] = x] /\ roster'[u] = x
    BY <1>1, <1>2, <1>4 DEF AcknowledgeWrite, TypeOK
  <2>3. Goto(c, "done") /\ UNCHANGED <<storeVars, assignment, startEvent, engine, turns, orphan, holder, closer>>
    BY <1>4 DEF AcknowledgeWrite
  <2> HIDE DEF x
  <2>4. RosterOK(u)'
    BY <1>3, <2>1, <2>2, <2>3 DEF RosterOK, Seated, Holds, ReservedRows, IsOpen, Reserved, Closing, storeVars
  <2> QED
    BY <1>1, <2>1, <2>2, <2>3, <2>4, RosterStep DEF TypeOK
<1>5. CASE StartEnrol(c)
  <2> DEFINE x == [roster[u] EXCEPT !.status = "IN_PROGRESS", !.session = call[c].session]
  <2>1. call[c].pc = "enrol" /\ call[c].session \in Sessions /\ Holds(call[c].pool, u, call[c].session) /\ Seated(u, call[c].session)
    BY <1>1, <1>2, <1>5, InSeatCarries DEF StartEnrol, InSeat, InStarted, Seated
  <2>2. x \in RosterRows /\ x.session = call[c].session /\ x.status # "COMPLETED"
    BY <1>3, <2>1 DEF RosterRows, Statuses
  <2>3. roster' = [roster EXCEPT ![u] = x] /\ roster'[u] = x
    BY <1>1, <1>2, <1>5 DEF StartEnrol, TypeOK
  <2>4. /\ Goto(c, "done") /\ holder' = Free(c)
        /\ UNCHANGED <<storeVars, assignment, startEvent, engine, turns, orphan, closer>>
    BY <1>5 DEF StartEnrol, Leave
  <2> HIDE DEF x
  <2>5. RosterOK(u)'
    BY <1>1, <2>1, <2>2, <2>3, <2>4 DEF RosterOK, CallOK, InStarted, Seated, Holds, ReservedRows, storeVars
  <2> QED
    BY <1>1, <2>2, <2>3, <2>4, <2>5, RosterStep, Freed
<1>6. CASE SettleComplete(c)
  <2> DEFINE x == IF roster[u].status = "COMPLETED" THEN roster[u] ELSE [roster[u] EXCEPT !.status = "COMPLETED", !.session = call[c].session]
  <2>1. PICK p \in Pools, s \in Sessions :
          /\ call[c].pc = "complete" /\ s = call[c].session /\ p = call[c].pool /\ Holds(p, u, s) /\ Seated(u, s)
          /\ Closing(p, s) # {} /\ engine[s] # "none" /\ startEvent[s] # NoPool
    BY <1>1, <1>2, <1>6, InSeatCarries DEF SettleComplete, InSeat, InStarted, Seated, CallOK
  <2>2. x \in RosterRows /\ (x = roster[u] \/ (x.session = s /\ x.status = "COMPLETED"))
    BY <1>3, <2>1 DEF RosterRows, Statuses
  <2>3. roster' = [roster EXCEPT ![u] = x] /\ roster'[u] = x
    BY <1>1, <1>2, <1>6 DEF SettleComplete, TypeOK
  <2>4. Goto(c, "done") /\ UNCHANGED <<storeVars, assignment, startEvent, engine, turns, orphan, holder, closer>>
    BY <1>6 DEF SettleComplete
  <2> HIDE DEF x
  <2>5. \A q \in Pools : ~IsOpen(q, s)
    <3> SUFFICES ASSUME NEW q \in Pools, Reserved(q, s) # {} PROVE Closing(q, s) # {}
      BY DEF IsOpen
    <3>1. q = p
      BY <2>1 DEF Reserved, Holds, ReservedRows, SessionInv, SeatsFromStarts
    <3> QED
      BY <2>1, <3>1
  <2>6. RosterOK(u)'
    BY <1>3, <2>1, <2>2, <2>3, <2>4, <2>5 DEF RosterOK, Seated, Holds, ReservedRows, IsOpen, Reserved, Closing, storeVars
  <2> QED
    BY <1>1, <2>2, <2>3, <2>4, <2>6, RosterStep DEF TypeOK
<1> QED
  BY <1>4, <1>5, <1>6

-----------------------------------------------------------------------------
(* The engine, the closing sweep and a restart move no request forward *)

LEMMA EngineAlone ==
    ASSUME SessionInv, NEW s \in Sessions, LateEngineStart(s) \/ Turn(s) \/ Report(s)
    PROVE  SessionInv'
<1>1. /\ UNCHANGED <<storeVars, assignment, roster, startEvent, holder, call, closer>> /\ TypeOK
  BY DEF LateEngineStart, Turn, Report, SessionInv
<1>2. /\ engine' \in [Sessions -> {"none", "live", "reported"}] /\ turns' \in [Sessions -> 0..MaxTurns]
      /\ orphan' \subseteq Sessions /\ \A t \in Sessions : engine[t] # "none" => engine'[t] # "none"
  <2>1. CASE LateEngineStart(s)
    BY <1>1, <2>1, CreatedEngine DEF LateEngineStart, TypeOK
  <2>2. CASE Turn(s)
    BY <1>1, <2>2, SessionAssumption DEF Turn, TypeOK
  <2>3. CASE Report(s)
    BY <1>1, <2>3 DEF Report, TypeOK
  <2> QED
    BY <2>1, <2>2, <2>3
<1>3. TypeOK'
  BY <1>1, <1>2, NoWriteClosesOnly DEF SessionInv, TypeOK, StoreInv
<1> QED
  BY <1>1, <1>2, <1>3, NoRowStep

LEMMA SweepStep ==
    ASSUME SessionInv, Sweep
    PROVE  SessionInv'
<1>1. TypeOK
  BY DEF SessionInv
<1>2. /\ UNCHANGED <<roster, startEvent, engine, turns, orphan, holder, call>>
      /\ assignment' \in {"ACTIVE", "CLOSED", "CANCELLED"}
      /\ closer' \in [pc: {"idle", "list", "release", "swept"}, todo: SUBSET (Users \X Sessions)]
      /\ ClosesOnly /\ StoreInv'
  <2>1. ASSUME NEW st \in {"CLOSED", "CANCELLED"}, CloseMark(st) PROVE <1>2!:
    BY <1>1, <2>1, NoWriteClosesOnly DEF CloseMark, SessionInv, TypeOK
  <2>2. CASE CloseList
    BY <1>1, <2>2, NoWriteClosesOnly DEF CloseList, SessionInv, TypeOK, tables
  <2>3. CASE CloseDone
    BY <1>1, <2>3, NoWriteClosesOnly DEF CloseDone, SessionInv, TypeOK, tables
  <2>4. ASSUME NEW u \in Users, NEW s \in Sessions, CloseRelease(u, s) \/ CloseSkip(u, s) PROVE <1>2!:
    <3>1. /\ UNCHANGED <<tables, orphan, holder, call>>
          /\ closer' \in [pc: {"idle", "list", "release", "swept"}, todo: SUBSET (Users \X Sessions)]
      BY <1>1, <2>4 DEF CloseRelease, CloseSkip, TypeOK
    <3>2. CASE UNCHANGED storeVars
      BY <1>1, <3>1, <3>2, NoWriteClosesOnly DEF SessionInv, TypeOK, tables
    <3>3. CASE ~UNCHANGED storeVars
      <4>1. PICK p \in Pools : AppendReleased(p, u, s)
        BY <1>1, <2>4, <3>3 DEF CloseRelease, CloseSkip, TypeOK, AppendReleased, MayClose, Insert
      <4> QED
        BY <1>1, <3>1, <4>1, ReleaseClosesOnly DEF SessionInv, TypeOK, tables
    <3> QED
      BY <3>2, <3>3
  <2> QED
    BY <2>1, <2>2, <2>3, <2>4 DEF Sweep
<1>3. TypeOK'
  BY <1>1, <1>2 DEF TypeOK, StoreInv
<1>4. GoesOn /\ EventsOK'
  BY <1>2, RestingEvents DEF GoesOn
<1> QED
  BY <1>2, <1>3, <1>4, StepKeeps

LEMMA RestartStep ==
    ASSUME SessionInv, Restart
    PROVE  SessionInv'
<1>1. /\ call' = [c \in Calls |-> IF call[c].pc \in {"idle", "done"} THEN call[c] ELSE [call[c] EXCEPT !.pc = "failed"]]
      /\ UNCHANGED <<storeVars, tables>> /\ orphan' = {} /\ holder' = [s \in Sessions |-> NoCall]
      /\ closer' = IF closer.pc = "swept" THEN closer ELSE [pc |-> "idle", todo |-> {}]
      /\ TypeOK
  BY DEF Restart, SessionInv
<1>2. ASSUME NEW c \in Calls
      PROVE  /\ call'[c] \in CallRecords
             /\ call'[c] = call[c] \/ (CallOK(c)' /\ call'[c].pc \notin {"idle", "append"})
  <2>1. CASE call[c].pc \in {"idle", "done"}
    BY <1>1, <2>1 DEF TypeOK
  <2>2. CASE call[c].pc \notin {"idle", "done"}
    <3>1. call'[c] = [call[c] EXCEPT !.pc = "failed"] /\ call[c] \in CallRecords /\ CallOK(c)
      BY <1>1, <2>2 DEF TypeOK, SessionInv
    <3>2. /\ call'[c] \in CallRecords /\ call'[c].pc = "failed"
          /\ call'[c].user = call[c].user /\ call'[c].session = call[c].session
      BY <3>1 DEF CallRecords, Phases
    <3> QED
      BY <1>1, <3>1, <3>2 DEF CallOK, InSeat, InStarted, InFlight, Seated, Holds, ReservedRows, storeVars
  <2> QED
    BY <2>1, <2>2
<1>3. call' \in [Calls -> CallRecords]
  BY <1>1, <1>2
<1>4. TypeOK'
  BY <1>1, <1>3, NoWriteClosesOnly DEF SessionInv, TypeOK, StoreInv, tables
<1> QED
  BY <1>1, <1>2, <1>4, NoRowStep DEF tables

-----------------------------------------------------------------------------
(* Safety for every instance *)

LEMMA SessionStarts == Init => SessionInv
<1> SUFFICES ASSUME Init PROVE SessionInv
  OBVIOUS
<1>1. /\ rows = {} /\ assignment = "ACTIVE" /\ startEvent = [s \in Sessions |-> NoPool] /\ engine = [s \in Sessions |-> "none"]
      /\ turns = [s \in Sessions |-> 0] /\ orphan = {} /\ holder = [s \in Sessions |-> NoCall]
      /\ call = [c \in Calls |-> Idle] /\ closer = [pc |-> "idle", todo |-> {}] /\ roster \in [Users -> Rostered]
  BY DEF Init, StoreInit
<1>2. StoreInv
  BY StoreStarts DEF Init, PoolStatuses
<1>3. /\ Idle \in CallRecords /\ Idle.pc = "idle" /\ Idle.session = NoSession
      /\ \A x \in Rostered : x \in RosterRows /\ x.session = NoSession /\ x.status # "COMPLETED"
  BY DEF Idle, CallRecords, Phases, Statuses, Rostered, RosterRows
<1>4. TypeOK
  BY <1>1, <1>2, <1>3, SessionAssumption DEF TypeOK, StoreInv
<1>5. SeatsFromStarts
  BY <1>1 DEF SeatsFromStarts, ReservedRows
<1>6. \A c \in Calls : CallOK(c)
  BY <1>1, <1>3 DEF CallOK, InFlight, InSeat, InStarted
<1>7. EventsOK
  BY <1>1, SessionAssumption, StoreAssumption DEF EventsOK, StartBilledOnce
<1>8. \A u \in Users : RosterOK(u)
  BY <1>1, <1>3 DEF RosterOK
<1> QED
  BY <1>2, <1>4, <1>5, <1>6, <1>7, <1>8 DEF SessionInv

LEMMA SessionStep == SessionInv /\ [Next]_vars => SessionInv'
<1> SUFFICES ASSUME SessionInv, [Next]_vars PROVE SessionInv'
  OBVIOUS
<1>1. ASSUME NEW c \in Calls, Begin(c) \/ AcknowledgeWrite(c) \/ InStart(c) \/ InSettle(c) \/ Fails(c) PROVE SessionInv'
  BY <1>1, BeginStep, AppendStep, LockStep, EngineStep, CloseSteps, RecordStep, RosterSteps, FailsStep DEF InStart, InSettle
<1>2. ASSUME NEW s \in Sessions, LateEngineStart(s) \/ Turn(s) \/ Report(s) PROVE SessionInv'
  BY <1>2, EngineAlone
<1>3. CASE UNCHANGED vars
  <2>1. UNCHANGED <<storeVars, tables, orphan, holder, call, closer>>
    BY <1>3 DEF vars, storeVars, tables
  <2>2. TypeOK'
    BY <2>1, NoWriteClosesOnly DEF SessionInv, TypeOK, StoreInv, tables
  <2> QED
    BY <2>1, <2>2, NoRowStep DEF tables
<1> QED
  BY <1>1, <1>2, <1>3, SweepStep, RestartStep DEF Next

LEMMA SessionInvariant == Spec => []SessionInv
BY SessionStarts, SessionStep, PTL DEF Spec

\* Every table and every request keeps its type, and the ledger's counter and
\* outcomes stay exact whatever the session service does around them.
THEOREM SessionTypeCorrect == Spec => [](TypeOK /\ HeldCountsSeats /\ OneOutcomePerSeat)
<1>1. SessionInv => TypeOK /\ HeldCountsSeats /\ OneOutcomePerSeat
  BY DEF SessionInv, StoreInv
<1> QED
  BY <1>1, SessionInvariant, PTL

\* However many tabs, retries and restarts there are, a student's starts all
\* land on one session, the one on the roster (sessionService.js start).
THEOREM StartsLandOnOneSession == Spec => []OneSessionPerStudent
<1>1. SessionInv => OneSessionPerStudent
  <2> SUFFICES ASSUME SessionInv PROVE OneSessionPerStudent
    OBVIOUS
  <2>1. \A u \in Users, s, t \in Sessions : Seated(u, s) /\ Seated(u, t) => s = t
    BY OneSeatPerUser DEF SessionInv, Seated, Holds
  <2>2. \A c \in Calls : call[c].session # NoSession => /\ call[c].session \in Sessions /\ call[c].user \in Users
                                                        /\ Seated(call[c].user, call[c].session)
    BY DEF SessionInv, TypeOK, CallRecords, CallOK
  <2>3. \A u \in Users : roster[u].session # NoSession => roster[u].session \in Sessions /\ Seated(u, roster[u].session)
    BY DEF SessionInv, TypeOK, RosterRows, RosterOK
  <2> QED
    BY <2>1, <2>2, <2>3 DEF OneSessionPerStudent
<1> QED
  BY <1>1, SessionInvariant, PTL

\* Settling marks a student COMPLETED only once the seat is closed, and nothing
\* opens it again (sessionService.js settle).
LEMMA CompletedSeatsAreClosed == Spec => []CompletedSeatIsClosed
<1>1. SessionInv => CompletedSeatIsClosed
  BY DEF SessionInv, RosterOK, CompletedSeatIsClosed
<1> QED
  BY <1>1, SessionInvariant, PTL

\* A session on the roster is one the engine has, recorded against the seat
\* that its student reserved.
LEMMA RosterNamesRealSessions == Spec => []RosterMatchesEngine
<1>1. SessionInv => RosterMatchesEngine
  <2> SUFFICES ASSUME SessionInv, NEW u \in Users, NEW s \in Sessions, s = roster[u].session
               PROVE  engine[s] # "none" /\ startEvent[s] # NoPool /\ \E r \in Reserved(startEvent[s], s) : r.user = u
    BY StoreAssumption DEF RosterMatchesEngine, SessionInv, TypeOK, RosterRows
  <2>1. engine[s] # "none" /\ startEvent[s] # NoPool /\ Seated(u, s)
    BY StoreAssumption DEF SessionInv, RosterOK
  <2>2. PICK r \in ReservedRows : r.user = u /\ r.session = s
    BY <2>1 DEF Seated, Holds
  <2>3. PICK q \in ReservedRows : q.pool = startEvent[s] /\ q.session = s
    BY <2>1 DEF SessionInv, EventsOK, Reserved, ReservedRows
  <2>4. q = r
    BY <2>2, <2>3 DEF SessionInv, SeatsFromStarts
  <2> QED
    BY <2>1, <2>2, <2>3, <2>4 DEF Reserved, ReservedRows
<1> QED
  BY <1>1, SessionInvariant, PTL

\* What the roster says of a session is so, wherever a start or a settlement
\* stops and whatever a sweep does meanwhile (sessionService.js start, settle).
THEOREM RosterIsSound == Spec => []RosterSound
BY CompletedSeatsAreClosed, RosterNamesRealSessions, PTL DEF RosterSound

\* Where a contract bills the start, no recorded start leaves its seat open.
THEOREM StartsAreBilled == Spec => []StartBilledOnce
<1>1. SessionInv => StartBilledOnce
  BY DEF SessionInv, EventsOK
<1> QED
  BY <1>1, SessionInvariant, PTL

-----------------------------------------------------------------------------
(* The lock, as long as no engine handler outlives its invoker *)

\* A step at which nobody enters the lock and the engine rests.
LEMMA LockRests ==
    ASSUME LockInv, UNCHANGED <<engine, turns, orphan, holder>>,
           \A d \in Calls : \/ call'[d] = call[d] \/ call'[d].pc \notin InLock
                            \/ call[d].pc \in InLock /\ call'[d].session = call[d].session /\ call'[d].pc # "starting"
    PROVE  LockInv'
<1>1. ASSUME NEW d \in Calls, call'[d].pc \in InLock
      PROVE  call[d].pc \in InLock /\ call'[d].session = call[d].session /\ (call'[d].pc = "starting" => call[d].pc = "starting")
  BY <1>1
<1> QED
  BY <1>1 DEF LockInv, InLock

\* A request that leaves passes on no lock but its own.
LEMMA LeaveRests ==
    ASSUME SessionInv, LockInv, NEW c \in Calls, NEW pc \in {"done", "failed"}, Leave(c, pc), UNCHANGED <<engine, turns, orphan>>
    PROVE  LockInv'
<1>1. call'[c].pc = pc /\ holder' = Free(c) /\ \A d \in Calls : d # c => call'[d] = call[d]
  BY Moves DEF Leave, SessionInv, Phases
<1>2. ASSUME NEW d \in Calls, call'[d].pc \in InLock
      PROVE  d # c /\ call'[d] = call[d] /\ call[d].session \in Sessions /\ holder'[call[d].session] = d
  <2>1. d # c /\ call'[d] = call[d]
    BY <1>1, <1>2 DEF InLock
  <2>2. call[d].session \in Sessions /\ holder[call[d].session] = d
    BY <1>2, <2>1, InSeatCarries DEF LockInv, InLock, InSeat, InStarted
  <2> QED
    BY <1>1, <2>1, <2>2 DEF Free
<1>3. ASSUME NEW d \in Calls, call'[d].pc = "starting" PROVE engine'[call'[d].session] = "none"
  BY <1>2, <1>3 DEF LockInv, InLock
<1> QED
  BY <1>2, <1>3 DEF LockInv

LEMMA LockBegins ==
    ASSUME SessionInv, LockInv, NEW c \in Calls, Begin(c)
    PROVE  LockInv'
<1>1. ASSUME NEW k, call' = [call EXCEPT ![c] = k], k.pc \notin InLock
      PROVE  \A d \in Calls : call'[d] = call[d] \/ call'[d].pc \notin InLock
  BY <1>1 DEF SessionInv, TypeOK
<1>2. \A d \in Calls : call'[d] = call[d] \/ call'[d].pc \notin InLock
  <2>1. ASSUME NEW u \in Users, AcknowledgeRead(c, u) PROVE <1>2!:
    BY <1>1, <2>1 DEF AcknowledgeRead, Idle, InLock
  <2>2. ASSUME NEW u \in Users, StartResumed(c, u) PROVE <1>2!:
    BY <1>1, <2>2 DEF StartResumed, Idle, InLock
  <2>3. ASSUME NEW u \in Users, StartReads(c, u) PROVE <1>2!:
    BY <1>1, <2>3 DEF StartReads, Idle, InLock
  <2>4. ASSUME NEW u \in Users, NEW s \in Sessions, SettleRead(c, u, s) PROVE <1>2!:
    BY <1>1, <2>4 DEF SettleRead, Idle, InLock
  <2> QED
    BY <2>1, <2>2, <2>3, <2>4 DEF Begin
<1>3. UNCHANGED <<engine, turns, orphan, holder>>
  BY DEF Begin, AcknowledgeRead, StartResumed, StartReads, SettleRead, tables
<1> QED
  BY <1>2, <1>3, LockRests

LEMMA LockMoves ==
    ASSUME SessionInv, LockInv, NEW c \in Calls, StartLock(c) \/ StartLocked(c) \/ StartEngine(c)
    PROVE  LockInv'
<1>1. call[c].pc \in InSeat /\ TypeOK
  BY DEF StartLock, StartLocked, StartEngine, InSeat, SessionInv
<1>2. PICK s \in Sessions : s = call[c].session
  BY <1>1, InSeatCarries
<1>3. \A d \in Calls : call[d].pc \in InLock => call[d].session \in Sessions /\ holder[call[d].session] = d
  BY InSeatCarries DEF LockInv, InLock, InSeat, InStarted
<1>4. CASE StartLock(c)
  <2>1. Goto(c, "locked") /\ holder[s] = NoCall /\ holder' = [holder EXCEPT ![s] = c] /\ UNCHANGED <<engine, turns, orphan>>
    BY <1>2, <1>4 DEF StartLock, tables
  <2>2. call'[c].pc = "locked" /\ call'[c].session = s /\ \A d \in Calls : d # c => call'[d] = call[d]
    BY <1>1, <1>2, <2>1, Moves DEF Phases
  <2>3. ASSUME NEW d \in Calls, call'[d].pc \in InLock PROVE holder'[call'[d].session] = d
    <3>1. CASE d = c
      BY <1>1, <2>1, <2>2, <3>1 DEF TypeOK
    <3>2. CASE d # c
      BY <1>1, <1>3, <2>1, <2>2, <2>3, <3>2, SessionAssumption DEF TypeOK
    <3> QED
      BY <3>1, <3>2
  <2> QED
    BY <2>1, <2>2, <2>3 DEF LockInv
<1>5. CASE StartLocked(c)
  <2>1. CASE Leave(c, "done")
    BY <1>5, <2>1, LeaveRests DEF StartLocked, tables
  <2>2. CASE Goto(c, "finalize") /\ UNCHANGED holder
    <3>1. call[c].pc \in InLock /\ UNCHANGED <<engine, turns, orphan, holder>>
      BY <1>5, <2>2 DEF StartLocked, tables, InLock
    <3> QED
      BY <1>1, <2>2, <3>1, Moves, LockRests DEF Phases
  <2>3. CASE engine[s] = "none" /\ Goto(c, "starting") /\ UNCHANGED holder
    <3>1. call[c].pc \in InLock /\ UNCHANGED <<engine, turns, orphan, holder>>
      BY <1>5, <2>3 DEF StartLocked, tables, InLock
    <3>2. call'[c].pc = "starting" /\ call'[c].session = s /\ \A d \in Calls : d # c => call'[d] = call[d]
      BY <1>1, <1>2, <2>3, Moves DEF Phases
    <3> QED
      BY <1>2, <2>3, <3>1, <3>2 DEF LockInv
  <2> QED
    BY <1>2, <1>5, <2>1, <2>2, <2>3 DEF StartLocked
<1>6. CASE StartEngine(c)
  <2>1. /\ call[c].pc = "starting" /\ Goto(c, "finalize") /\ UNCHANGED <<orphan, holder>>
        /\ engine' = [engine EXCEPT ![s] = IF @ = "none" THEN "live" ELSE @] /\ turns' = [turns EXCEPT ![s] = 0]
    BY <1>2, <1>6 DEF StartEngine, EngineCreates
  <2>2. call'[c].pc = "finalize" /\ call'[c].session = s /\ \A d \in Calls : d # c => call'[d] = call[d]
    BY <1>1, <1>2, <2>1, Moves DEF Phases
  <2>3. \A d \in Calls : call'[d].pc \in InLock => holder'[call'[d].session] = d
    BY <1>2, <1>3, <2>1, <2>2 DEF InLock
  <2>4. ASSUME NEW d \in Calls, call'[d].pc = "starting" PROVE engine'[call'[d].session] = "none"
    <3>1. d # c /\ call'[d] = call[d]
      BY <2>2, <2>4
    <3>2. call[d].session \in Sessions /\ call[d].session # s
      BY <1>2, <1>3, <2>1, <2>4, <3>1 DEF InLock
    <3> QED
      BY <1>1, <2>1, <2>4, <3>1, <3>2 DEF LockInv, TypeOK
  <2>5. \A t \in Sessions : engine'[t] = "none" => turns'[t] = 0
    BY <1>1, <2>1 DEF LockInv, TypeOK
  <2> QED
    BY <2>1, <2>3, <2>4, <2>5 DEF LockInv
<1> QED
  BY <1>4, <1>5, <1>6

\* The requests that write rows, events and the roster, under the lock or outside it.
LEMMA LockWrites ==
    ASSUME SessionInv, LockInv, NEW c \in Calls,
           StartAppend(c) \/ StartFinalize(c) \/ StartRecord(c) \/ StartEnrol(c) \/ InSettle(c) \/ AcknowledgeWrite(c) \/ Fails(c)
    PROVE  LockInv'
<1>1. TypeOK
  BY DEF SessionInv
<1>2. CASE StartAppend(c)
  <2>1. PICK k : call' = [call EXCEPT ![c] = k] /\ k.pc \notin InLock
    <3>1. ASSUME NEW q, NEW s, call' = [call EXCEPT ![c].pc = "lock", ![c].pool = q, ![c].session = s]
          PROVE  \E k : call' = [call EXCEPT ![c] = k] /\ k.pc \notin InLock
      <4> WITNESS [call[c] EXCEPT !.pc = "lock", !.pool = q, !.session = s]
      <4> QED
        BY <1>1, <3>1 DEF TypeOK, CallRecords, InLock
    <3>2. ASSUME Goto(c, "failed") PROVE \E k : call' = [call EXCEPT ![c] = k] /\ k.pc \notin InLock
      <4> WITNESS [call[c] EXCEPT !.pc = "failed"]
      <4> QED
        BY <1>1, <3>2 DEF TypeOK, CallRecords, InLock, Goto
    <3> QED
      BY <1>2, <3>1, <3>2 DEF StartAppend
  <2>2. UNCHANGED <<engine, turns, orphan, holder>>
    BY <1>2 DEF StartAppend, tables
  <2> QED
    BY <1>1, <2>1, <2>2, LockRests DEF TypeOK
<1>3. CASE StartFinalize(c) \/ StartRecord(c)
  <2>1. PICK pc \in {"record", "enrol"} : Goto(c, pc)
    BY <1>3 DEF StartFinalize, StartRecord
  <2>2. call[c].pc \in InLock /\ UNCHANGED <<engine, turns, orphan, holder>>
    BY <1>3 DEF StartFinalize, StartRecord, tables, InLock
  <2> QED
    BY <1>1, <2>1, <2>2, Moves, LockRests DEF Phases
<1>4. CASE StartEnrol(c) \/ Fails(c)
  BY <1>4, LeaveRests DEF StartEnrol, Fails, tables
<1>5. CASE InSettle(c) \/ AcknowledgeWrite(c)
  <2>1. PICK pc \in {"complete", "done"} : Goto(c, pc)
    BY <1>5 DEF InSettle, SettleConsume, SettleComplete, AcknowledgeWrite
  <2>2. UNCHANGED <<engine, turns, orphan, holder>>
    BY <1>5 DEF InSettle, SettleConsume, SettleComplete, AcknowledgeWrite, tables
  <2> QED
    BY <1>1, <2>1, <2>2, Moves, LockRests DEF Phases, InLock
<1> QED
  BY <1>2, <1>3, <1>4, <1>5

LEMMA LockHolds ==
    ASSUME ~EngineTimeouts
    PROVE  SessionInv /\ LockInv /\ [Next]_vars => LockInv'
<1> SUFFICES ASSUME SessionInv, LockInv, [Next]_vars PROVE LockInv'
  OBVIOUS
<1>1. TypeOK
  BY DEF SessionInv
<1>2. ASSUME NEW c \in Calls, Begin(c) \/ AcknowledgeWrite(c) \/ InStart(c) \/ InSettle(c) \/ Fails(c) PROVE LockInv'
  BY <1>2, LockBegins, LockMoves, LockWrites DEF InStart, StartEngineTimesOut
<1>3. ASSUME NEW s \in Sessions, LateEngineStart(s) \/ Turn(s) \/ Report(s) PROVE LockInv'
  <2>1. UNCHANGED <<orphan, holder, call>> /\ (Turn(s) \/ Report(s)) /\ engine[s] = "live"
    BY <1>3 DEF LateEngineStart, Turn, Report, LockInv
  <2>2. \A t \in Sessions : engine[t] = engine'[t] \/ (t = s /\ engine'[t] = "reported")
    BY <1>1, <2>1 DEF Turn, Report, TypeOK
  <2>3. \A t \in Sessions : turns[t] = turns'[t] \/ t = s
    BY <1>1, <2>1 DEF Turn, Report, TypeOK
  <2>4. engine'[s] # "none"
    BY <2>1, <2>2
  <2>5. \A c \in Calls : call[c].pc = "starting" => call[c].session \in Sessions
    BY InSeatCarries DEF InSeat
  <2> QED
    BY <2>1, <2>2, <2>3, <2>4, <2>5 DEF LockInv
<1>4. CASE Sweep
  <2>1. UNCHANGED <<engine, turns, orphan, holder, call>>
    BY <1>4 DEF Sweep, CloseMark, CloseList, CloseDone, CloseRelease, CloseSkip, tables
  <2> QED
    BY <2>1, LockRests
<1>5. CASE Restart
  <2>1. \A c \in Calls : call'[c].pc \notin InLock
    BY <1>1, <1>5 DEF Restart, InLock, TypeOK, CallRecords
  <2>2. UNCHANGED <<engine, turns>> /\ orphan' = {}
    BY <1>5 DEF Restart, tables
  <2> QED
    BY <2>1, <2>2 DEF LockInv, InLock
<1>6. CASE UNCHANGED vars
  BY <1>6, LockRests DEF vars
<1> QED
  BY <1>2, <1>3, <1>4, <1>5, <1>6 DEF Next

\* While no engine call outlives its invoker, no retry, second tab or restart
\* starts the engine again over the turns a session has (sessionService.js start).
THEOREM ProgressIsNeverWiped ==
    ASSUME ~EngineTimeouts
    PROVE  Spec => ProgressIsKept
<1> DEFINE Grows == \A s \in Sessions : turns'[s] >= turns[s]
<1>1. Init => LockInv
  BY DEF Init, Idle, LockInv, InLock
<1>2. SessionInv /\ LockInv /\ [Next]_vars => LockInv'
  BY LockHolds
<1>3. SessionInv /\ LockInv /\ [Next]_vars => [Grows]_turns
  <2> SUFFICES ASSUME SessionInv, LockInv, [Next]_vars, turns' # turns PROVE Grows
    OBVIOUS
  <2>1. turns \in [Sessions -> 0..MaxTurns] /\ engine \in [Sessions -> {"none", "live", "reported"}]
    BY DEF SessionInv, TypeOK
  <2>2. (\E c \in Calls : StartEngine(c)) \/ (\E s \in Sessions : Turn(s))
    BY DEF Next, Begin, AcknowledgeRead, StartResumed, StartReads, SettleRead, AcknowledgeWrite, InStart, StartAppend,
           StartLock, StartLocked, StartEngineTimesOut, StartFinalize, StartRecord, StartEnrol, InSettle, SettleConsume,
           SettleComplete, Fails, LateEngineStart, LockInv, Report, Sweep, CloseMark, CloseList, CloseDone, CloseRelease,
           CloseSkip, Restart, tables, vars
  <2>3. ASSUME NEW c \in Calls, StartEngine(c) PROVE Grows
    <3>1. call[c].session \in Sessions /\ engine[call[c].session] = "none"
      BY <2>3, InSeatCarries DEF StartEngine, InSeat, LockInv
    <3> QED
      BY <2>1, <2>3, <3>1, SessionAssumption DEF StartEngine, EngineCreates, LockInv
  <2>4. ASSUME NEW s \in Sessions, Turn(s) PROVE Grows
    BY <2>1, <2>4, SessionAssumption DEF Turn
  <2> QED
    BY <2>2, <2>3, <2>4
<1> QED
  BY <1>1, <1>2, <1>3, SessionInvariant, PTL DEF Spec, ProgressIsKept

-----------------------------------------------------------------------------
(* The order of an assessment *)

\* A step keeps the order if what it adds comes after what must be there.
LEMMA OrderKept ==
    ASSUME SessionInv, OrderInv,
           \A u \in Users, s \in Sessions : Seated(u, s) => Seated(u, s)',
           \A s \in Sessions : engine'[s] # "none" \/ s \in orphan' =>
               engine[s] # "none" \/ s \in orphan \/ \E u \in Users : Seated(u, s)',
           \A s \in Sessions : (engine[s] # "none" => engine'[s] # "none") /\ (engine[s] = "reported" => engine'[s] = "reported"),
           \A u \in Users : roster[u].acked => roster'[u].acked,
           \A r \in ReservedRows' : r \in ReservedRows \/ roster'[r.user].acked,
           \A u \in Users : roster'[u].status = "COMPLETED" =>
               (roster[u].status = "COMPLETED" /\ roster'[u].session = roster[u].session) \/ roster'[u].session # NoSession,
           \A c \in Calls : call'[c] = call[c] \/
               /\ call'[c].pc = "append" => roster'[call'[c].user].acked
               /\ call'[c].pc \in {"consume", "complete"} => engine'[call'[c].session] = "reported",
           closer'.pc \in {"list", "release"} =>
               (closer.pc \in {"list", "release"} /\ assignment' = assignment) \/ assignment' # "ACTIVE",
           \A us \in closer'.todo : us \in closer.todo \/ (Seated(us[1], us[2])' /\ engine'[us[2]] # "none")
    PROVE  OrderInv'
<1>1. \A r \in ReservedRows : r.user \in Users
  BY OneSeatPerUser DEF SessionInv
<1>2. \A c \in Calls : /\ call[c].pc = "append" => call[c].user \in Users
                       /\ call[c].pc \in {"consume", "complete"} => call[c].session \in Sessions
  BY InSeatCarries DEF SessionInv, CallOK, InFlight, InSeat, InStarted
<1>3. \A us \in closer.todo : us[1] \in Users /\ us[2] \in Sessions
  BY DEF SessionInv, TypeOK
<1>4. \A s \in Sessions : engine'[s] # "none" \/ s \in orphan' => \E u \in Users : Seated(u, s)'
  BY DEF OrderInv
<1>5. \A r \in ReservedRows' : roster'[r.user].acked
  BY <1>1 DEF OrderInv
<1>6. \A u \in Users : roster'[u].status = "COMPLETED" => roster'[u].session # NoSession
  BY DEF OrderInv
<1>7. \A c \in Calls : call'[c].pc = "append" => roster'[call'[c].user].acked
  BY <1>2 DEF OrderInv
<1>8. \A c \in Calls : call'[c].pc \in {"consume", "complete"} => engine'[call'[c].session] = "reported"
  BY <1>2 DEF OrderInv
<1>9. \A us \in closer'.todo : Seated(us[1], us[2])' /\ engine'[us[2]] # "none"
  BY <1>3 DEF OrderInv
<1>10. closer'.pc \in {"list", "release"} => assignment' # "ACTIVE"
  BY DEF OrderInv
<1> QED
  BY <1>4, <1>5, <1>6, <1>7, <1>8, <1>9, <1>10 DEF OrderInv

\* Where no seat is taken, seats stay.
LEMMA SeatsStay ==
    ASSUME ReservedRows' = ReservedRows
    PROVE  \A u \in Users, s \in Sessions : Seated(u, s)' = Seated(u, s)
BY DEF Seated, Holds

\* A step that takes no seat, starts no session and moves no sweep keeps the
\* order if the requests it moves stand where they may.
LEMMA QuietOrder ==
    ASSUME SessionInv, OrderInv, ReservedRows' = ReservedRows, UNCHANGED <<assignment, roster, closer, engine>>,
           \A s \in orphan' : s \in orphan \/ \E u \in Users : Seated(u, s),
           \A c \in Calls : call'[c] = call[c] \/
               /\ call'[c].pc = "append" => roster[call'[c].user].acked
               /\ call'[c].pc \in {"consume", "complete"} => engine[call'[c].session] = "reported"
    PROVE  OrderInv'
<1>1. \A u \in Users, s \in Sessions : Seated(u, s)' = Seated(u, s)
  BY SeatsStay
<1>2. \A s \in Sessions : engine'[s] # "none" \/ s \in orphan' =>
        engine[s] # "none" \/ s \in orphan \/ \E u \in Users : Seated(u, s)'
  BY <1>1
<1> QED
  BY <1>1, <1>2, OrderKept

LEMMA OrderBegins ==
    ASSUME SessionInv, OrderInv, NEW c \in Calls, Begin(c)
    PROVE  OrderInv'
<1>1. call \in [Calls -> CallRecords]
  BY DEF SessionInv, TypeOK
<1>2. PICK k : call' = [call EXCEPT ![c] = k]
  <2>1. ASSUME NEW u \in Users, AcknowledgeRead(c, u) \/ StartResumed(c, u) \/ StartReads(c, u)
        PROVE  \E k : call' = [call EXCEPT ![c] = k]
    BY <2>1, Zenon DEF AcknowledgeRead, StartResumed, StartReads
  <2>2. ASSUME NEW u \in Users, NEW s \in Sessions, SettleRead(c, u, s)
        PROVE  \E k : call' = [call EXCEPT ![c] = k]
    BY <2>2, Zenon DEF SettleRead
  <2> QED
    BY <2>1, <2>2 DEF Begin
<1>3. UNCHANGED <<storeVars, tables, orphan, closer>>
  BY DEF Begin, AcknowledgeRead, StartResumed, StartReads, SettleRead
<1>4. /\ k.pc = "append" => roster[k.user].acked
      /\ k.pc \in {"consume", "complete"} => engine[k.session] = "reported"
  <2>1. ASSUME NEW u \in Users, AcknowledgeRead(c, u) \/ StartResumed(c, u) PROVE k.pc \notin {"append", "consume", "complete"}
    <3>1. call'[c].pc \in {"acking", "done"}
      BY <1>1, <2>1 DEF AcknowledgeRead, StartResumed, Idle
    <3> QED
      BY <1>1, <1>2, <3>1
  <2>2. ASSUME NEW u \in Users, StartReads(c, u)
        PROVE  k.pc \notin {"consume", "complete"} /\ (k.pc = "append" => k.user = u /\ roster[u].acked)
    <3>1. call'[c] = k /\ roster[u].acked
      BY <1>1, <1>2, <2>2 DEF StartReads
    <3>2. PICK pc, p, s : call' = [call EXCEPT ![c] = [Idle EXCEPT !.pc = pc, !.user = u, !.pool = p, !.session = s]] /\ pc \in {"lock", "append"}
      BY <2>2, Zenon DEF StartReads
    <3>3. k = [Idle EXCEPT !.pc = pc, !.user = u, !.pool = p, !.session = s]
      BY <1>1, <3>1, <3>2
    <3> QED
      BY <3>1, <3>2, <3>3 DEF Idle
  <2>3. ASSUME NEW u \in Users, NEW s \in Sessions, SettleRead(c, u, s)
        PROVE  k.pc = "consume" /\ k.session = s /\ engine[s] = "reported"
    <3>1. call'[c].pc = "consume" /\ call'[c].session = s /\ engine[s] = "reported"
      BY <1>1, <2>3 DEF SettleRead, Idle
    <3> QED
      BY <1>1, <1>2, <3>1
  <2> QED
    BY <2>1, <2>2, <2>3 DEF Begin
<1>5. \A d \in Calls : call'[d] = call[d] \/ call'[d] = k
  BY <1>1, <1>2
<1> QED
  BY <1>3, <1>4, <1>5, QuietOrder DEF tables, storeVars, ReservedRows

LEMMA OrderQuietMoves ==
    ASSUME SessionInv, OrderInv, NEW c \in Calls,
           StartLock(c) \/ StartLocked(c) \/ StartEngineTimesOut(c) \/ StartRecord(c) \/ Fails(c)
             \/ StartFinalize(c) \/ SettleConsume(c)
    PROVE  OrderInv'
<1>1. PICK pc \in Phases \ {"append", "consume"} :
        Goto(c, pc) /\ (pc = "complete" => call[c].pc = "consume")
  BY DEF StartLock, StartLocked, StartEngineTimesOut, StartRecord, Fails, StartFinalize, SettleConsume, Leave, Phases
<1>2. call'[c].pc = pc /\ call'[c].session = call[c].session /\ \A d \in Calls : d # c => call'[d] = call[d]
  BY <1>1, Moves DEF SessionInv
<1>3. UNCHANGED <<assignment, roster, engine, closer>>
  BY DEF StartLock, StartLocked, StartEngineTimesOut, StartRecord, Fails, StartFinalize, SettleConsume, tables
<1>4. ReservedRows' = ReservedRows
  <2>1. CASE StartFinalize(c) \/ SettleConsume(c)
    <3>1. call[c].pool \in Pools /\ call[c].user \in Users /\ call[c].session \in Sessions
      BY <2>1, InSeatCarries DEF StartFinalize, SettleConsume, InSeat, InStarted
    <3>2. UNCHANGED storeVars \/ AppendConsumed(call[c].pool, call[c].user, call[c].session)
      BY <2>1 DEF StartFinalize, SettleConsume
    <3> QED
      BY <3>1, <3>2, ConsumeClosesOnly, NoWriteClosesOnly DEF SessionInv, ClosesOnly
  <2>2. CASE ~(StartFinalize(c) \/ SettleConsume(c))
    BY <2>2 DEF StartLock, StartLocked, StartEngineTimesOut, StartRecord, Fails, storeVars, ReservedRows
  <2> QED
    BY <2>1, <2>2
<1>5. \A s \in orphan' : s \in orphan \/ \E u \in Users : Seated(u, s)
  <2>1. CASE StartEngineTimesOut(c)
    BY <2>1, InSeatCarries DEF StartEngineTimesOut, InSeat, Seated
  <2>2. CASE ~StartEngineTimesOut(c)
    BY <2>2 DEF StartLock, StartLocked, StartRecord, Fails, StartFinalize, SettleConsume
  <2> QED
    BY <2>1, <2>2
<1>6. call'[c].pc \in {"consume", "complete"} => engine[call'[c].session] = "reported"
  BY <1>1, <1>2 DEF OrderInv
<1> QED
  BY <1>1, <1>2, <1>3, <1>4, <1>5, <1>6, QuietOrder

LEMMA OrderAppends ==
    ASSUME SessionInv, OrderInv, NEW c \in Calls, StartAppend(c)
    PROVE  OrderInv'
<1> DEFINE u == call[c].user
           s == SessionOf[c]
<1>1. call[c].pc = "append" /\ u \in Users /\ roster[u].acked /\ UNCHANGED <<tables, orphan, closer>>
  BY DEF StartAppend, SessionInv, CallOK, InFlight, OrderInv
<1>2. \A d \in Calls : call'[d] = call[d] \/ call'[d].pc \in {"lock", "failed"}
  <2>1. call \in [Calls -> CallRecords]
    BY DEF SessionInv, TypeOK
  <2>2. ASSUME NEW p, NEW t, call' = [call EXCEPT ![c].pc = "lock", ![c].pool = p, ![c].session = t] PROVE <1>2!:
    BY <2>1, <2>2 DEF CallRecords
  <2>3. ASSUME Goto(c, "failed") PROVE <1>2!:
    BY <2>1, <2>3 DEF Goto, CallRecords
  <2> QED
    BY <2>2, <2>3, Zenon DEF StartAppend
<1>3. CASE UNCHANGED storeVars
  BY <1>1, <1>2, <1>3, QuietOrder DEF tables, storeVars, ReservedRows
<1>4. CASE AppendReserved(call[c].pool, u, s, ReserveKey(u, Assignment))
  <2> DEFINE row == [pool |-> call[c].pool, user |-> u, session |-> s, event |-> "RESERVED", key |-> ReserveKey(u, Assignment)]
  <2>1. rows' = rows \cup {row} /\ row.user = u
    BY <1>4 DEF AppendReserved, Insert
  <2> HIDE DEF row
  <2>2. \A r \in ReservedRows' : r \in ReservedRows \/ r.user = u
    BY <2>1 DEF ReservedRows
  <2>3. \A v \in Users, t \in Sessions : Seated(v, t) => Seated(v, t)'
    BY <2>1 DEF Seated, Holds, ReservedRows
  <2>4. assignment' = assignment /\ roster' = roster /\ engine' = engine /\ orphan' = orphan /\ closer' = closer
    BY <1>1 DEF tables
  <2> QED
    BY <1>1, <1>2, <2>2, <2>3, <2>4, OrderKept
<1> QED
  BY <1>3, <1>4 DEF StartAppend

LEMMA OrderRosterWrites ==
    ASSUME SessionInv, OrderInv, NEW c \in Calls, AcknowledgeWrite(c) \/ StartEnrol(c) \/ SettleComplete(c)
    PROVE  OrderInv'
<1>1. Goto(c, "done") /\ UNCHANGED <<storeVars, assignment, engine, orphan, closer>>
  BY DEF AcknowledgeWrite, StartEnrol, SettleComplete, Leave
<1>2. call'[c].pc = "done" /\ \A d \in Calls : d # c => call'[d] = call[d]
  BY <1>1, Moves DEF SessionInv, Phases
<1>3. PICK u \in Users : u = call[c].user
  BY DEF AcknowledgeWrite, StartEnrol, SettleComplete, SessionInv, CallOK, InFlight, InSeat, InStarted
<1>4. roster \in [Users -> RosterRows]
  BY DEF SessionInv, TypeOK
<1>5. PICK x \in RosterRows :
        /\ roster' = [roster EXCEPT ![u] = x]
        /\ roster[u].acked => x.acked
        /\ x.status = "COMPLETED" => (roster[u].status = "COMPLETED" /\ x.session = roster[u].session) \/ x.session # NoSession
  <2>1. CASE AcknowledgeWrite(c)
    <3> DEFINE y == [roster[u] EXCEPT !.acked = TRUE, !.status = IF call[c].was = "ASSIGNED" THEN "ACKNOWLEDGED" ELSE @]
    <3>1. y \in RosterRows
      BY <1>3, <1>4, <2>1 DEF RosterRows, Statuses
    <3>2. roster' = [roster EXCEPT ![u] = y]
      BY <1>3, <1>4, <2>1 DEF AcknowledgeWrite
    <3>3. /\ roster[u].acked => y.acked
          /\ y.status = "COMPLETED" => (roster[u].status = "COMPLETED" /\ y.session = roster[u].session) \/ y.session # NoSession
      BY <1>3, <1>4, <2>1 DEF RosterRows
    <3> HIDE DEF y
    <3> QED
      BY <3>1, <3>2, <3>3
  <2>2. CASE StartEnrol(c)
    <3>1. call[c].session \in Sessions
      BY <2>2, InSeatCarries DEF StartEnrol, InSeat, InStarted
    <3> DEFINE y == [roster[u] EXCEPT !.status = "IN_PROGRESS", !.session = call[c].session]
    <3>2. y \in RosterRows
      BY <1>3, <1>4, <2>2, <3>1 DEF RosterRows, Statuses
    <3>3. roster' = [roster EXCEPT ![u] = y]
      BY <1>3, <1>4, <2>2 DEF StartEnrol
    <3>4. /\ roster[u].acked => y.acked
          /\ y.status = "COMPLETED" => (roster[u].status = "COMPLETED" /\ y.session = roster[u].session) \/ y.session # NoSession
      BY <1>3, <1>4, <2>2, <3>1 DEF RosterRows
    <3> HIDE DEF y
    <3> QED
      BY <3>2, <3>3, <3>4
  <2>3. CASE SettleComplete(c)
    <3>1. call[c].session \in Sessions /\ call[c].session # NoSession
      BY <2>3, InSeatCarries, StoreAssumption DEF SettleComplete, InSeat, InStarted
    <3> DEFINE y == IF roster[u].status = "COMPLETED" THEN roster[u] ELSE [roster[u] EXCEPT !.status = "COMPLETED", !.session = call[c].session]
    <3>2. y \in RosterRows
      BY <1>3, <1>4, <2>3, <3>1 DEF RosterRows, Statuses
    <3>3. roster' = [roster EXCEPT ![u] = y]
      BY <1>3, <1>4, <2>3 DEF SettleComplete
    <3>4. /\ roster[u].acked => y.acked
          /\ y.status = "COMPLETED" => (roster[u].status = "COMPLETED" /\ y.session = roster[u].session) \/ y.session # NoSession
      BY <1>3, <1>4, <2>3, <3>1 DEF RosterRows
    <3> HIDE DEF y
    <3> QED
      BY <3>2, <3>3, <3>4
  <2> QED
    BY <2>1, <2>2, <2>3
<1>6. roster'[u] = x /\ \A v \in Users : v # u => roster'[v] = roster[v]
  BY <1>4, <1>5
<1>7. ReservedRows' = ReservedRows /\ \A v \in Users, s \in Sessions : Seated(v, s)' = Seated(v, s)
  BY <1>1, SeatsStay DEF storeVars, ReservedRows
<1>8. assignment' = assignment /\ engine' = engine /\ orphan' = orphan /\ closer' = closer
  BY <1>1
<1> QED
  BY <1>2, <1>5, <1>6, <1>7, <1>8, OrderKept

\* The engine starts only what has a seat.
LEMMA OrderEngine ==
    ASSUME SessionInv, OrderInv, NEW s \in Sessions, NEW v \in Users, Seated(v, s),
           UNCHANGED <<storeVars, assignment, roster, closer>>, orphan' \subseteq orphan,
           \A t \in Sessions : engine'[t] = engine[t] \/ t = s,
           engine'[s] # "none", engine[s] = "reported" => engine'[s] = "reported",
           \A c \in Calls : call'[c] = call[c] \/ call'[c].pc \notin {"append", "consume", "complete"}
    PROVE  OrderInv'
<1>1. ReservedRows' = ReservedRows /\ \A u \in Users, t \in Sessions : Seated(u, t)' = Seated(u, t)
  BY SeatsStay DEF storeVars, ReservedRows
<1>2. \A t \in Sessions : engine'[t] # "none" \/ t \in orphan' =>
        engine[t] # "none" \/ t \in orphan \/ \E u \in Users : Seated(u, t)'
  BY <1>1
<1>3. \A t \in Sessions : (engine[t] # "none" => engine'[t] # "none") /\ (engine[t] = "reported" => engine'[t] = "reported")
  OBVIOUS
<1> QED
  BY <1>1, <1>2, <1>3, OrderKept

LEMMA CreatesOne ==
    ASSUME SessionInv, NEW s \in Sessions, EngineCreates(s)
    PROVE  /\ \A t \in Sessions : engine'[t] = engine[t] \/ t = s
           /\ engine'[s] # "none" /\ (engine[s] = "reported" => engine'[s] = "reported")
BY DEF SessionInv, TypeOK, EngineCreates

LEMMA OrderStartEngine ==
    ASSUME SessionInv, OrderInv, NEW c \in Calls, StartEngine(c)
    PROVE  OrderInv'
<1>1. PICK v \in Users, s \in Sessions : s = call[c].session /\ Seated(v, s)
  BY InSeatCarries DEF StartEngine, InSeat, Seated
<1>2. EngineCreates(s) /\ Goto(c, "finalize") /\ UNCHANGED <<storeVars, assignment, roster, orphan, closer>>
  BY <1>1 DEF StartEngine
<1>3. \A d \in Calls : call'[d] = call[d] \/ call'[d].pc \notin {"append", "consume", "complete"}
  BY <1>2, Moves DEF SessionInv, Phases
<1> QED
  BY <1>1, <1>2, <1>3, CreatesOne, OrderEngine

LEMMA OrderEngineAlone ==
    ASSUME SessionInv, OrderInv, NEW s \in Sessions, LateEngineStart(s) \/ Turn(s) \/ Report(s)
    PROVE  OrderInv'
<1>1. UNCHANGED <<storeVars, assignment, roster, call, closer>> /\ orphan' \subseteq orphan
  BY DEF LateEngineStart, Turn, Report
<1>2. PICK v \in Users : Seated(v, s)
  BY DEF LateEngineStart, Turn, Report, OrderInv
<1>3. /\ \A t \in Sessions : engine'[t] = engine[t] \/ t = s
      /\ engine'[s] # "none" /\ (engine[s] = "reported" => engine'[s] = "reported")
  <2>1. CASE LateEngineStart(s)
    BY <2>1, CreatesOne DEF LateEngineStart
  <2>2. CASE Turn(s) \/ Report(s)
    BY <2>2 DEF Turn, Report, SessionInv, TypeOK
  <2> QED
    BY <2>1, <2>2
<1> QED
  BY <1>1, <1>2, <1>3, OrderEngine

\* A sweep lists roster rows, and those name seats the engine has.
LEMMA OrderSweeps ==
    ASSUME SessionInv, OrderInv, Sweep
    PROVE  OrderInv'
<1>1. UNCHANGED <<roster, engine, orphan, call>>
  BY DEF Sweep, CloseMark, CloseList, CloseDone, CloseRelease, CloseSkip, tables
<1>2. ReservedRows' = ReservedRows
  <2>1. ASSUME NEW u \in Users, NEW s \in Sessions, CloseRelease(u, s) PROVE ReservedRows' = ReservedRows
    <3>1. CASE UNCHANGED storeVars
      BY <3>1 DEF storeVars, ReservedRows
    <3>2. CASE startEvent[s] \in Pools /\ AppendReleased(startEvent[s], u, s)
      BY <3>2, ReleaseClosesOnly DEF SessionInv, ClosesOnly
    <3>3. startEvent[s] = NoPool \/ startEvent[s] \in Pools
      BY DEF SessionInv, TypeOK
    <3> QED
      BY <2>1, <3>1, <3>2, <3>3 DEF CloseRelease
  <2> QED
    BY <2>1 DEF Sweep, CloseMark, CloseList, CloseDone, CloseSkip, storeVars, ReservedRows
<1>3. \A u \in Users, s \in Sessions : Seated(u, s)' = Seated(u, s)
  BY <1>2, SeatsStay
<1>4. /\ closer'.pc \in {"list", "release"} =>
            (closer.pc \in {"list", "release"} /\ assignment' = assignment) \/ assignment' # "ACTIVE"
      /\ \A us \in closer'.todo : us \in closer.todo \/ (Seated(us[1], us[2]) /\ engine[us[2]] # "none" /\ us \in Users \X Sessions)
  <2>1. closer \in [pc: {"idle", "list", "release", "swept"}, todo: SUBSET (Users \X Sessions)]
    BY DEF SessionInv, TypeOK
  <2>2. ASSUME NEW st \in {"CLOSED", "CANCELLED"}, CloseMark(st) PROVE <1>4!:
    BY <2>2 DEF CloseMark
  <2>3. CASE CloseList
    <3>1. \A u \in Users : roster[u].session # NoSession => Seated(u, roster[u].session) /\ engine[roster[u].session] # "none"
      BY DEF SessionInv, RosterOK
    <3> QED
      BY <2>3, <3>1, StoreAssumption DEF CloseList, tables
  <2>4. ASSUME CloseDone \/ \E u \in Users, s \in Sessions : CloseRelease(u, s) \/ CloseSkip(u, s) PROVE <1>4!:
    BY <2>1, <2>4 DEF CloseDone, CloseRelease, CloseSkip, tables
  <2> QED
    BY <2>2, <2>3, <2>4 DEF Sweep
<1>5. \A us \in closer'.todo : us \in closer.todo \/ (Seated(us[1], us[2])' /\ engine'[us[2]] # "none")
  BY <1>1, <1>3, <1>4
<1> QED
  BY <1>1, <1>2, <1>3, <1>4, <1>5, OrderKept

LEMMA OrderRestarts ==
    ASSUME SessionInv, OrderInv, Restart
    PROVE  OrderInv'
<1>1. UNCHANGED <<storeVars, tables>> /\ orphan' = {}
  BY DEF Restart
<1>2. closer' = closer \/ (closer'.pc = "idle" /\ closer'.todo = {})
  BY DEF Restart
<1>3. \A c \in Calls : call'[c] = call[c] \/ call'[c].pc = "failed"
  BY DEF Restart, SessionInv, TypeOK, CallRecords
<1>4. ReservedRows' = ReservedRows /\ \A u \in Users, s \in Sessions : Seated(u, s)' = Seated(u, s)
  BY <1>1, SeatsStay DEF storeVars, ReservedRows
<1>5. assignment' = assignment /\ roster' = roster /\ engine' = engine
  BY <1>1 DEF tables
<1> QED
  BY <1>1, <1>2, <1>3, <1>4, <1>5, OrderKept

LEMMA OrderStep == SessionInv /\ OrderInv /\ [Next]_vars => OrderInv'
<1> SUFFICES ASSUME SessionInv, OrderInv, [Next]_vars PROVE OrderInv'
  OBVIOUS
<1>1. ASSUME NEW c \in Calls, Begin(c) \/ AcknowledgeWrite(c) \/ InStart(c) \/ InSettle(c) \/ Fails(c) PROVE OrderInv'
  BY <1>1, OrderBegins, OrderAppends, OrderQuietMoves, OrderStartEngine, OrderRosterWrites DEF InStart, InSettle
<1>2. ASSUME NEW s \in Sessions, LateEngineStart(s) \/ Turn(s) \/ Report(s) PROVE OrderInv'
  BY <1>2, OrderEngineAlone
<1>3. CASE UNCHANGED vars
  BY <1>3, QuietOrder DEF vars, ReservedRows
<1> QED
  BY <1>1, <1>2, <1>3, OrderSweeps, OrderRestarts DEF Next

LEMMA OrderStarts == Init => OrderInv
<1> SUFFICES ASSUME Init PROVE OrderInv
  OBVIOUS
<1>1. /\ rows = {} /\ engine = [s \in Sessions |-> "none"] /\ orphan = {} /\ call = [c \in Calls |-> Idle]
      /\ closer = [pc |-> "idle", todo |-> {}] /\ roster \in [Users -> Rostered]
  BY DEF Init, StoreInit
<1>2. Idle.pc = "idle" /\ \A x \in Rostered : x.status # "COMPLETED"
  BY DEF Idle, Rostered
<1>3. \A u \in Users : roster[u].status # "COMPLETED"
  BY <1>1, <1>2
<1> QED
  BY <1>1, <1>2, <1>3 DEF OrderInv, ReservedRows

LEMMA OrderInvariant == Spec => [](SessionInv /\ OrderInv)
<1>1. SessionInv /\ OrderInv /\ [Next]_vars => OrderInv'
  BY OrderStep
<1> QED
  BY <1>1, OrderStarts, SessionInvariant, PTL DEF Spec

-----------------------------------------------------------------------------
(* The session service implements the abstract assessment *)

IsDone(x) == x.status = "COMPLETED"

Life(a, s, t, w, d) == [acked |-> a, session |-> s, seat |-> t, work |-> w, completed |-> d]

\* A student with a seat, and one without.
TheLife(u, r) == Life(roster[u].acked, r.session, SeatNow(r), engine[r.session], IsDone(roster[u]))
NoLife(u) == Life(roster[u].acked, NoSession, "none", "none", IsDone(roster[u]))

LifeShape ==
    /\ \A r \in ReservedRows : r.user \in Users /\ LifeOf(r.user) = TheLife(r.user, r)
    /\ \A u \in Users : (\A r \in ReservedRows : r.user # u) => LifeOf(u) = NoLife(u)

LEMMA LivesHaveShape == StoreInv => LifeShape
<1> SUFFICES ASSUME StoreInv PROVE LifeShape
  OBVIOUS
<1>1. rows \subseteq Rows /\ Items = {Assignment}
  BY SessionAssumption DEF StoreInv, StoreTypeOK
<1>2. \A u \in Users, r \in rows : r.key = ReserveKey(u, Assignment) <=> r \in ReservedRows /\ r.user = u
  BY <1>1 DEF StoreInv, ReservedKeyed, ClosingKeyed, ReservedRows, Rows, ReserveKey, CloseKey
<1>3. \A r \in ReservedRows : r.user \in Users
  BY OneSeatPerUser
<1>4. ASSUME NEW r \in ReservedRows PROVE LifeOf(r.user) = TheLife(r.user, r)
  <2>1. Mine(r.user) = {r}
    BY <1>2, <1>3, OneSeatPerUser DEF Mine, Keyed, ReservedRows
  <2>2. (CHOOSE q \in Mine(r.user) : TRUE) = r
    BY <2>1
  <2> QED
    BY <2>1, <2>2 DEF LifeOf, TheLife, Life, IsDone
<1>5. ASSUME NEW u \in Users, \A r \in ReservedRows : r.user # u PROVE LifeOf(u) = NoLife(u)
  <2>1. Mine(u) = {}
    BY <1>2, <1>5 DEF Mine, Keyed
  <2> QED
    BY <2>1 DEF LifeOf, NoLife, Life, IsDone
<1> QED
  BY <1>3, <1>4, <1>5 DEF LifeShape

LEMMA ShapeThen == StoreInv' => LifeShape'
BY LivesHaveShape, PTL

\* A life goes on as it was where its row, its seat and its session do.
LEMMA LifeRests ==
    ASSUME SessionInv, SessionInv', NEW u \in Users,
           \A r \in ReservedRows' : r.user = u => r \in ReservedRows,
           ReservedRows \subseteq ReservedRows',
           \A r \in ReservedRows : r.user = u => engine'[r.session] = engine[r.session] /\ SeatNow(r)' = SeatNow(r),
           roster'[u] = roster[u]
    PROVE  LifeOf(u)' = LifeOf(u)
<1>1. LifeShape /\ LifeShape'
  BY LivesHaveShape, ShapeThen DEF SessionInv
<1>2. ASSUME NEW r \in ReservedRows, r.user = u PROVE LifeOf(u)' = LifeOf(u)
  <2>1. LifeOf(u) = TheLife(u, r)
    BY <1>1, <1>2 DEF LifeShape
  <2>2. LifeOf(u)' = TheLife(u, r)'
    BY <1>1, <1>2 DEF LifeShape
  <2>3. engine'[r.session] = engine[r.session] /\ SeatNow(r)' = SeatNow(r)
    BY <1>2
  <2> QED
    BY <2>1, <2>2, <2>3 DEF TheLife
<1>3. CASE \A r \in ReservedRows : r.user # u
  BY <1>1, <1>3 DEF LifeShape, NoLife
<1> QED
  BY <1>2, <1>3

LEMMA SeatRests ==
    ASSUME NEW r, {q \in rows' : q.pool = r.pool /\ q.session = r.session} = {q \in rows : q.pool = r.pool /\ q.session = r.session}
    PROVE  SeatNow(r)' = SeatNow(r)
<1>1. Closing(r.pool, r.session)' = Closing(r.pool, r.session)
  BY DEF Closing
<1> QED
  BY <1>1 DEF SeatNow, IsConsumed, IsReleased

LEMMA OneLifeMoves ==
    ASSUME NEW u \in Users, NEW k, LifeOf(u)' = k, \A v \in Users : v # u => LifeOf(v)' = LifeOf(v),
           UNCHANGED assignment
    PROVE  Assessment!Becomes(u, k) /\ Lives[u] = LifeOf(u)
BY DEF Assessment!Becomes, Lives

Stays == UNCHANGED <<Lives, assignment # "ACTIVE">>

LEMMA NoLifeMoves ==
    ASSUME SessionInv, SessionInv', UNCHANGED <<rows, engine, roster>>
    PROVE  Lives' = Lives /\ \A u \in Users : LifeOf(u)' = LifeOf(u)
<1>1. \A r : SeatNow(r)' = SeatNow(r)
  BY SeatRests
<1>2. ReservedRows' = ReservedRows
  BY DEF ReservedRows
<1>3. \A u \in Users : LifeOf(u)' = LifeOf(u)
  BY <1>1, <1>2, LifeRests
<1> QED
  BY <1>3 DEF Lives

\* What an assignment to a field of a life does to the record.
LEMMA NewAcked == ASSUME NEW a, NEW s, NEW t, NEW w, NEW d, NEW b PROVE [Life(a, s, t, w, d) EXCEPT !.acked = b] = Life(b, s, t, w, d)
BY DEF Life

LEMMA NewSeat == ASSUME NEW a, NEW s, NEW t, NEW w, NEW d, NEW b PROVE [Life(a, s, t, w, d) EXCEPT !.seat = b] = Life(a, s, b, w, d)
BY DEF Life

LEMMA NewWork == ASSUME NEW a, NEW s, NEW t, NEW w, NEW d, NEW b PROVE [Life(a, s, t, w, d) EXCEPT !.work = b] = Life(a, s, t, b, d)
BY DEF Life

LEMMA NewCompleted == ASSUME NEW a, NEW s, NEW t, NEW w, NEW d, NEW b PROVE [Life(a, s, t, w, d) EXCEPT !.completed = b] = Life(a, s, t, w, b)
BY DEF Life

\* Truth values have names here: the provers do not match a field with TRUE.
LEMMA LifeTurns ==
    ASSUME NEW L, NEW y, NEW n, y = TRUE, n = FALSE
    PROVE  /\ [L EXCEPT !.acked = TRUE] = [L EXCEPT !.acked = y]
           /\ [L EXCEPT !.completed = TRUE] = [L EXCEPT !.completed = y]
           /\ [L EXCEPT !.completed = FALSE] = [L EXCEPT !.completed = n]
OBVIOUS

\* A roster row that is written shows in its student's life, and there only.
LEMMA RosterShows ==
    ASSUME SessionInv, SessionInv', NEW u \in Users, NEW x \in RosterRows, roster' = [roster EXCEPT ![u] = x],
           UNCHANGED <<rows, engine>>
    PROVE  /\ \A v \in Users : v # u => LifeOf(v)' = LifeOf(v)
           /\ \E s, t, w, d, e :
                /\ LifeOf(u) = Life(roster[u].acked, s, t, w, d) /\ d = IsDone(roster[u])
                /\ LifeOf(u)' = Life(x.acked, s, t, w, e) /\ e = IsDone(x)
<1>1. LifeShape /\ LifeShape' /\ ReservedRows' = ReservedRows
  BY LivesHaveShape, ShapeThen DEF SessionInv, ReservedRows
<1>2. \A r : SeatNow(r)' = SeatNow(r)
  BY SeatRests
<1>3. roster'[u] = x /\ \A v \in Users : v # u => roster'[v] = roster[v]
  BY DEF SessionInv, TypeOK
<1>4. \A v \in Users : v # u => LifeOf(v)' = LifeOf(v)
  BY <1>1, <1>2, <1>3, LifeRests
<1>5. IsDone(roster'[u]) = IsDone(roster[u])' /\ IsDone(roster'[u]) = IsDone(x)
  BY <1>3 DEF IsDone
<1>6. CASE \E r \in ReservedRows : r.user = u
  <2>1. PICK r \in ReservedRows : r.user = u
    BY <1>6
  <2>2. LifeOf(u) = TheLife(u, r)
    BY <1>1, <2>1 DEF LifeShape
  <2>3. LifeOf(u)' = TheLife(u, r)'
    BY <1>1, <2>1 DEF LifeShape
  <2>4. LifeOf(u)' = Life(x.acked, r.session, SeatNow(r), engine[r.session], IsDone(x))
    BY <1>2, <1>3, <1>5, <2>3 DEF TheLife
  <2> QED
    BY <1>4, <2>2, <2>4, Zenon DEF TheLife
<1>7. CASE \A r \in ReservedRows : r.user # u
  <2>1. LifeOf(u) = NoLife(u)
    BY <1>1, <1>7 DEF LifeShape
  <2>2. LifeOf(u)' = NoLife(u)'
    BY <1>1, <1>7 DEF LifeShape
  <2>3. LifeOf(u)' = Life(x.acked, NoSession, "none", "none", IsDone(x))
    BY <1>3, <1>5, <2>2 DEF NoLife
  <2> QED
    BY <1>4, <2>1, <2>3, Zenon DEF NoLife
<1> QED
  BY <1>6, <1>7

LEMMA AcknowledgeRefines ==
    ASSUME SessionInv, OrderInv, SessionInv', NEW c \in Calls, AcknowledgeWrite(c)
    PROVE  Assessment!Next
<1>1. PICK u \in Users : u = call[c].user
  BY DEF AcknowledgeWrite, SessionInv, CallOK, InFlight
<1>2. roster[u] \in RosterRows
  BY DEF SessionInv, TypeOK
<1> DEFINE x == [roster[u] EXCEPT !.acked = TRUE, !.status = IF call[c].was = "ASSIGNED" THEN "ACKNOWLEDGED" ELSE @]
<1>3. x \in RosterRows /\ x.acked = TRUE
  BY <1>2 DEF RosterRows, Statuses
<1>4. x.status \in {roster[u].status, "ACKNOWLEDGED"}
  BY <1>2 DEF RosterRows
<1>5. roster' = [roster EXCEPT ![u] = x] /\ UNCHANGED <<rows, engine, assignment>>
  BY <1>1 DEF AcknowledgeWrite, SessionInv, TypeOK, storeVars
<1> HIDE DEF x
<1>6. PICK s, t, w, d, e :
        /\ LifeOf(u) = Life(roster[u].acked, s, t, w, d) /\ d = IsDone(roster[u])
        /\ LifeOf(u)' = Life(x.acked, s, t, w, e) /\ e = IsDone(x)
  BY <1>3, <1>5, RosterShows, Zenon
<1>7. \A v \in Users : v # u => LifeOf(v)' = LifeOf(v)
  BY <1>3, <1>5, RosterShows
<1>8. CASE d = e
  <2>1. LifeOf(u)' = [LifeOf(u) EXCEPT !.acked = TRUE]
    <3>1. PICK y, n : y = TRUE /\ n = FALSE
      OBVIOUS
    <3>2. x.acked = y
      BY <1>3, <3>1
    <3>3. LifeOf(u) = Life(roster[u].acked, s, t, w, d) /\ LifeOf(u)' = Life(y, s, t, w, d)
      BY <1>6, <1>8, <3>2
    <3>4. LifeOf(u)' = [LifeOf(u) EXCEPT !.acked = y]
      BY <3>3, NewAcked
    <3> QED
      BY <3>1, <3>4, LifeTurns
  <2> QED
    BY <1>5, <1>7, <2>1, OneLifeMoves DEF Assessment!Next, Assessment!Acknowledge
<1>9. CASE d # e
  <2>1. roster[u].status = "COMPLETED" /\ e = FALSE
    BY <1>4, <1>6, <1>9 DEF IsDone
  <2>2. roster[u].acked = TRUE
    BY <1>2, <2>1 DEF OrderInv, SessionInv, RosterOK, Seated, Holds, RosterRows
  <2>3. LifeOf(u)' = [LifeOf(u) EXCEPT !.completed = FALSE]
    <3>1. PICK y, n : y = TRUE /\ n = FALSE
      OBVIOUS
    <3>2. x.acked = y /\ roster[u].acked = y /\ e = n
      BY <1>3, <2>1, <2>2, <3>1
    <3>3. LifeOf(u) = Life(y, s, t, w, d) /\ LifeOf(u)' = Life(y, s, t, w, n)
      BY <1>6, <3>2
    <3>4. LifeOf(u)' = [LifeOf(u) EXCEPT !.completed = n]
      BY <3>3, NewCompleted
    <3> QED
      BY <3>1, <3>4, LifeTurns
  <2> QED
    BY <1>5, <1>7, <2>3, OneLifeMoves DEF Assessment!Next, Assessment!FallBack
<1> QED
  BY <1>8, <1>9

\* A start that writes its card last takes a completed one back to IN_PROGRESS.
LEMMA EnrolRefines ==
    ASSUME SessionInv, SessionInv', NEW c \in Calls, StartEnrol(c)
    PROVE  Assessment!Next
<1>1. PICK u \in Users : u = call[c].user /\ call[c].session \in Sessions
  BY InSeatCarries DEF StartEnrol, InSeat, InStarted
<1>2. roster[u] \in RosterRows
  BY DEF SessionInv, TypeOK
<1> DEFINE x == [roster[u] EXCEPT !.status = "IN_PROGRESS", !.session = call[c].session]
<1>3. x \in RosterRows /\ x.acked = roster[u].acked /\ x.status = "IN_PROGRESS"
  BY <1>1, <1>2 DEF RosterRows, Statuses
<1>4. roster' = [roster EXCEPT ![u] = x] /\ UNCHANGED <<rows, engine, assignment>>
  BY <1>1 DEF StartEnrol, SessionInv, TypeOK, storeVars
<1> HIDE DEF x
<1>5. PICK s, t, w, d, e :
        /\ LifeOf(u) = Life(roster[u].acked, s, t, w, d) /\ d = IsDone(roster[u])
        /\ LifeOf(u)' = Life(x.acked, s, t, w, e) /\ e = IsDone(x)
  BY <1>3, <1>4, RosterShows, Zenon
<1>6. \A v \in Users : v # u => LifeOf(v)' = LifeOf(v)
  BY <1>3, <1>4, RosterShows
<1>7. PICK y, n : y = TRUE /\ n = FALSE
  OBVIOUS
<1>8. e = n
  BY <1>3, <1>5, <1>7 DEF IsDone
<1>9. LifeOf(u) = Life(roster[u].acked, s, t, w, d) /\ LifeOf(u)' = Life(roster[u].acked, s, t, w, n)
  BY <1>3, <1>5, <1>8
<1>10. LifeOf(u)' = [LifeOf(u) EXCEPT !.completed = n]
  BY <1>9, NewCompleted
<1>11. LifeOf(u)' = [LifeOf(u) EXCEPT !.completed = FALSE]
  BY <1>7, <1>10, LifeTurns
<1> QED
  BY <1>4, <1>6, <1>11, OneLifeMoves DEF Assessment!Next, Assessment!FallBack

\* A closed seat was billed or returned.
LEMMA ClosedIsSettled ==
    ASSUME NEW r, Closing(r.pool, r.session) # {}
    PROVE  SeatNow(r) \in {"billed", "returned"}
<1>1. IsConsumed(r.pool, r.session) \/ IsReleased(r.pool, r.session)
  BY DEF Closing, IsConsumed, IsReleased
<1> QED
  BY <1>1 DEF SeatNow

\* Completion is written after the report and the closed seat.
LEMMA CompleteRefines ==
    ASSUME SessionInv, OrderInv, SessionInv', NEW c \in Calls, SettleComplete(c)
    PROVE  Assessment!Next \/ Stays
<1>1. PICK u \in Users, p \in Pools, s \in Sessions :
        /\ u = call[c].user /\ p = call[c].pool /\ s = call[c].session /\ Holds(p, u, s)
        /\ Closing(p, s) # {} /\ engine[s] = "reported"
  <2>1. CallOK(c) /\ call[c].pc = "complete"
    BY DEF SessionInv, SettleComplete
  <2> QED
    BY <2>1, InSeatCarries DEF InSeat, InStarted, CallOK, OrderInv
<1>2. roster[u] \in RosterRows
  BY DEF SessionInv, TypeOK
<1>3. UNCHANGED <<rows, engine, assignment>>
  BY DEF SettleComplete, storeVars
<1>4. CASE roster[u].status = "COMPLETED"
  <2>1. roster' = roster
    BY <1>1, <1>4 DEF SettleComplete, SessionInv, TypeOK
  <2> QED
    BY <1>3, <2>1, NoLifeMoves DEF Stays
<1>5. CASE roster[u].status # "COMPLETED"
  <2> DEFINE x == [roster[u] EXCEPT !.status = "COMPLETED", !.session = s]
  <2>1. x \in RosterRows /\ x.acked = roster[u].acked /\ x.status = "COMPLETED"
    BY <1>2 DEF RosterRows, Statuses
  <2>2. roster' = [roster EXCEPT ![u] = x]
    BY <1>1, <1>5 DEF SettleComplete, SessionInv, TypeOK
  <2> HIDE DEF x
  <2>3. PICK k, t, w, d, e :
          /\ LifeOf(u) = Life(roster[u].acked, k, t, w, d) /\ d = IsDone(roster[u])
          /\ LifeOf(u)' = Life(x.acked, k, t, w, e) /\ e = IsDone(x)
    BY <1>3, <2>1, <2>2, RosterShows, Zenon
  <2>4. \A v \in Users : v # u => LifeOf(v)' = LifeOf(v)
    BY <1>3, <2>1, <2>2, RosterShows
  <2>5. PICK y, n : y = TRUE /\ n = FALSE
    OBVIOUS
  <2>6. e = y
    BY <2>1, <2>3, <2>5 DEF IsDone
  <2>7. LifeOf(u) = Life(roster[u].acked, k, t, w, d) /\ LifeOf(u)' = Life(roster[u].acked, k, t, w, y)
    BY <2>1, <2>3, <2>6
  <2>8. LifeOf(u)' = [LifeOf(u) EXCEPT !.completed = y]
    BY <2>7, NewCompleted
  <2>9. LifeOf(u)' = [LifeOf(u) EXCEPT !.completed = TRUE]
    BY <2>5, <2>8, LifeTurns
  <2>10. LifeOf(u).work = "reported" /\ LifeOf(u).seat \in {"billed", "returned"}
    <3>1. PICK r \in ReservedRows : r.pool = p /\ r.user = u /\ r.session = s
      BY <1>1 DEF Holds
    <3>2. LifeOf(u) = TheLife(u, r)
      BY <3>1, LivesHaveShape DEF LifeShape, SessionInv
    <3>3. LifeOf(u).work = engine[s] /\ LifeOf(u).seat = SeatNow(r)
      BY <3>1, <3>2 DEF TheLife, Life
    <3>4. SeatNow(r) \in {"billed", "returned"}
      BY <1>1, <3>1, ClosedIsSettled
    <3> QED
      BY <1>1, <3>3, <3>4
  <2>11. Assessment!Complete(u)
    BY <1>3, <2>4, <2>9, <2>10, OneLifeMoves DEF Assessment!Complete
  <2> QED
    BY <2>11 DEF Assessment!Next
<1> QED
  BY <1>4, <1>5

\* The engine moves the life of the student whose session it is.
LEMMA EngineRefines ==
    ASSUME SessionInv, SessionInv', NEW s \in Sessions, NEW u \in Users, Seated(u, s),
           UNCHANGED <<rows, roster, assignment>>,
           \A t \in Sessions : engine'[t] = engine[t] \/ t = s,
           \/ engine'[s] = engine[s]
           \/ engine[s] = "none" /\ engine'[s] = "live"
           \/ engine[s] = "live" /\ engine'[s] = "reported"
    PROVE  Assessment!Next \/ Stays
<1>1. PICK r \in ReservedRows : r.user = u /\ r.session = s
  BY DEF Seated, Holds
<1>2. ReservedRows' = ReservedRows /\ (\A q : SeatNow(q)' = SeatNow(q)) /\ LifeShape /\ LifeShape'
  BY SeatRests, LivesHaveShape, ShapeThen DEF ReservedRows, SessionInv
<1>3. \A q \in ReservedRows : q.session \in Sessions /\ (q.user # u => q.session # s)
  BY <1>1, OneSeatPerUser DEF SessionInv, SeatsFromStarts
<1>4. \A v \in Users : v # u => LifeOf(v)' = LifeOf(v)
  BY <1>2, <1>3, LifeRests
<1>5. CASE engine'[s] = engine[s]
  <2>1. LifeOf(u)' = LifeOf(u)
    BY <1>1, <1>2, <1>3, <1>5, LifeRests
  <2> QED
    BY <1>4, <2>1 DEF Stays, Lives
<1>6. CASE engine'[s] # engine[s]
  <2>1. PICK d : d = IsDone(roster[u])
    OBVIOUS
  <2>2. LifeOf(u) = TheLife(u, r)
    BY <1>1, <1>2 DEF LifeShape
  <2>3. LifeOf(u)' = TheLife(u, r)'
    BY <1>1, <1>2 DEF LifeShape
  <2>4. LifeOf(u) = Life(roster[u].acked, s, SeatNow(r), engine[s], d)
    BY <1>1, <2>1, <2>2 DEF TheLife
  <2>5. LifeOf(u)' = Life(roster[u].acked, s, SeatNow(r), engine'[s], d)
    <3>1. IsDone(roster[u])' = d
      BY <2>1 DEF IsDone
    <3> QED
      BY <1>1, <1>2, <2>3, <3>1 DEF TheLife
  <2>6. LifeOf(u)' = [LifeOf(u) EXCEPT !.work = engine'[s]]
    BY <2>4, <2>5, NewWork
  <2>7. LifeOf(u).session = s /\ LifeOf(u).work = engine[s] /\ s # NoSession
    BY <2>4, StoreAssumption DEF Life
  <2>8. CASE engine[s] = "none" /\ engine'[s] = "live"
    BY <1>4, <2>6, <2>7, <2>8, OneLifeMoves DEF Assessment!Next, Assessment!Begin
  <2>9. CASE engine[s] = "live" /\ engine'[s] = "reported"
    BY <1>4, <2>6, <2>7, <2>9, OneLifeMoves DEF Assessment!Next, Assessment!Score
  <2> QED
    BY <1>6, <2>8, <2>9
<1> QED
  BY <1>5, <1>6

\* A closing row settles the seat of one student, for whom the engine has a session.
LEMMA ClosingRefines ==
    ASSUME SessionInv, SessionInv', NEW p \in Pools, NEW u \in Users, NEW s \in Sessions, engine[s] # "none",
           UNCHANGED <<roster, engine, assignment>>,
           AppendConsumed(p, u, s) \/ (AppendReleased(p, u, s) /\ assignment # "ACTIVE")
    PROVE  Assessment!Next
<1>1. PICK e \in {"CONSUMED", "RELEASED"} :
        /\ MayClose(p, u, s) /\ Insert(p, u, s, e, CloseKey(e, p, s))
        /\ e = "RELEASED" => assignment # "ACTIVE"
  BY DEF AppendConsumed, AppendReleased
<1> DEFINE row == [pool |-> p, user |-> u, session |-> s, event |-> e, key |-> CloseKey(e, p, s)]
<1>2. rows' = rows \cup {row} /\ row.pool = p /\ row.session = s /\ row.event = e
  BY <1>1 DEF Insert
<1> HIDE DEF row
<1>3. PICK r \in ReservedRows : r.pool = p /\ r.user = u /\ r.session = s
  BY <1>1 DEF MayClose, Reserved, ReservedRows
<1>4. ReservedRows' = ReservedRows /\ LifeShape /\ LifeShape'
  BY <1>2, LivesHaveShape, ShapeThen DEF ReservedRows, SessionInv
<1>5. Closing(p, s) = {} /\ Closing(p, s)' = {row}
  BY <1>1, <1>2 DEF MayClose, Closing
<1>6. SeatNow(r) = "open"
  BY <1>3, <1>5 DEF SeatNow, IsConsumed, IsReleased
<1>7. SeatNow(r)' = IF e = "CONSUMED" THEN "billed" ELSE "returned"
  <2>1. Closing(r.pool, r.session)' = {row}
    BY <1>3, <1>5
  <2>2. (IsConsumed(r.pool, r.session)' <=> e = "CONSUMED") /\ (IsReleased(r.pool, r.session)' <=> e = "RELEASED")
    BY <1>2, <2>1 DEF IsConsumed, IsReleased
  <2> QED
    BY <2>2 DEF SeatNow
<1>8. ASSUME NEW v \in Users, v # u PROVE LifeOf(v)' = LifeOf(v)
  <2>1. ASSUME NEW q \in ReservedRows, q.user = v PROVE SeatNow(q)' = SeatNow(q)
    <3>1. q.session # s
      BY <1>3, <1>8, <2>1 DEF SessionInv, SeatsFromStarts
    <3>2. {o \in rows' : o.pool = q.pool /\ o.session = q.session} = {o \in rows : o.pool = q.pool /\ o.session = q.session}
      BY <1>2, <3>1
    <3> QED
      BY <3>2, SeatRests
  <2> QED
    BY <1>4, <2>1, LifeRests
<1>9. PICK d : d = IsDone(roster[u])
  OBVIOUS
<1>10. LifeOf(u) = Life(roster[u].acked, s, "open", engine[s], d)
  <2>1. LifeOf(u) = TheLife(u, r)
    BY <1>3, <1>4 DEF LifeShape
  <2> QED
    BY <1>3, <1>6, <1>9, <2>1 DEF TheLife
<1>11. LifeOf(u)' = Life(roster[u].acked, s, SeatNow(r)', engine[s], d)
  <2>1. LifeOf(u)' = TheLife(u, r)'
    BY <1>3, <1>4 DEF LifeShape
  <2>2. IsDone(roster[u])' = d
    BY <1>9 DEF IsDone
  <2> QED
    BY <1>3, <2>1, <2>2 DEF TheLife
<1>12. LifeOf(u)' = [LifeOf(u) EXCEPT !.seat = SeatNow(r)']
  BY <1>10, <1>11, NewSeat
<1>13. LifeOf(u).seat = "open" /\ LifeOf(u).work = engine[s]
  BY <1>10 DEF Life
<1>14. CASE e = "CONSUMED"
  BY <1>7, <1>8, <1>12, <1>13, <1>14, OneLifeMoves DEF Assessment!Next, Assessment!Bill
<1>15. CASE e = "RELEASED"
  BY <1>1, <1>7, <1>8, <1>12, <1>13, <1>15, OneLifeMoves DEF Assessment!Next, Assessment!Return
<1> QED
  BY <1>14, <1>15

\* A reservation takes a seat for a student who acknowledged and had none.
LEMMA AppendRefines ==
    ASSUME SessionInv, OrderInv, SessionInv', NEW c \in Calls, StartAppend(c)
    PROVE  Assessment!Next \/ Stays
<1>1. PICK p \in Pools, u \in Users, s \in Sessions :
        /\ call[c].pc = "append" /\ p = call[c].pool /\ u = call[c].user /\ s = SessionOf[c] /\ s # NoSession
        /\ roster[u].acked /\ UNCHANGED <<roster, engine, assignment>>
  <2>1. call[c].pc = "append" /\ UNCHANGED <<roster, engine, assignment>>
    BY DEF StartAppend, tables
  <2>2. call[c].pool \in Pools /\ call[c].user \in Users /\ roster[call[c].user].acked
    BY <2>1 DEF SessionInv, CallOK, InFlight, OrderInv
  <2>3. SessionOf[c] \in Sessions /\ SessionOf[c] # NoSession
    BY SessionAssumption, StoreAssumption
  <2> QED
    BY <2>1, <2>2, <2>3
<1>2. CASE UNCHANGED storeVars
  BY <1>1, <1>2, NoLifeMoves DEF Stays, storeVars
<1>3. CASE AppendReserved(p, u, s, ReserveKey(u, Assignment))
  <2>1. PICK row :
          /\ rows' = rows \cup {row} /\ Keyed(ReserveKey(u, Assignment)) = {}
          /\ row.pool = p /\ row.user = u /\ row.session = s /\ row.event = "RESERVED"
    <3> DEFINE r == [pool |-> p, user |-> u, session |-> s, event |-> "RESERVED", key |-> ReserveKey(u, Assignment)]
    <3>1. rows' = rows \cup {r} /\ Keyed(ReserveKey(u, Assignment)) = {}
      BY <1>3 DEF AppendReserved, Insert
    <3>2. r.pool = p /\ r.user = u /\ r.session = s /\ r.event = "RESERVED"
      OBVIOUS
    <3> HIDE DEF r
    <3> QED
      BY <3>1, <3>2
  <2>2. LifeShape /\ LifeShape' /\ ReservedRows' = ReservedRows \cup {row}
    BY <2>1, LivesHaveShape, ShapeThen DEF SessionInv, ReservedRows
  <2>3. \A r \in rows : r.session # s
    BY <1>1 DEF SessionInv, SeatsFromStarts
  <2>4. \A r \in ReservedRows : r.user # u
    BY <1>1, <2>1, SessionAssumption DEF SessionInv, StoreInv, ReservedKeyed, ReservedRows, Keyed
  <2>5. ASSUME NEW v \in Users, v # u PROVE LifeOf(v)' = LifeOf(v)
    <3>1. ASSUME NEW q \in ReservedRows PROVE SeatNow(q)' = SeatNow(q)
      <4>1. q.session # s
        BY <2>3 DEF ReservedRows
      <4>2. {o \in rows' : o.pool = q.pool /\ o.session = q.session} = {o \in rows : o.pool = q.pool /\ o.session = q.session}
        BY <2>1, <4>1
      <4> QED
        BY <4>2, SeatRests
    <3> QED
      BY <1>1, <2>1, <2>2, <2>5, <3>1, LifeRests
  <2>6. engine[s] = "none"
    BY <1>1, <2>3 DEF OrderInv, Seated, Holds, ReservedRows
  <2>7. SeatNow(row)' = "open"
    <3>1. Closing(row.pool, row.session)' = {}
      BY <2>1, <2>3 DEF Closing
    <3> QED
      BY <3>1 DEF SeatNow, IsConsumed, IsReleased
  <2>8. PICK y, d : y = roster[u].acked /\ d = IsDone(roster[u])
    OBVIOUS
  <2>9. LifeOf(u) = Life(y, NoSession, "none", "none", d)
    <3>1. LifeOf(u) = NoLife(u)
      BY <1>1, <2>2, <2>4 DEF LifeShape
    <3> QED
      BY <2>8, <3>1 DEF NoLife
  <2>10. LifeOf(u)' = Life(y, s, "open", "none", d)
    <3>1. LifeOf(row.user)' = TheLife(row.user, row)'
      BY <2>2 DEF LifeShape
    <3>2. IsDone(roster[u])' = d
      BY <1>1, <2>8 DEF IsDone
    <3>3. LifeOf(u)' = LifeOf(row.user)'
      BY <2>1
    <3> QED
      BY <1>1, <2>1, <2>6, <2>7, <2>8, <3>1, <3>2, <3>3 DEF TheLife
  <2>11. LifeOf(u)' = [LifeOf(u) EXCEPT !.session = s, !.seat = "open"]
    <3>1. [Life(y, NoSession, "none", "none", d) EXCEPT !.session = s] = Life(y, s, "none", "none", d)
      BY DEF Life
    <3>2. [Life(y, s, "none", "none", d) EXCEPT !.seat = "open"] = Life(y, s, "open", "none", d)
      BY DEF Life
    <3> QED
      BY <2>9, <2>10, <3>1, <3>2
  <2>12. LifeOf(u).acked /\ LifeOf(u).session = NoSession
    <3>1. LifeOf(u).acked = roster[u].acked
      BY <2>8, <2>9 DEF Life
    <3> QED
      BY <1>1, <2>9, <3>1 DEF Life
  <2>13. ASSUME NEW v \in Users PROVE LifeOf(v).session # s
    <3>1. ASSUME NEW r \in ReservedRows, r.user = v PROVE LifeOf(v).session # s
      <4>1. LifeOf(v) = TheLife(v, r)
        BY <2>2, <3>1 DEF LifeShape
      <4> QED
        BY <2>3, <4>1 DEF TheLife, Life, ReservedRows
    <3>2. CASE \A r \in ReservedRows : r.user # v
      <4>1. LifeOf(v) = NoLife(v)
        BY <2>2, <3>2 DEF LifeShape
      <4> QED
        BY <1>1, <4>1 DEF NoLife, Life
    <3> QED
      BY <3>1, <3>2
  <2>14. \A v \in Users : Lives[v] = LifeOf(v)
    BY DEF Lives
  <2>15. Assessment!Becomes(u, [LifeOf(u) EXCEPT !.session = s, !.seat = "open"])
    BY <1>1, <2>5, <2>11, OneLifeMoves
  <2>16. Assessment!Take(u, s)
    BY <1>1, <2>12, <2>13, <2>14, <2>15 DEF Assessment!Take
  <2> QED
    BY <1>1, <2>16 DEF Assessment!Next
<1> QED
  BY <1>1, <1>2, <1>3 DEF StartAppend

LEMMA CloseRefines ==
    ASSUME SessionInv, OrderInv, SessionInv', Sweep
    PROVE  Assessment!Next \/ Stays
<1>1. ASSUME NEW st \in {"CLOSED", "CANCELLED"}, CloseMark(st) PROVE Assessment!Next
  <2>1. assignment' # "ACTIVE" /\ UNCHANGED <<rows, engine, roster>>
    BY <1>1 DEF CloseMark, storeVars
  <2>2. Lives' = Lives
    BY <2>1, NoLifeMoves
  <2> QED
    BY <2>1, <2>2 DEF Assessment!Next, Assessment!Close
<1>2. ASSUME NEW u \in Users, NEW s \in Sessions, CloseRelease(u, s) PROVE Assessment!Next \/ Stays
  <2>1. UNCHANGED <<roster, engine, assignment>> /\ engine[s] # "none" /\ assignment # "ACTIVE"
    BY <1>2 DEF CloseRelease, OrderInv, tables
  <2>2. CASE UNCHANGED storeVars
    BY <2>1, <2>2, NoLifeMoves DEF Stays, storeVars
  <2>3. CASE startEvent[s] # NoPool /\ AppendReleased(startEvent[s], u, s)
    <3>1. startEvent[s] \in Pools
      BY <2>3 DEF SessionInv, TypeOK
    <3> QED
      BY <2>1, <2>3, <3>1, ClosingRefines
  <2> QED
    BY <1>2, <2>2, <2>3 DEF CloseRelease
<1>3. ASSUME UNCHANGED <<rows, engine, roster, assignment>> PROVE Stays
  BY <1>3, NoLifeMoves DEF Stays
<1>4. CASE CloseList \/ CloseDone \/ \E u \in Users, s \in Sessions : CloseSkip(u, s)
  BY <1>3, <1>4 DEF CloseList, CloseDone, CloseSkip, tables, storeVars
<1> QED
  BY <1>1, <1>2, <1>4 DEF Sweep

LEMMA StepRefines ==
    ASSUME SessionInv, OrderInv, SessionInv', [Next]_vars
    PROVE  Assessment!Next \/ Stays
<1>1. ASSUME UNCHANGED <<rows, engine, roster, assignment>> PROVE Stays
  BY <1>1, NoLifeMoves DEF Stays
<1>2. ASSUME NEW c \in Calls,
             Begin(c) \/ StartLock(c) \/ StartLocked(c) \/ StartEngineTimesOut(c) \/ StartRecord(c) \/ Fails(c)
      PROVE  Stays
  BY <1>1, <1>2 DEF Begin, AcknowledgeRead, StartResumed, StartReads, SettleRead, StartLock, StartLocked,
                    StartEngineTimesOut, StartRecord, Fails, tables, storeVars
<1>3. ASSUME NEW c \in Calls, StartFinalize(c) \/ SettleConsume(c) PROVE Assessment!Next \/ Stays
  <2>1. call[c].pc \in InSeat /\ UNCHANGED <<roster, engine, assignment>>
    BY <1>3 DEF StartFinalize, SettleConsume, InSeat, InStarted, tables
  <2>2. engine[call[c].session] # "none"
    BY <1>3 DEF StartFinalize, SettleConsume, SessionInv, CallOK, InStarted
  <2>3. CASE UNCHANGED storeVars
    BY <1>1, <2>1, <2>3 DEF storeVars
  <2>4. CASE AppendConsumed(call[c].pool, call[c].user, call[c].session)
    BY <2>1, <2>2, <2>4, InSeatCarries, ClosingRefines
  <2> QED
    BY <1>3, <2>3, <2>4 DEF StartFinalize, SettleConsume
<1>4. ASSUME NEW s \in Sessions, EngineCreates(s)
      PROVE  /\ \A t \in Sessions : engine'[t] = engine[t] \/ t = s
             /\ engine'[s] = engine[s] \/ (engine[s] = "none" /\ engine'[s] = "live")
  BY <1>4 DEF EngineCreates, SessionInv, TypeOK
<1>5. ASSUME NEW c \in Calls, StartEngine(c) PROVE Assessment!Next \/ Stays
  <2>1. PICK s \in Sessions, u \in Users : s = call[c].session /\ Seated(u, s)
    BY <1>5, InSeatCarries DEF StartEngine, InSeat, Seated
  <2>2. EngineCreates(s) /\ UNCHANGED <<rows, roster, assignment>>
    BY <1>5, <2>1 DEF StartEngine, storeVars
  <2> QED
    BY <1>4, <2>1, <2>2, EngineRefines
<1>6. ASSUME NEW s \in Sessions, LateEngineStart(s) \/ Report(s) PROVE Assessment!Next \/ Stays
  <2>1. PICK u \in Users : Seated(u, s)
    BY <1>6 DEF LateEngineStart, Report, OrderInv
  <2>2. UNCHANGED <<rows, roster, assignment>>
    BY <1>6 DEF LateEngineStart, Report, storeVars
  <2>3. CASE LateEngineStart(s)
    BY <1>4, <2>1, <2>2, <2>3, EngineRefines DEF LateEngineStart
  <2>4. CASE Report(s)
    <3>1. /\ engine[s] = "live" /\ engine'[s] = "reported"
          /\ \A t \in Sessions : engine'[t] = engine[t] \/ t = s
      BY <2>4 DEF Report, SessionInv, TypeOK
    <3> QED
      BY <2>1, <2>2, <3>1, EngineRefines
  <2> QED
    BY <1>6, <2>3, <2>4
<1>7. CASE (\E s \in Sessions : Turn(s)) \/ Restart \/ UNCHANGED vars
  BY <1>1, <1>7 DEF Turn, Restart, vars, tables, storeVars
<1> QED
  BY <1>2, <1>3, <1>5, <1>6, <1>7, AcknowledgeRefines, EnrolRefines, CompleteRefines, AppendRefines, CloseRefines
     DEF Next, InStart, InSettle

\* The session service implements the abstract assessment: whatever races,
\* retries, fails, restarts or outlives its caller, seat, session, roster row
\* and card of every student move in the order an assessment has
\* (sessionService.js, assignmentService.js, campusAdmin/service.js).
THEOREM AssessmentsAreOrdered == Spec => ImplementsAssessment
<1>1. Init => Assessment!Init
  <2> SUFFICES ASSUME Init PROVE Assessment!Init
    OBVIOUS
  <2>1. rows = {} /\ assignment = "ACTIVE" /\ roster \in [Users -> Rostered]
    BY DEF Init, StoreInit
  <2>2. ASSUME NEW u \in Users PROVE LifeOf(u) \in Assessment!Beginning
    <3>1. LifeOf(u) = NoLife(u)
      BY <2>1, SessionStarts, LivesHaveShape DEF SessionInv, LifeShape, ReservedRows
    <3>2. IsDone(roster[u]) = FALSE /\ roster[u].acked \in BOOLEAN
      <4>1. roster[u] \in Rostered
        BY <2>1
      <4>2. roster[u].status # "COMPLETED"
        BY <4>1 DEF Rostered
      <4>3. roster[u].acked \in BOOLEAN
        BY SessionStarts DEF SessionInv, TypeOK, RosterRows
      <4> QED
        BY <4>2, <4>3 DEF IsDone
    <3>3. NoLife(u) = Life(roster[u].acked, NoSession, "none", "none", FALSE)
      BY <3>2 DEF NoLife
    <3> QED
      BY <3>1, <3>2, <3>3 DEF Life, Assessment!Beginning
  <2>3. Lives \in [Users -> Assessment!Beginning]
    BY <2>2 DEF Lives
  <2> QED
    BY <2>1, <2>3 DEF Assessment!Init
<1>2. SessionInv /\ OrderInv /\ SessionInv' /\ [Next]_vars => [Assessment!Next]_<<Lives, assignment # "ACTIVE">>
  BY StepRefines DEF Stays
<1> QED
  BY <1>1, <1>2, OrderInvariant, PTL DEF Spec, ImplementsAssessment, Assessment!Spec

=============================================================================
