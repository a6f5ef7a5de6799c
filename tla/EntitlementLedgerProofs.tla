----------------------- MODULE EntitlementLedgerProofs -----------------------
(***************************************************************************)
(* What the entitlement ledger guarantees for any number of pools, seats,  *)
(* users, assignments and racing requests.  The inductive invariant adds to *)
(* the repository's own what the requests in flight know: their arguments, *)
(* that a session id is in a RESERVED row only after its request was        *)
(* granted, and that a granted request has the row it was answered from.    *)
(***************************************************************************)
EXTENDS ContractPool, LedgerStoreProofs

\* A request carries its arguments, and a pool once it resolved one.
CallsCarryArguments ==
    \A c \in Calls :
        /\ call[c].pc # "idle" => call[c].user \in Users /\ call[c].item \in Items /\ call[c].scope \in Scopes
        /\ call[c].pc \in {"check", "append"} => call[c].pool # NoPool
        /\ call[c].pool # NoPool => <<call[c].user, call[c].scope>> \in Member
        /\ call[c].pc = "append" => PoolScope[call[c].pool] = call[c].scope

\* A session id has a seat only once its own request was granted.
SessionsAreFresh ==
    \A c \in Calls : call[c].pc # "granted" => \A r \in rows : r.event = "RESERVED" => r.session # SessionOf[c]

\* A granted request was answered from the RESERVED row of its own key.
GrantsHaveRows ==
    \A c \in Calls : call[c].pc = "granted" =>
        \E r \in rows : /\ r.event = "RESERVED"
                        /\ r.key = ReserveKey(call[c].user, call[c].item)
                        /\ r.session = call[c].session

IInv ==
    /\ StoreInv
    /\ TypeOK
    /\ CallsCarryArguments
    /\ SessionsAreFresh
    /\ GrantsHaveRows
    /\ SeatsStayInScope

-----------------------------------------------------------------------------
LEMMA LedgerStarts == Init => IInv
<1> SUFFICES ASSUME Init PROVE IInv
  OBVIOUS
<1>1. StoreInv
  <2>1. [p \in Pools |-> "ACTIVE"] \in [Pools -> PoolStatuses]
    BY DEF PoolStatuses
  <2> QED
    BY <2>1, StoreStarts DEF Init
<1>2. TypeOK
  BY <1>1 DEF Init, TypeOK, StoreInv, CallRecords, Idle, Phases
<1>3. CallsCarryArguments /\ SessionsAreFresh /\ GrantsHaveRows /\ SeatsStayInScope
  BY DEF Init, StoreInit, Idle, CallsCarryArguments, SessionsAreFresh, GrantsHaveRows, SeatsStayInScope
<1> QED
  BY <1>1, <1>2, <1>3 DEF IInv

\* The key of a row found under a reservation's key is a reservation's.
LEMMA KeyedIsReserved ==
    ASSUME IInv, NEW u \in Users, NEW i \in Items, NEW r \in Keyed(ReserveKey(u, i))
    PROVE  r \in rows /\ r.event = "RESERVED" /\ r.session \in Sessions /\ r.key = ReserveKey(u, i)
<1>1. r \in rows /\ r.key = ReserveKey(u, i) /\ r \in Rows
  BY DEF Keyed, IInv, TypeOK, StoreTypeOK
<1>2. r.event # "RESERVED" => r.key = CloseKey(r.event, r.pool, r.session)
  BY <1>1 DEF IInv, StoreInv, ClosingKeyed
<1>3. r.event = "RESERVED"
  BY <1>1, <1>2 DEF ReserveKey, CloseKey, Rows
<1> QED
  BY <1>1, <1>3 DEF Rows

\* A request that moves on without a seat leaves the rest of the invariant alone.
LEMMA CallOnly ==
    ASSUME IInv, UNCHANGED <<rows, held, poolStatus>>, TypeOK',
           CallsCarryArguments', SessionsAreFresh', GrantsHaveRows'
    PROVE  IInv'
<1>1. StoreInv'
  BY StatusOnly DEF IInv, TypeOK, StoreTypeOK
<1>2. SeatsStayInScope'
  BY DEF IInv, SeatsStayInScope
<1> QED
  BY <1>1, <1>2 DEF IInv

-----------------------------------------------------------------------------
LEMMA ResolveKeeps ==
    ASSUME IInv, NEW c \in Calls, NEW u \in Users, NEW i \in Items, NEW sc \in Scopes, Resolve(c, u, i, sc)
    PROVE  IInv'
<1>1. PICK p \in Pools \cup {NoPool} :
        /\ call' = [call EXCEPT ![c] = [pc |-> "lookup", user |-> u, item |-> i, scope |-> sc, pool |-> p, session |-> NoSession]]
        /\ p # NoPool => p \in Candidates(u, sc)
  BY DEF Resolve, Candidates
<1>2. UNCHANGED <<rows, held, poolStatus, lapsed>> /\ call[c].pc = "idle"
  BY DEF Resolve
<1>3. TypeOK'
  BY <1>1, <1>2 DEF IInv, TypeOK, StoreTypeOK, CallRecords, Phases
<1>4. CallsCarryArguments'
  BY <1>1, <1>2 DEF IInv, TypeOK, CallsCarryArguments, Candidates
<1>5. SessionsAreFresh' /\ GrantsHaveRows'
  BY <1>1, <1>2 DEF IInv, TypeOK, SessionsAreFresh, GrantsHaveRows
<1> QED
  BY <1>2, <1>3, <1>4, <1>5, CallOnly

LEMMA GotoKeeps ==
    ASSUME IInv, UNCHANGED <<rows, held, poolStatus, lapsed>>, NEW c \in Calls,
           call[c].pc \in {"lookup", "check", "append"},
           \/ Goto(c, "refused")
           \/ Goto(c, "check") /\ call[c].pool # NoPool
           \/ Goto(c, "append") /\ call[c].pool # NoPool /\ PoolScope[call[c].pool] = call[c].scope
    PROVE  IInv'
<1>1. PICK pc \in {"refused", "check", "append"} :
        /\ call' = [call EXCEPT ![c].pc = pc]
        /\ pc # "refused" => call[c].pool # NoPool
        /\ pc = "append" => PoolScope[call[c].pool] = call[c].scope
  BY DEF Goto
<1>2. TypeOK'
  BY <1>1 DEF IInv, TypeOK, StoreTypeOK, CallRecords, Phases
<1>3. CallsCarryArguments'
  BY <1>1 DEF IInv, TypeOK, CallRecords, CallsCarryArguments
<1>4. SessionsAreFresh' /\ GrantsHaveRows'
  BY <1>1 DEF IInv, TypeOK, CallRecords, SessionsAreFresh, GrantsHaveRows
<1> QED
  BY <1>2, <1>3, <1>4, CallOnly

\* An answered request is still a request record.
LEMMA AnswerType ==
    ASSUME call \in [Calls -> CallRecords], NEW c \in Calls, NEW s \in Sessions, Answer(c, "granted", s)
    PROVE  /\ call' \in [Calls -> CallRecords]
           /\ call'[c].pc = "granted" /\ call'[c].session = s
           /\ call'[c].user = call[c].user /\ call'[c].item = call[c].item
           /\ call'[c].scope = call[c].scope /\ call'[c].pool = call[c].pool
           /\ \A d \in Calls : d # c => call'[d] = call[d]
<1>1. call[c] \in CallRecords
  OBVIOUS
<1>2. [call[c] EXCEPT !.pc = "granted", !.session = s] \in CallRecords
  BY <1>1 DEF CallRecords, Phases
<1>3. call' = [call EXCEPT ![c] = [call[c] EXCEPT !.pc = "granted", !.session = s]]
  BY DEF Answer
<1>4. call'[c] = [call[c] EXCEPT !.pc = "granted", !.session = s] /\ \A d \in Calls : d # c => call'[d] = call[d]
  BY <1>2, <1>3
<1> QED
  BY <1>1, <1>2, <1>3, <1>4 DEF CallRecords

\* A replay answers with the session of the row under the request's key.
LEMMA ReplayKeeps ==
    ASSUME IInv, UNCHANGED <<rows, held, poolStatus, lapsed>>, NEW c \in Calls,
           call[c].pc \in {"lookup", "append"},
           NEW r \in Keyed(ReserveKey(call[c].user, call[c].item)), Answer(c, "granted", r.session)
    PROVE  IInv'
<1>1. call[c].user \in Users /\ call[c].item \in Items
  BY DEF IInv, CallsCarryArguments
<1>2. r \in rows /\ r.event = "RESERVED" /\ r.session \in Sessions /\ r.key = ReserveKey(call[c].user, call[c].item)
  BY <1>1, KeyedIsReserved
<1>3. /\ call' \in [Calls -> CallRecords]
      /\ call'[c].pc = "granted" /\ call'[c].session = r.session
      /\ call'[c].user = call[c].user /\ call'[c].item = call[c].item
      /\ call'[c].scope = call[c].scope /\ call'[c].pool = call[c].pool
      /\ \A d \in Calls : d # c => call'[d] = call[d]
  BY <1>2, AnswerType DEF IInv, TypeOK
<1>4. TypeOK'
  BY <1>3 DEF IInv, TypeOK, StoreTypeOK
<1>5. CallsCarryArguments'
  BY <1>3 DEF IInv, TypeOK, CallRecords, CallsCarryArguments
<1>6. SessionsAreFresh'
  BY <1>3 DEF IInv, TypeOK, CallRecords, SessionsAreFresh
<1>7. GrantsHaveRows'
  BY <1>2, <1>3 DEF IInv, TypeOK, CallRecords, GrantsHaveRows
<1> QED
  BY <1>4, <1>5, <1>6, <1>7, CallOnly

LEMMA LookupKeeps == ASSUME IInv, NEW c \in Calls, Lookup(c) PROVE IInv'
<1>1. call[c].pc = "lookup" /\ UNCHANGED <<rows, held, poolStatus, lapsed>>
  BY DEF Lookup
<1>2. CASE \E r \in Keyed(ReserveKey(call[c].user, call[c].item)) : Answer(c, "granted", r.session)
  BY <1>1, <1>2, ReplayKeeps
<1>3. CASE Goto(c, "refused") \/ (call[c].pool # NoPool /\ Goto(c, "check"))
  BY <1>1, <1>3, GotoKeeps
<1> QED
  BY <1>2, <1>3 DEF Lookup

LEMMA CheckKeeps == ASSUME IInv, NEW c \in Calls, Check(c) PROVE IInv'
<1>1. call[c].pc = "check" /\ UNCHANGED <<rows, held, poolStatus, lapsed>> /\ call[c].pool # NoPool
  BY DEF Check, IInv, CallsCarryArguments
<1> QED
  BY <1>1, GotoKeeps DEF Check, Grants

LEMMA AppendKeeps == ASSUME IInv, NEW c \in Calls, AppendRow(c) PROVE IInv'
<1> DEFINE u == call[c].user
           i == call[c].item
           p == call[c].pool
           s == SessionOf[c]
<1>1. /\ call[c].pc = "append" /\ u \in Users /\ i \in Items /\ p \in Pools /\ s \in Sessions
      /\ <<u, PoolScope[p]>> \in Member /\ UNCHANGED lapsed
  BY LedgerAssumption DEF AppendRow, IInv, CallsCarryArguments, TypeOK, CallRecords
<1>2. CASE (\E r \in Keyed(ReserveKey(u, i)) : Answer(c, "granted", r.session)) /\ UNCHANGED storeVars
  BY <1>1, <1>2, ReplayKeeps DEF storeVars
<1>3. CASE Goto(c, "refused") /\ UNCHANGED storeVars
  BY <1>1, <1>3, GotoKeeps DEF storeVars
<1>4. CASE AppendReserved(p, u, s, ReserveKey(u, i)) /\ Answer(c, "granted", s)
  <2>1. Reserved(p, s) = {}
    BY <1>1 DEF IInv, SessionsAreFresh, Reserved
  <2>2. StoreInv'
    BY <1>1, <1>4, <2>1, ReservedKeepsStore DEF IInv
  <2>3. /\ call' \in [Calls -> CallRecords]
        /\ call'[c].pc = "granted" /\ call'[c].session = s
        /\ call'[c].user = call[c].user /\ call'[c].item = call[c].item
        /\ call'[c].scope = call[c].scope /\ call'[c].pool = call[c].pool
        /\ \A d \in Calls : d # c => call'[d] = call[d]
    BY <1>1, <1>4, AnswerType DEF IInv, TypeOK
  <2> DEFINE row == [pool |-> p, user |-> u, session |-> s, event |-> "RESERVED", key |-> ReserveKey(u, i)]
  <2>4. /\ rows' = rows \cup {row}
        /\ row.pool = p /\ row.user = u /\ row.session = s /\ row.event = "RESERVED" /\ row.key = ReserveKey(u, i)
    BY <1>4 DEF AppendReserved, Insert
  <2> HIDE DEF row
  <2>5. TypeOK'
    BY <1>1, <2>2, <2>3 DEF IInv, TypeOK, StoreInv
  <2>6. CallsCarryArguments'
    <3>1. CallsCarryArguments
      BY DEF IInv
    <3> QED
      BY <1>1, <2>3, <3>1 DEF CallsCarryArguments
  <2>7. SessionsAreFresh'
    BY <2>3, <2>4, LedgerAssumption DEF IInv, TypeOK, CallRecords, SessionsAreFresh
  <2>8. GrantsHaveRows'
    BY <2>3, <2>4 DEF IInv, TypeOK, CallRecords, GrantsHaveRows
  <2>9. SeatsStayInScope'
    BY <1>1, <2>4 DEF IInv, SeatsStayInScope
  <2> QED
    BY <2>2, <2>5, <2>6, <2>7, <2>8, <2>9 DEF IInv
<1> QED
  BY <1>2, <1>3, <1>4 DEF AppendRow

\* A closing row disturbs only the repository: no request and no reservation.
LEMMA ClosingKeeps ==
    ASSUME IInv, NEW p \in Pools, NEW u \in Users, NEW s \in Sessions,
           Consume(p, u, s) \/ Release(p, u, s)
    PROVE  IInv'
<1>1. StoreInv'
  BY ConsumedKeepsStore, ReleasedKeepsStore DEF IInv, Consume, Release
<1>2. UNCHANGED <<call, lapsed>>
  BY DEF Consume, Release
<1>3. PICK row : rows' = rows \cup {row} /\ row.event # "RESERVED"
  <2>1. PICK e \in {"CONSUMED", "RELEASED"} : Insert(p, u, s, e, CloseKey(e, p, s))
    BY DEF Consume, Release, AppendConsumed, AppendReleased
  <2>2. [pool |-> p, user |-> u, session |-> s, event |-> e, key |-> CloseKey(e, p, s)].event # "RESERVED"
    OBVIOUS
  <2> QED
    BY <2>1, <2>2 DEF Insert
<1>4. TypeOK' /\ CallsCarryArguments'
  BY <1>1, <1>2 DEF IInv, StoreInv, TypeOK, CallsCarryArguments
<1>5. SessionsAreFresh' /\ GrantsHaveRows' /\ SeatsStayInScope'
  BY <1>2, <1>3 DEF IInv, SessionsAreFresh, GrantsHaveRows, SeatsStayInScope
<1> QED
  BY <1>1, <1>4, <1>5 DEF IInv

LEMMA EnvironmentKeeps ==
    ASSUME IInv, NEW p \in Pools, StopPool(p) \/ Lapse(p)
    PROVE  IInv'
<1>1. /\ UNCHANGED <<rows, held, call>> /\ poolStatus' \in [Pools -> PoolStatuses] /\ lapsed' \subseteq Pools
  BY DEF StopPool, Lapse, SetStatus, IInv, TypeOK, StoreTypeOK, PoolStatuses
<1>2. StoreInv'
  BY <1>1, StatusOnly DEF IInv
<1> QED
  BY <1>1, <1>2 DEF IInv, StoreInv, TypeOK, CallsCarryArguments, SessionsAreFresh, GrantsHaveRows, SeatsStayInScope

LEMMA NextKeeps == IInv /\ [Next]_vars => IInv'
<1> SUFFICES ASSUME IInv, [Next]_vars PROVE IInv'
  OBVIOUS
<1>1. ASSUME NEW c \in Calls, NEW u \in Users, NEW i \in Items, NEW sc \in Scopes, Resolve(c, u, i, sc)
      PROVE  IInv'
  BY <1>1, ResolveKeeps
<1>2. ASSUME NEW c \in Calls, Reserving(c) PROVE IInv'
  BY <1>2, LookupKeeps, CheckKeeps, AppendKeeps DEF Reserving
<1>3. ASSUME NEW p \in Pools, NEW u \in Users, NEW s \in Sessions, Consume(p, u, s) \/ Release(p, u, s)
      PROVE  IInv'
  BY <1>3, ClosingKeeps
<1>4. ASSUME NEW p \in Pools, StopPool(p) \/ Lapse(p) PROVE IInv'
  BY <1>4, EnvironmentKeeps
<1>5. CASE UNCHANGED vars
  BY <1>5, StatusOnly
     DEF vars, IInv, TypeOK, StoreTypeOK, CallsCarryArguments, SessionsAreFresh, GrantsHaveRows, SeatsStayInScope
<1> QED
  BY <1>1, <1>2, <1>3, <1>4, <1>5 DEF Next

\* The inductive invariant holds in every reachable state.
THEOREM LedgerInvariant == Spec => []IInv
BY LedgerStarts, NextKeeps, PTL DEF Spec

-----------------------------------------------------------------------------
\* Every reachable state is well typed: in particular the held-seat counter of
\* a pool is a natural number, however reserve, consume and release interleave.
THEOREM LedgerTypeCorrect == Spec => []TypeOK
<1>1. IInv => TypeOK
  BY DEF IInv
<1> QED
  BY <1>1, LedgerInvariant, PTL

\* However many requests race, the counter of a pool is exactly the number of
\* seats held on it, and never more than the pool's quantity.
THEOREM CounterIsExact == Spec => []HeldCountsSeats
<1>1. IInv => HeldCountsSeats
  BY DEF IInv, StoreInv
<1> QED
  BY <1>1, LedgerInvariant, PTL

\* A seat is closed once, by the user who reserved it.
THEOREM SeatsCloseOnce == Spec => []OneOutcomePerSeat
<1>1. IInv => OneOutcomePerSeat
  BY DEF IInv, StoreInv
<1> QED
  BY <1>1, LedgerInvariant, PTL

\* Two requests of one user for one item that are both granted share a session.
THEOREM StartsShareASeat == Spec => []OneSeatPerItem
<1>1. IInv => OneSeatPerItem
  <2> SUFFICES ASSUME IInv, NEW c \in Calls, NEW d \in Calls,
                      call[c].pc = "granted", call[d].pc = "granted",
                      call[c].user = call[d].user, call[c].item = call[d].item
               PROVE  /\ call[c].session = call[d].session
                      /\ \E p \in Pools : Reserved(p, call[c].session) # {}
    BY DEF OneSeatPerItem
  <2>1. PICK r \in rows : /\ r.event = "RESERVED" /\ r.session = call[c].session
                          /\ r.key = ReserveKey(call[c].user, call[c].item)
    BY DEF IInv, GrantsHaveRows
  <2>2. PICK q \in rows : q.session = call[d].session /\ q.key = ReserveKey(call[d].user, call[d].item)
    BY DEF IInv, GrantsHaveRows
  <2>3. r = q
    BY <2>1, <2>2 DEF IInv, StoreInv, KeysAreUnique
  <2>4. r.pool \in Pools /\ r \in Reserved(r.pool, call[c].session)
    BY <2>1 DEF IInv, TypeOK, StoreTypeOK, Rows, Reserved
  <2> QED
    BY <2>2, <2>3, <2>1, <2>4
<1> QED
  BY <1>1, LedgerInvariant, PTL

\* A seat is only ever taken from a pool its user may draw on.
THEOREM SeatsKeepScope == Spec => []SeatsStayInScope
<1>1. IInv => SeatsStayInScope
  BY DEF IInv
<1> QED
  BY <1>1, LedgerInvariant, PTL

-----------------------------------------------------------------------------
(* The refinement: every step of the ledger takes, bills or returns one seat *)
(* of the abstract pool, or leaves it alone.                                 *)

SeatMap == [p \in Pools |-> [s \in Sessions |-> SeatOf(p, s)]]

\* What a seat is, read off the rows: the cases of SeatOf exclude one another.
LEMMA SeatCases ==
    ASSUME OneOutcomePerSeat, NEW p \in Pools, NEW s \in Sessions
    PROVE  /\ SeatOf(p, s) = "free" <=> (Reserved(p, s) = {} /\ Closing(p, s) = {})
           /\ SeatOf(p, s) = "open" <=> IsOpen(p, s)
           /\ SeatOf(p, s) = "billed" <=> IsConsumed(p, s)
           /\ SeatOf(p, s) = "returned" <=> IsReleased(p, s)
<1>1. ~(IsConsumed(p, s) /\ IsReleased(p, s))
  BY DEF OneOutcomePerSeat, IsConsumed, IsReleased, Closing
<1>2. IsOpen(p, s) => ~IsConsumed(p, s) /\ ~IsReleased(p, s)
  BY DEF IsOpen, IsConsumed, IsReleased
<1>3. Closing(p, s) # {} => IsConsumed(p, s) \/ IsReleased(p, s)
  BY DEF Closing, IsConsumed, IsReleased
<1>4. CASE IsConsumed(p, s)
  BY <1>1, <1>2, <1>4 DEF SeatOf, IsConsumed
<1>5. CASE IsReleased(p, s)
  BY <1>1, <1>2, <1>5 DEF SeatOf, IsReleased
<1>6. CASE IsOpen(p, s)
  BY <1>1, <1>2, <1>6 DEF SeatOf, IsOpen
<1>7. CASE ~IsConsumed(p, s) /\ ~IsReleased(p, s) /\ ~IsOpen(p, s)
  BY <1>3, <1>7 DEF SeatOf, IsOpen
<1> QED
  BY <1>4, <1>5, <1>6, <1>7

\* The abstract pool's occupied seats are the ones the ledger counts.
LEMMA OccupiedIsHeld ==
    ASSUME OneOutcomePerSeat, NEW p \in Pools
    PROVE  Seats!Occupied(p) = HeldSeats(p)
<1>1. \A s \in Sessions : SeatOf(p, s) \in {"open", "billed"} <=> (Reserved(p, s) # {} /\ ~IsReleased(p, s))
  <2> TAKE s \in Sessions
  <2>1. IsConsumed(p, s) => Reserved(p, s) # {} /\ ~IsReleased(p, s)
    BY DEF OneOutcomePerSeat, IsConsumed, IsReleased, Closing
  <2>2. Closing(p, s) # {} => IsConsumed(p, s) \/ IsReleased(p, s)
    BY DEF Closing, IsConsumed, IsReleased
  <2> QED
    BY SeatCases, <2>1, <2>2 DEF IsOpen, IsReleased
<1> QED
  BY <1>1 DEF Seats!Occupied, HeldSeats

\* One new row moves exactly its own seat.
LEMMA OneSeatMoves ==
    ASSUME OneOutcomePerSeat, OneOutcomePerSeat', NEW p \in Pools, NEW s \in Sessions,
           NEW row, rows' = rows \cup {row}, row.pool = p, row.session = s
    PROVE  SeatMap' = [SeatMap EXCEPT ![p][s] = SeatOf(p, s)']
<1>1. \A q \in Pools, t \in Sessions : (q # p \/ t # s) => Reserved(q, t)' = Reserved(q, t) /\ Closing(q, t)' = Closing(q, t)
  BY DEF Reserved, Closing
<1>2. \A q \in Pools, t \in Sessions : (q # p \/ t # s) => SeatOf(q, t)' = SeatOf(q, t)
  BY <1>1 DEF SeatOf, IsConsumed, IsReleased, IsOpen
<1> QED
  BY <1>2 DEF SeatMap

\* A new reservation takes a free seat of a pool that is not full.
LEMMA ReservationTakes ==
    ASSUME IInv, IInv', NEW p \in Pools, NEW u \in Users, NEW s \in Sessions, NEW i \in Items,
           AppendReserved(p, u, s, ReserveKey(u, i)), Reserved(p, s) = {}
    PROVE  Seats!Take(p, s)
<1> DEFINE row == [pool |-> p, user |-> u, session |-> s, event |-> "RESERVED", key |-> ReserveKey(u, i)]
<1>1. rows' = rows \cup {row} /\ row.pool = p /\ row.session = s /\ row.event = "RESERVED" /\ Remaining(p)
  BY DEF AppendReserved, Insert
<1> HIDE DEF row
<1>2. OneOutcomePerSeat /\ OneOutcomePerSeat' /\ HeldCountsSeats /\ held \in [Pools -> Nat]
  BY DEF IInv, StoreInv, StoreTypeOK
<1>3. Closing(p, s) = {}
  BY <1>2 DEF OneOutcomePerSeat, Closing
<1>4. Reserved(p, s)' # {} /\ Closing(p, s)' = {}
  BY <1>1, <1>3 DEF Reserved, Closing
<1>5. SeatOf(p, s) = "free"
  BY <1>2, <1>3, SeatCases
<1>6. SeatOf(p, s)' = "open"
  BY <1>4 DEF SeatOf, IsConsumed, IsReleased, IsOpen
<1>7. Cardinality(Seats!Occupied(p)) < Quantity[p]
  <2>1. Cardinality(Seats!Occupied(p)) = held[p]
    BY <1>2, OccupiedIsHeld DEF HeldCountsSeats
  <2> QED
    BY <1>1, <1>2, <2>1, StoreAssumption DEF Remaining
<1>8. SeatMap' = [SeatMap EXCEPT ![p][s] = "open"]
  BY <1>1, <1>2, <1>6, OneSeatMoves
<1>9. Seats!Move(p, s, "free", "open")
  BY <1>5, <1>8 DEF Seats!Move, SeatMap
<1> QED
  BY <1>7, <1>9 DEF Seats!Take, Cardinality, Seats!Cardinality

\* A closing row bills or returns an open seat.
LEMMA ClosingSettles ==
    ASSUME IInv, IInv', NEW p \in Pools, NEW u \in Users, NEW s \in Sessions
    PROVE  /\ AppendConsumed(p, u, s) => Seats!Bill(p, s)
           /\ AppendReleased(p, u, s) => Seats!Return(p, s)
<1>1. OneOutcomePerSeat /\ OneOutcomePerSeat'
  BY DEF IInv, StoreInv
<1>2. ASSUME MayClose(p, u, s), NEW e \in {"CONSUMED", "RELEASED"}, Insert(p, u, s, e, CloseKey(e, p, s))
      PROVE  Seats!Move(p, s, "open", IF e = "CONSUMED" THEN "billed" ELSE "returned")
  <2> DEFINE row == [pool |-> p, user |-> u, session |-> s, event |-> e, key |-> CloseKey(e, p, s)]
  <2>1. rows' = rows \cup {row} /\ row.pool = p /\ row.session = s /\ row.event = e
    BY <1>2 DEF Insert
  <2> HIDE DEF row
  <2>2. IsOpen(p, s)
    BY <1>2 DEF MayClose, IsOpen
  <2>3. SeatOf(p, s) = "open"
    BY <1>1, <2>2, SeatCases
  <2>4. row \in Closing(p, s)'
    BY <2>1 DEF Closing
  <2>5. SeatOf(p, s)' = IF e = "CONSUMED" THEN "billed" ELSE "returned"
    <3>1. Closing(p, s)' = {row}
      BY <2>1, <2>2 DEF Closing, IsOpen
    <3>2. (IsConsumed(p, s)' <=> e = "CONSUMED") /\ (IsReleased(p, s)' <=> e = "RELEASED") /\ ~IsOpen(p, s)'
      BY <2>1, <3>1 DEF IsConsumed, IsReleased, IsOpen
    <3> QED
      BY <3>2 DEF SeatOf
  <2>6. SeatMap' = [SeatMap EXCEPT ![p][s] = SeatOf(p, s)']
    BY <1>1, <2>1, OneSeatMoves
  <2> QED
    BY <2>3, <2>5, <2>6 DEF Seats!Move, SeatMap
<1> QED
  BY <1>2 DEF AppendConsumed, AppendReleased, Seats!Bill, Seats!Return

LEMMA RowsKeptSeatsKept == ASSUME rows' = rows PROVE SeatMap' = SeatMap
BY DEF SeatMap, SeatOf, IsConsumed, IsReleased, IsOpen, Reserved, Closing

LEMMA AppendRefines ==
    ASSUME IInv, IInv', NEW c \in Calls, AppendRow(c)
    PROVE  (\E p \in Pools, s \in Sessions : Seats!Take(p, s)) \/ SeatMap' = SeatMap
<1>1. CASE UNCHANGED storeVars
  BY <1>1, RowsKeptSeatsKept DEF storeVars
<1>2. CASE AppendReserved(call[c].pool, call[c].user, SessionOf[c], ReserveKey(call[c].user, call[c].item))
  <2>1. /\ call[c].pc = "append" /\ call[c].user \in Users /\ call[c].item \in Items
        /\ call[c].pool \in Pools /\ SessionOf[c] \in Sessions
    BY LedgerAssumption DEF AppendRow, IInv, CallsCarryArguments, TypeOK, CallRecords
  <2>2. Reserved(call[c].pool, SessionOf[c]) = {}
    BY <2>1 DEF IInv, SessionsAreFresh, Reserved
  <2> QED
    BY <1>2, <2>1, <2>2, ReservationTakes
<1> QED
  BY <1>1, <1>2 DEF AppendRow

LEMMA StepRefines ==
    ASSUME IInv, IInv', [Next]_vars
    PROVE  Seats!Next \/ SeatMap' = SeatMap
<1>1. CASE \E c \in Calls : AppendRow(c)
  BY <1>1, AppendRefines DEF Seats!Next
<1>2. CASE \E p \in Pools, u \in Users, s \in Sessions : Consume(p, u, s) \/ Release(p, u, s)
  BY <1>2, ClosingSettles DEF Consume, Release, Seats!Next
<1>3. CASE rows' = rows
  BY <1>3, RowsKeptSeatsKept
<1> QED
  BY <1>1, <1>2, <1>3 DEF Next, Reserving, Resolve, Lookup, Check, StopPool, SetStatus, Lapse, vars

\* The ledger implements the abstract seat pool: with any number of requests
\* racing, each pool behaves as if one clerk sold, billed and took back seats.
THEOREM LedgerImplementsSeatPool == Spec => ImplementsSeatPool
<1>1. Init => Seats!Init
  <2> SUFFICES ASSUME Init PROVE Seats!Init
    OBVIOUS
  <2>1. \A p \in Pools, s \in Sessions : SeatOf(p, s) = "free"
    BY DEF Init, StoreInit, SeatOf, IsConsumed, IsReleased, IsOpen, Reserved, Closing
  <2> QED
    BY <2>1 DEF Seats!Init
<1>2. IInv /\ IInv' /\ [Next]_vars => [Seats!Next]_SeatMap
  BY StepRefines
<1> QED
  BY <1>1, <1>2, LedgerInvariant, PTL DEF Spec, ImplementsSeatPool, Seats!Spec, SeatMap

-----------------------------------------------------------------------------
(***************************************************************************)
(* What activations and closes guarantee for any number of contracts,      *)
(* administrators and students.  The inductive invariant records how far a *)
(* contract has come: what the pool's status may be for the contract's, and*)
(* what a request knows at the step it is at.  The ledger's own invariant  *)
(* is reused as it stands: a billing step changes only a pool's status.    *)
(***************************************************************************)

\* Activation is remembered exactly by the contracts that went past DRAFT through it.
ActivationIsDated ==
    \A p \in Pools :
        /\ contract[p] = "DRAFT" => p \notin activated
        /\ contract[p] \in {"ACTIVE", "ENDED"} => p \in activated

\* The pool is there before the contract is active, live only after, and
\* stopped only when the contract is closed.
PoolFollowsContract ==
    \A p \in Pools :
        /\ p \in activated => poolStatus[p] # "ABSENT"
        /\ poolStatus[p] = "ACTIVE" => p \in activated
        /\ poolStatus[p] \in {"EXPIRED", "REVOKED"} => contract[p] \in Closed

\* What a request in flight has already seen or written.
RequestsKnow ==
    \A a \in Admins, p \in Pools :
        /\ At(a, "transition", p) => poolStatus[p] # "ABSENT"
        /\ At(a, "reread", p) => contract[p] # "DRAFT"
        /\ At(a, "revoke", p) => contract[p] \in Closed
        /\ At(a, "live", p) => p \in activated
        /\ At(a, "stop", p) => contract[p] \in Closed
        /\ At(a, "activated", p) => p \in activated /\ poolStatus[p] # "SUSPENDED"

\* A student's start only ever holds a pool that was live when it looked.
StartsUseActivated == \A c \in Calls : call[c].pool # NoPool => call[c].pool \in activated

BInv ==
    /\ IInv
    /\ BillingTypeOK
    /\ ActivationIsDated
    /\ PoolFollowsContract
    /\ RequestsKnow
    /\ StartsUseActivated
    /\ SeatsNeedAnActivation

-----------------------------------------------------------------------------
LEMMA BillingStarts == BillingInit => BInv
<1> SUFFICES ASSUME BillingInit PROVE BInv
  OBVIOUS
<1>1. StoreInv
  <2>1. [p \in Pools |-> "ABSENT"] \in [Pools -> PoolStatuses]
    BY DEF PoolStatuses
  <2> QED
    BY <2>1, StoreStarts DEF BillingInit
<1>2. TypeOK
  BY <1>1 DEF BillingInit, TypeOK, StoreInv, CallRecords, Idle, Phases
<1>3. IInv
  BY <1>1, <1>2 DEF BillingInit, StoreInit, Idle, IInv, CallsCarryArguments, SessionsAreFresh, GrantsHaveRows, SeatsStayInScope
<1>4. BillingTypeOK
  BY <1>2 DEF BillingInit, BillingTypeOK, AdminSteps
<1>5. ActivationIsDated /\ PoolFollowsContract /\ RequestsKnow
  BY DEF BillingInit, StoreInit, ActivationIsDated, PoolFollowsContract, RequestsKnow, At
<1>6. StartsUseActivated /\ SeatsNeedAnActivation
  BY DEF BillingInit, StoreInit, Idle, StartsUseActivated, SeatsNeedAnActivation
<1> QED
  BY <1>3, <1>4, <1>5, <1>6 DEF BInv

-----------------------------------------------------------------------------
(* The students' half *)

\* A student's step is a step of the ledger that leaves every status alone.
LEMMA SeatingIsLedger ==
    ASSUME IInv, Seating
    PROVE  IInv' /\ UNCHANGED poolStatus /\ UNCHANGED contractVars
<1>1. [Next]_vars /\ UNCHANGED contractVars
  BY DEF Seating, Next
<1>2. UNCHANGED poolStatus
  BY DEF Seating, Resolve, Reserving, Lookup, Check, AppendRow, AppendReserved, storeVars, Consume, AppendConsumed, Release, AppendReleased, Lapse
<1> QED
  BY <1>1, <1>2, NextKeeps

\* A start takes up a pool only through the resolver, which wants it live.
LEMMA StartsKeepActivated ==
    ASSUME BInv, Seating
    PROVE  StartsUseActivated'
<1>1. activated' = activated /\ call \in [Calls -> CallRecords]
  BY DEF Seating, contractVars, BInv, IInv, TypeOK
<1>2. ASSUME NEW c \in Calls, NEW u \in Users, NEW i \in Items, NEW sc \in Scopes, Resolve(c, u, i, sc)
      PROVE  StartsUseActivated'
  <2>1. PICK p \in Pools \cup {NoPool} :
          /\ call' = [call EXCEPT ![c] = [pc |-> "lookup", user |-> u, item |-> i, scope |-> sc, pool |-> p, session |-> NoSession]]
          /\ p # NoPool => p \in Candidates(u, sc)
    BY <1>2 DEF Resolve, Candidates
  <2>2. p # NoPool => p \in activated
    BY <2>1 DEF Candidates, Usable, BInv, PoolFollowsContract
  <2> QED
    BY <1>1, <2>1, <2>2 DEF BInv, StartsUseActivated
<1>3. ASSUME NEW c \in Calls, Reserving(c)
      PROVE  StartsUseActivated'
  <2>1. \A d \in Calls : call'[d].pool = call[d].pool
    BY <1>1, <1>3 DEF Reserving, Lookup, Check, AppendRow, Answer, Goto, CallRecords
  <2> QED
    BY <1>1, <2>1 DEF BInv, StartsUseActivated
<1>4. CASE UNCHANGED call
  BY <1>1, <1>4 DEF BInv, StartsUseActivated
<1> QED
  BY <1>2, <1>3, <1>4 DEF Seating, Consume, Release, Lapse

\* A new row is a start's own, or closes a seat that is already there.
LEMMA SeatingNeedsActivation ==
    ASSUME BInv, Seating
    PROVE  \A r \in rows' : r.pool \in activated
<1>1. \A r \in rows : r.pool \in activated
  BY DEF BInv, SeatsNeedAnActivation
<1>2. ASSUME NEW c \in Calls, AppendRow(c)
      PROVE  \A r \in rows' : r.pool \in activated
  <2>1. call[c].pool # NoPool
    BY <1>2 DEF AppendRow, BInv, IInv, CallsCarryArguments
  <2>2. call[c].pool \in activated
    BY <2>1 DEF BInv, StartsUseActivated
  <2> QED
    BY <1>1, <1>2, <2>2 DEF AppendRow, AppendReserved, Insert, storeVars
<1>3. ASSUME NEW p \in Pools, NEW u \in Users, NEW s \in Sessions, Consume(p, u, s) \/ Release(p, u, s)
      PROVE  \A r \in rows' : r.pool \in activated
  <2>1. p \in activated
    BY <1>1, <1>3 DEF Consume, Release, AppendConsumed, AppendReleased, MayClose, Reserved
  <2> QED
    BY <1>1, <1>3, <2>1 DEF Consume, Release, AppendConsumed, AppendReleased, Insert
<1>4. CASE UNCHANGED rows
  BY <1>1, <1>4
<1> QED
  BY <1>2, <1>3, <1>4 DEF Seating, Resolve, Reserving, Lookup, Check, Lapse

LEMMA SeatingKeeps == ASSUME BInv, Seating PROVE BInv'
<1>1. IInv' /\ UNCHANGED <<poolStatus, contract, activated, admin>>
  BY SeatingIsLedger DEF BInv, contractVars
<1>2. BillingTypeOK'
  BY <1>1 DEF BInv, IInv, BillingTypeOK
<1>3. ActivationIsDated' /\ PoolFollowsContract' /\ RequestsKnow'
  BY <1>1 DEF BInv, ActivationIsDated, PoolFollowsContract, RequestsKnow, At
<1>4. SeatsNeedAnActivation'
  BY <1>1, SeatingNeedsActivation DEF BInv, SeatsNeedAnActivation, PoolFollowsContract
<1> QED
  BY <1>1, <1>2, <1>3, <1>4, StartsKeepActivated DEF BInv

-----------------------------------------------------------------------------
(* The administrators' half *)

\* A billing step touches no seat and no start, and forgets no activation.
LEMMA BillingIsStatus ==
    ASSUME BInv, NEW a \in Admins, NEW p \in Pools, Billing(a, p)
    PROVE  /\ UNCHANGED <<rows, held, call, lapsed>>
           /\ poolStatus' \in [Pools -> PoolStatuses]
           /\ contract' \in [Pools -> {"DRAFT", "ACTIVE"} \cup Closed]
           /\ activated' \subseteq Pools /\ activated \subseteq activated'
           /\ admin' \in [Admins -> [pc: AdminSteps, pool: Pools \cup {NoPool}]]
<1> USE DEF BInv, IInv, TypeOK, StoreTypeOK, BillingTypeOK, SeatsUntouched, storeVars, Move, AdminSteps, Closed, PoolStatuses,
            CreatePool, SetStatus
<1>1. CASE ActivateRead(a, p)
  BY <1>1 DEF ActivateRead
<1>2. CASE ActivateMint(a, p)
  BY <1>2 DEF ActivateMint
<1>3. CASE ActivateTransition(a, p)
  BY <1>3 DEF ActivateTransition, Transition
<1>4. CASE ActivateReread(a, p)
  BY <1>4 DEF ActivateReread
<1>5. CASE ActivateRevoke(a, p)
  BY <1>5 DEF ActivateRevoke
<1>6. CASE LivePool(a, p)
  BY <1>6 DEF LivePool
<1>7. ASSUME NEW to \in Closed, CloseContract(a, p, to)
      PROVE  /\ UNCHANGED <<rows, held, call, lapsed>>
             /\ poolStatus' \in [Pools -> PoolStatuses]
             /\ contract' \in [Pools -> {"DRAFT", "ACTIVE"} \cup Closed]
             /\ activated' \subseteq Pools /\ activated \subseteq activated'
             /\ admin' \in [Admins -> [pc: AdminSteps, pool: Pools \cup {NoPool}]]
  BY <1>7 DEF CloseContract, Transition
<1>8. CASE CloseStop(a, p)
  <2>1. contract[p] \in Closed
    BY <1>8 DEF CloseStop, RequestsKnow
  <2> QED
    BY <1>8, <2>1 DEF CloseStop, PoolAfter
<1>9. CASE AdminFails(a, p)
  BY <1>9 DEF AdminFails
<1> QED
  BY <1>1, <1>2, <1>3, <1>4, <1>5, <1>6, <1>7, <1>8, <1>9 DEF Billing

\* One step per request step: how far the contract and its pool have come.
LEMMA BillingKeepsMilestones ==
    ASSUME BInv, NEW a \in Admins, NEW p \in Pools, Billing(a, p)
    PROVE  ActivationIsDated' /\ PoolFollowsContract' /\ RequestsKnow'
<1> USE DEF ActivationIsDated, PoolFollowsContract, RequestsKnow, At, Move, Closed, CreatePool, SetStatus, storeVars
<1>0. /\ BillingTypeOK /\ ActivationIsDated /\ PoolFollowsContract /\ RequestsKnow
      /\ poolStatus \in [Pools -> PoolStatuses]
  BY DEF BInv, IInv, TypeOK, StoreTypeOK
<1>1. CASE ActivateRead(a, p)
  BY <1>0, <1>1 DEF ActivateRead, BillingTypeOK
<1>2. CASE ActivateMint(a, p)
  BY <1>0, <1>2 DEF ActivateMint, BillingTypeOK
<1>3. CASE ActivateTransition(a, p)
  BY <1>0, <1>3 DEF ActivateTransition, Transition, BillingTypeOK
<1>4. CASE ActivateReread(a, p)
  BY <1>0, <1>4 DEF ActivateReread, BillingTypeOK
<1>5. CASE ActivateRevoke(a, p)
  BY <1>0, <1>5 DEF ActivateRevoke, BillingTypeOK
<1>6. CASE LivePool(a, p)
  BY <1>0, <1>6 DEF LivePool, BillingTypeOK
<1>7. ASSUME NEW to \in Closed, CloseContract(a, p, to)
      PROVE  ActivationIsDated' /\ PoolFollowsContract' /\ RequestsKnow'
  BY <1>0, <1>7 DEF CloseContract, Transition, BillingTypeOK
<1>8. CASE CloseStop(a, p)
  <2>1. contract[p] \in {"ENDED", "CANCELLED"} /\ contract[p] \in Closed
    BY <1>0, <1>8 DEF CloseStop
  <2>2. PoolAfter["ENDED"] = "EXPIRED" /\ PoolAfter["CANCELLED"] = "REVOKED"
    BY DEF PoolAfter
  <2>3. PICK st \in {"EXPIRED", "REVOKED"} : PoolAfter[contract[p]] = st
    BY <2>1, <2>2
  <2> QED
    BY <1>0, <1>8, <2>1, <2>3 DEF CloseStop, BillingTypeOK
<1>9. CASE AdminFails(a, p)
  BY <1>0, <1>9 DEF AdminFails, BillingTypeOK
<1> QED
  BY <1>1, <1>2, <1>3, <1>4, <1>5, <1>6, <1>7, <1>8, <1>9 DEF Billing

LEMMA BillingKeeps ==
    ASSUME BInv, NEW a \in Admins, NEW p \in Pools, Billing(a, p)
    PROVE  BInv'
<1>1. /\ UNCHANGED <<rows, held, call, lapsed>> /\ activated \subseteq activated'
      /\ poolStatus' \in [Pools -> PoolStatuses]
  BY BillingIsStatus
<1>2. StoreInv'
  BY <1>1, StatusOnly DEF BInv, IInv
<1>3. IInv' /\ TypeOK'
  BY <1>1, <1>2 DEF BInv, IInv, TypeOK, StoreInv, CallsCarryArguments, SessionsAreFresh, GrantsHaveRows, SeatsStayInScope
<1>4. BillingTypeOK'
  BY <1>3, BillingIsStatus DEF BillingTypeOK
<1>5. ActivationIsDated' /\ PoolFollowsContract' /\ RequestsKnow'
  BY BillingKeepsMilestones
<1>6. StartsUseActivated'
  BY <1>1 DEF BInv, StartsUseActivated
<1>7. SeatsNeedAnActivation'
  BY <1>1, <1>5 DEF BInv, SeatsNeedAnActivation, PoolFollowsContract
<1> QED
  BY <1>3, <1>4, <1>5, <1>6, <1>7 DEF BInv

LEMMA BillingNextKeeps == BInv /\ [BillingNext]_billingVars => BInv'
<1> SUFFICES ASSUME BInv, [BillingNext]_billingVars PROVE BInv'
  OBVIOUS
<1>1. CASE Seating
  BY <1>1, SeatingKeeps
<1>2. ASSUME NEW a \in Admins, NEW p \in Pools, Billing(a, p) PROVE BInv'
  BY <1>2, BillingKeeps
<1>3. CASE UNCHANGED billingVars
  <2>1. UNCHANGED vars /\ UNCHANGED <<contract, activated, admin>> /\ IInv
    BY <1>3 DEF billingVars, vars, BInv
  <2>2. IInv'
    BY <2>1, NextKeeps
  <2> QED
    BY <2>1, <2>2 DEF vars, BInv, IInv, BillingTypeOK, ActivationIsDated, PoolFollowsContract, RequestsKnow, At, StartsUseActivated,
                      SeatsNeedAnActivation
<1> QED
  BY <1>1, <1>2, <1>3 DEF BillingNext

THEOREM BillingInvariant == BillingSpec => []BInv
BY BillingStarts, BillingNextKeeps, PTL DEF BillingSpec

-----------------------------------------------------------------------------
\* Every reachable state of billing and the ledger together is well typed.
THEOREM BillingTypeCorrect == BillingSpec => []BillingTypeOK
<1>1. BInv => BillingTypeOK
  BY DEF BInv
<1> QED
  BY <1>1, BillingInvariant, PTL

\* No seat is ever reserved under a contract nobody activated.
THEOREM SeatsAreContracted == BillingSpec => []SeatsNeedAnActivation
<1>1. BInv => SeatsNeedAnActivation
  BY DEF BInv
<1> QED
  BY <1>1, BillingInvariant, PTL

\* The seat counter stays exact while contracts come and go.
THEOREM ContractsKeepCounter == BillingSpec => []HeldCountsSeats
<1>1. BInv => HeldCountsSeats
  BY DEF BInv, IInv, StoreInv
<1> QED
  BY <1>1, BillingInvariant, PTL

\* An acknowledged activation left a live pool under an active contract.
THEOREM ActivationsAreRepaired == BillingSpec => []ActivationIsRepaired
<1>1. BInv => ActivationIsRepaired
  <2> SUFFICES ASSUME BInv, NEW a \in Admins, NEW p \in Pools, At(a, "activated", p), contract[p] = "ACTIVE"
               PROVE  poolStatus[p] = "ACTIVE"
    BY DEF ActivationIsRepaired
  <2>1. poolStatus[p] \in PoolStatuses
    BY DEF BInv, IInv, TypeOK, StoreTypeOK
  <2>2. poolStatus[p] \notin {"ABSENT", "SUSPENDED", "EXPIRED", "REVOKED"}
    BY DEF BInv, RequestsKnow, PoolFollowsContract, Closed
  <2> QED
    BY <2>1, <2>2 DEF PoolStatuses
<1> QED
  BY <1>1, BillingInvariant, PTL

\* Seats follow the activation of their contract, however administrators race and fail.
THEOREM ActivationsAreSound == BillingSpec => []ActivationSound
BY SeatsAreContracted, ActivationsAreRepaired, PTL DEF ActivationSound

\* A stopped pool is never brought back: every write of a pool's status
\* compares it with the statuses a living pool may have.
THEOREM StoppedPoolsStayStopped == BillingSpec => StoppedForGood
<1> DEFINE Stays == \A p \in Pools : poolStatus[p] \in {"EXPIRED", "REVOKED"} => poolStatus'[p] = poolStatus[p]
<1>1. BInv /\ [BillingNext]_billingVars => [Stays]_billingVars
  <2> SUFFICES ASSUME BInv, BillingNext PROVE Stays
    BY DEF billingVars
  <2>1. CASE Seating
    BY <2>1, SeatingIsLedger DEF BInv
  <2>2. ASSUME NEW a \in Admins, NEW p \in Pools, Billing(a, p) PROVE Stays
    <3>1. poolStatus \in [Pools -> PoolStatuses]
      BY DEF BInv, IInv, TypeOK, StoreTypeOK
    <3>2. CASE ActivateMint(a, p)
      BY <3>1, <3>2 DEF ActivateMint, CreatePool
    <3>3. CASE ActivateRevoke(a, p)
      BY <3>1, <3>3 DEF ActivateRevoke, SetStatus
    <3>4. CASE LivePool(a, p)
      BY <3>1, <3>4 DEF LivePool, SetStatus
    <3>5. CASE CloseStop(a, p)
      BY <3>1, <3>5 DEF CloseStop, SetStatus
    <3>6. CASE UNCHANGED poolStatus
      BY <3>6
    <3> QED
      BY <2>2, <3>2, <3>3, <3>4, <3>5, <3>6
         DEF Billing, ActivateRead, ActivateTransition, ActivateReread, CloseContract, AdminFails, storeVars
  <2> QED
    BY <2>1, <2>2 DEF BillingNext
<1> QED
  BY <1>1, BillingInvariant, PTL DEF BillingSpec, StoppedForGood

-----------------------------------------------------------------------------
(* Closing: what holds when the request that closes is not cut short *)

\* A pool that its closed contract could still make live has a close on its way.
StopsPending ==
    \A p \in Pools : (contract[p] \in Closed /\ p \in activated /\ poolStatus[p] \in {"SUSPENDED", "ACTIVE"})
        => \E a \in Admins : At(a, "stop", p)

LEMMA StopsStayPending ==
    ASSUME "close" \notin MayFail, BInv, StopsPending, [BillingNext]_billingVars
    PROVE  StopsPending'
<1> USE DEF StopsPending, At, Move
<1>0. BillingTypeOK /\ RequestsKnow /\ PoolFollowsContract /\ ActivationIsDated /\ poolStatus \in [Pools -> PoolStatuses]
  BY DEF BInv, IInv, TypeOK, StoreTypeOK
<1>1. CASE Seating
  <2>1. UNCHANGED <<poolStatus, contract, activated, admin>>
    BY <1>1, SeatingIsLedger DEF BInv, contractVars
  <2> QED
    BY <2>1
<1>2. ASSUME NEW a \in Admins, NEW p \in Pools, Billing(a, p) PROVE StopsPending'
  <2>1. CASE ActivateRead(a, p)
    BY <1>0, <2>1 DEF ActivateRead, BillingTypeOK, storeVars
  <2>2. CASE ActivateMint(a, p)
    BY <1>0, <2>2 DEF ActivateMint, CreatePool, BillingTypeOK, PoolFollowsContract
  <2>3. CASE ActivateTransition(a, p)
    BY <1>0, <2>3 DEF ActivateTransition, Transition, BillingTypeOK, Closed, storeVars
  <2>4. CASE ActivateReread(a, p)
    BY <1>0, <2>4 DEF ActivateReread, BillingTypeOK, storeVars
  <2>5. CASE ActivateRevoke(a, p)
    BY <1>0, <2>5 DEF ActivateRevoke, SetStatus, BillingTypeOK
  <2>6. CASE LivePool(a, p)
    BY <1>0, <2>6 DEF LivePool, SetStatus, BillingTypeOK, RequestsKnow
  <2>7. ASSUME NEW to \in Closed, CloseContract(a, p, to) PROVE StopsPending'
    BY <1>0, <2>7 DEF CloseContract, Transition, BillingTypeOK, storeVars
  <2>8. CASE CloseStop(a, p)
    <3>1. contract[p] \in {"ENDED", "CANCELLED"}
      BY <1>0, <2>8 DEF CloseStop, RequestsKnow, Closed
    <3>2. PoolAfter["ENDED"] = "EXPIRED" /\ PoolAfter["CANCELLED"] = "REVOKED"
      BY DEF PoolAfter
    <3>3. PICK st \in {"EXPIRED", "REVOKED"} : PoolAfter[contract[p]] = st
      BY <3>1, <3>2
    <3> QED
      BY <1>0, <2>8, <3>3 DEF CloseStop, SetStatus, BillingTypeOK
  <2>9. CASE AdminFails(a, p)
    BY <1>0, <2>9 DEF AdminFails, BillingTypeOK, storeVars
  <2> QED
    BY <1>2, <2>1, <2>2, <2>3, <2>4, <2>5, <2>6, <2>7, <2>8, <2>9 DEF Billing
<1>3. CASE UNCHANGED billingVars
  BY <1>3 DEF billingVars
<1> QED
  BY <1>1, <1>2, <1>3 DEF BillingNext

\* Whatever activation races with it, a close that runs to its end leaves no
\* live pool under the contract it closed.
THEOREM ClosedContractsStop ==
    ASSUME "close" \notin MayFail
    PROVE  BillingSpec => []ClosedContractStopsItsPool
<1>1. BillingInit => StopsPending
  BY DEF BillingInit, StopsPending, Closed
<1>2. BInv /\ StopsPending /\ [BillingNext]_billingVars => StopsPending'
  BY StopsStayPending
<1>3. BInv /\ StopsPending => ClosedContractStopsItsPool
  BY DEF BInv, PoolFollowsContract, StopsPending, ClosedContractStopsItsPool
<1> QED
  BY <1>1, <1>2, <1>3, BillingInvariant, PTL DEF BillingSpec

==============================================================================
