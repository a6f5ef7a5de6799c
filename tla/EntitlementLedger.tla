------------------------- MODULE EntitlementLedger -------------------------
(***************************************************************************)
(* The entitlement ledger (server/domain/entitlements/ledger.js) over the  *)
(* repository, with the resolver (resolver.js) that feeds it.  `reserve` is *)
(* a chain of awaits, so each concurrent call is a process that moves one   *)
(* store read at a time: resolve, look the key up, check the entitlement,   *)
(* append.  `consume` and `release` read only that the entitlement exists   *)
(* before their one atomic write, so each is a single action.               *)
(***************************************************************************)
EXTENDS LedgerStore

CONSTANTS
    Calls,       \* concurrent reserve requests
    Scopes,      \* an organization, or one user's personal scope
    PoolScope,   \* [Pools -> Scopes], organizationId / userId of the entitlement
    Member,      \* SUBSET (Users \X Scopes): whose sponsorship a user may draw on
    SessionOf,   \* [Calls -> Sessions], each call's own randomUUID
    NoUser, NoItem, NoScope

ASSUME LedgerAssumption ==
    /\ PoolScope \in [Pools -> Scopes]
    /\ Member \subseteq Users \X Scopes
    /\ SessionOf \in [Calls -> Sessions]
    /\ \A c, d \in Calls : SessionOf[c] = SessionOf[d] => c = d
    /\ NoUser \notin Users /\ NoItem \notin Items /\ NoScope \notin Scopes

VARIABLES
    call,        \* per request: program counter, arguments, what it read, its answer
    lapsed       \* pools whose validUntil the clock has passed

vars == <<rows, held, poolStatus, call, lapsed>>

Phases == {"idle", "lookup", "check", "append", "granted", "refused"}

Idle == [pc |-> "idle", user |-> NoUser, item |-> NoItem, scope |-> NoScope, pool |-> NoPool, session |-> NoSession]

CallRecords == [pc: Phases, user: Users \cup {NoUser}, item: Items \cup {NoItem}, scope: Scopes \cup {NoScope},
                pool: Pools \cup {NoPool}, session: Sessions \cup {NoSession}]

TypeOK ==
    /\ StoreTypeOK
    /\ call \in [Calls -> CallRecords]
    /\ lapsed \subseteq Pools

Init ==
    /\ StoreInit([p \in Pools |-> "ACTIVE"])
    /\ call = [c \in Calls |-> Idle]
    /\ lapsed = {}

-----------------------------------------------------------------------------
(* The resolver *)

Usable(p) == poolStatus[p] = "ACTIVE" /\ p \notin lapsed /\ Remaining(p)

\* The pools a request of u in scope sc may be answered from; none when u is no member.
Candidates(u, sc) == {p \in Pools : <<u, sc>> \in Member /\ PoolScope[p] = sc /\ Usable(p)}

-----------------------------------------------------------------------------
(* reserve *)

Answer(c, pc, s) == call' = [call EXCEPT ![c].pc = pc, ![c].session = s]

Goto(c, pc) == call' = [call EXCEPT ![c].pc = pc]

\* The resolution is computed first and handed to reserve; an empty pool
\* choice is a resolution that is not allowed.
Resolve(c, u, i, sc) ==
    /\ call[c].pc = "idle"
    /\ \E p \in IF Candidates(u, sc) = {} THEN {NoPool} ELSE Candidates(u, sc) :
          call' = [call EXCEPT ![c] = [pc |-> "lookup", user |-> u, item |-> i, scope |-> sc, pool |-> p, session |-> NoSession]]
    /\ UNCHANGED <<rows, held, poolStatus, lapsed>>

\* A known key replays its row before the resolution is even looked at.
Lookup(c) ==
    /\ call[c].pc = "lookup"
    /\ LET found == Keyed(ReserveKey(call[c].user, call[c].item)) IN
         \/ \E r \in found : Answer(c, "granted", r.session)
         \/ found = {} /\ call[c].pool = NoPool /\ Goto(c, "refused")
         \/ found = {} /\ call[c].pool # NoPool /\ Goto(c, "check")
    /\ UNCHANGED <<rows, held, poolStatus, lapsed>>

\* getEntitlement, assertScope, validUntil and status, all on one read of the row.
Grants(c) ==
    LET p == call[c].pool IN
    /\ PoolScope[p] = call[c].scope
    /\ p \notin lapsed
    /\ poolStatus[p] = "ACTIVE"

Check(c) ==
    /\ call[c].pc = "check"
    /\ \/ Grants(c) /\ Goto(c, "append")
       \/ ~Grants(c) /\ Goto(c, "refused")
    /\ UNCHANGED <<rows, held, poolStatus, lapsed>>

\* appendEvent: replay, "No seats remain", or a new RESERVED row.
AppendRow(c) ==
    LET k == ReserveKey(call[c].user, call[c].item)
        p == call[c].pool IN
    /\ call[c].pc = "append"
    /\ \/ /\ \E r \in Keyed(k) : Answer(c, "granted", r.session)
          /\ UNCHANGED storeVars
       \/ /\ Keyed(k) = {}
          /\ ~Remaining(p)
          /\ Goto(c, "refused")
          /\ UNCHANGED storeVars
       \/ /\ AppendReserved(p, call[c].user, SessionOf[c], k)
          /\ Answer(c, "granted", SessionOf[c])
    /\ UNCHANGED lapsed

-----------------------------------------------------------------------------
(* consume, release, and what the rest of the server does to a pool *)

Consume(p, u, s) == AppendConsumed(p, u, s) /\ UNCHANGED <<call, lapsed>>

Release(p, u, s) == AppendReleased(p, u, s) /\ UNCHANGED <<call, lapsed>>

\* billing's closeContract on the pool.  Ending leaves it EXPIRED and cancelling
\* REVOKED; the ledger only asks whether it is ACTIVE, so one of them will do.
StopPool(p) ==
    /\ poolStatus[p] = "ACTIVE"
    /\ SetStatus(p, "REVOKED", {"SUSPENDED", "ACTIVE"})
    /\ UNCHANGED <<call, lapsed>>

\* The clock passes validUntil.
Lapse(p) ==
    /\ p \notin lapsed
    /\ lapsed' = lapsed \cup {p}
    /\ UNCHANGED <<rows, held, poolStatus, call>>

Reserving(c) == Lookup(c) \/ Check(c) \/ AppendRow(c)

Next ==
    \/ \E c \in Calls, u \in Users, i \in Items, sc \in Scopes : Resolve(c, u, i, sc)
    \/ \E c \in Calls : Reserving(c)
    \/ \E p \in Pools, u \in Users, s \in Sessions : Consume(p, u, s) \/ Release(p, u, s)
    \/ \E p \in Pools : StopPool(p) \/ Lapse(p)

Spec == Init /\ [][Next]_vars

-----------------------------------------------------------------------------
(* Properties *)

\* However many requests race, every reservation a user was granted for one
\* item names the same session, and that session really holds (or held) a
\* seat: a replayed or concurrent start shares one seat and one session id.
OneSeatPerItem ==
    \A c, d \in Calls :
        (call[c].pc = "granted" /\ call[d].pc = "granted" /\ call[c].user = call[d].user /\ call[c].item = call[d].item)
            => /\ call[c].session = call[d].session
               /\ \E p \in Pools : Reserved(p, call[c].session) # {}

\* A seat is only ever taken from a pool of the scope the request was made in,
\* by a user who may draw on that scope (assertScope: a campus action can
\* never touch a personal entitlement, nor the reverse).
SeatsStayInScope ==
    \A r \in rows : r.event = "RESERVED" => <<r.user, PoolScope[r.pool]>> \in Member

\* The ledger implements the abstract seat pool: a seat is free until its
\* RESERVED row, open until its closing row, and then settled for good.
SeatOf(p, s) ==
    CASE IsConsumed(p, s) -> "billed"
      [] IsReleased(p, s) -> "returned"
      [] IsOpen(p, s) -> "open"
      [] OTHER -> "free"

Seats == INSTANCE SeatPool WITH
            Capacity <- Quantity,
            seat <- [p \in Pools |-> [s \in Sessions |-> SeatOf(p, s)]]

ImplementsSeatPool == Seats!Spec

=============================================================================
