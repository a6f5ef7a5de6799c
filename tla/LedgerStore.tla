---------------------------- MODULE LedgerStore ----------------------------
(***************************************************************************)
(* The entitlements repository (server/domain/entitlements/repository.pg.js *)
(* and its memory twin): the pool rows and the append-only consumption      *)
(* rows, with the one transactional write both adapters implement.  Every   *)
(* action operator here is one repository call, atomic because Postgres     *)
(* holds the pool row FOR UPDATE and the memory adapter never awaits.       *)
(*                                                                         *)
(* A row is keyed by its idempotency key.  `user` is the row's user_id.     *)
(* Ids, timestamps and organization_id (a copy of the pool's own) are left  *)
(* out.                                                                     *)
(***************************************************************************)
EXTENDS Naturals, FiniteSets

CONSTANTS
    Pools,       \* entitlement rows (sponsorship pools, personal entitlements)
    Users,
    Sessions,    \* session ids handed out by randomUUID
    Items,       \* what a reservation key names besides the user: assignments
    Quantity,    \* [Pools -> Nat], entitlements.quantity
    NoPool,      \* the null entitlementId
    NoSession    \* the null sessionId

ASSUME StoreAssumption ==
    /\ Quantity \in [Pools -> Nat]
    /\ IsFiniteSet(Sessions)
    /\ NoPool \notin Pools
    /\ NoSession \notin Sessions

VARIABLES
    rows,        \* entitlement_consumptions, a set: append order is never read
    held,        \* entitlements.consumed_quantity
    poolStatus   \* entitlements.status, "ABSENT" before createEntitlement

storeVars == <<rows, held, poolStatus>>

PoolStatuses == {"ABSENT", "SUSPENDED", "ACTIVE", "EXPIRED", "REVOKED"}

ReserveKey(u, i) == <<"reserve", u, i>>
CloseKey(e, p, s) == <<e, p, s>>
Keys == {ReserveKey(u, i) : u \in Users, i \in Items}
          \cup {CloseKey(e, p, s) : e \in {"CONSUMED", "RELEASED"}, p \in Pools, s \in Sessions}

Rows == [pool: Pools, user: Users, session: Sessions,
         event: {"RESERVED", "CONSUMED", "RELEASED"}, key: Keys]

StoreTypeOK ==
    /\ rows \subseteq Rows
    /\ held \in [Pools -> Nat]
    /\ poolStatus \in [Pools -> PoolStatuses]

StoreInit(st) ==
    /\ rows = {}
    /\ held = [p \in Pools |-> 0]
    /\ poolStatus = st

-----------------------------------------------------------------------------
(* Reads *)

Keyed(k) == {r \in rows : r.key = k}

Reserved(p, s) == {r \in rows : r.pool = p /\ r.session = s /\ r.event = "RESERVED"}
Closing(p, s) == {r \in rows : r.pool = p /\ r.session = s /\ r.event \in {"CONSUMED", "RELEASED"}}

IsOpen(p, s) == Reserved(p, s) # {} /\ Closing(p, s) = {}
IsConsumed(p, s) == \E r \in Closing(p, s) : r.event = "CONSUMED"
IsReleased(p, s) == \E r \in Closing(p, s) : r.event = "RELEASED"

\* Seats of p that its consumed_quantity should be counting: reserved and not given back.
HeldSeats(p) == {s \in Sessions : Reserved(p, s) # {} /\ ~IsReleased(p, s)}

\* Mutant: sells one seat too many.
RemainingOffByOne(p) == Quantity[p] >= held[p]

Remaining(p) == Quantity[p] > held[p]

-----------------------------------------------------------------------------
(* appendEvent *)

Insert(p, u, s, e, k) == rows' = rows \cup {[pool |-> p, user |-> u, session |-> s, event |-> e, key |-> k]}

\* Mutant: the key is not looked up again under the row lock.
AppendReservedAnyKey(p, u, s, k) ==
    /\ poolStatus[p] # "ABSENT"
    /\ Remaining(p)
    /\ held' = [held EXCEPT ![p] = @ + 1]
    /\ Insert(p, u, s, "RESERVED", k)
    /\ UNCHANGED poolStatus

\* event RESERVED: replay by key, refuse a full pool, else take a seat.
AppendReserved(p, u, s, k) ==
    /\ Keyed(k) = {}
    /\ poolStatus[p] # "ABSENT"
    /\ Remaining(p)
    /\ held' = [held EXCEPT ![p] = @ + 1]
    /\ Insert(p, u, s, "RESERVED", k)
    /\ UNCHANGED poolStatus

\* Mutant: any reservation may be closed, even one that is closed already.
MayCloseAgain(p, u, s) == \E r \in Reserved(p, s) : r.user = u

\* requireOpenReservation holds and nothing closed the seat yet.
MayClose(p, u, s) ==
    /\ \E r \in Reserved(p, s) : r.user = u
    /\ Closing(p, s) = {}

AppendConsumed(p, u, s) ==
    /\ MayClose(p, u, s)
    /\ Insert(p, u, s, "CONSUMED", CloseKey("CONSUMED", p, s))
    /\ UNCHANGED <<held, poolStatus>>

\* Mutant: a second release gives the seat back a second time.
AppendReleasedTwice(p, u, s) ==
    /\ MayCloseAgain(p, u, s)
    /\ held' = [held EXCEPT ![p] = IF @ > 0 THEN @ - 1 ELSE 0]
    /\ Insert(p, u, s, "RELEASED", CloseKey("RELEASED", p, s))
    /\ UNCHANGED poolStatus

\* Mutant: and nothing stops the counter at zero.
AppendReleasedBelowZero(p, u, s) ==
    /\ MayCloseAgain(p, u, s)
    /\ held' = [held EXCEPT ![p] = @ - 1]
    /\ Insert(p, u, s, "RELEASED", CloseKey("RELEASED", p, s))
    /\ UNCHANGED poolStatus

AppendReleased(p, u, s) ==
    /\ MayClose(p, u, s)
    /\ held' = [held EXCEPT ![p] = IF @ > 0 THEN @ - 1 ELSE 0]
    /\ Insert(p, u, s, "RELEASED", CloseKey("RELEASED", p, s))
    /\ UNCHANGED poolStatus

-----------------------------------------------------------------------------
(* createEntitlement and setStatus *)

\* An insert that loses to an existing id (CONFLICT) leaves the row alone.
CreatePool(p, st) ==
    /\ poolStatus' = [poolStatus EXCEPT ![p] = IF @ = "ABSENT" THEN st ELSE @]
    /\ UNCHANGED <<rows, held>>

\* Compare-and-set from a list of statuses: null, and no write, anywhere else.
SetStatus(p, st, from) ==
    /\ poolStatus' = [poolStatus EXCEPT ![p] = IF @ \in from THEN st ELSE @]
    /\ UNCHANGED <<rows, held>>

-----------------------------------------------------------------------------
(* What every user of the repository relies on *)

\* The held-seat counter of a pool is exactly the number of its sessions that
\* hold a reserved or consumed seat (repository.memory.js: "consumed_quantity
\* counts RESERVED+CONSUMED seats still held"), and no interleaving of
\* reservations ever sells more seats than the pool has.
HeldCountsSeats ==
    \A p \in Pools : held[p] = Cardinality(HeldSeats(p)) /\ held[p] <= Quantity[p]

\* A seat has one outcome: a concurrent consume and release never both close
\* it, and whoever closes it is the user who reserved it.
OneOutcomePerSeat ==
    \A r, q \in rows :
        /\ r.event \in {"CONSUMED", "RELEASED"} =>
              \E o \in Reserved(r.pool, r.session) : o.user = r.user
        /\ (r.event = "CONSUMED" /\ q.event = "RELEASED") => <<r.pool, r.session>> # <<q.pool, q.session>>

=============================================================================
