---------------------------- MODULE ContractPool ----------------------------
(***************************************************************************)
(* The life of a contract and of the sponsorship pool minted under its id   *)
(* (server/domain/billing/service.js activateContract, livePool and         *)
(* closeContract), while students reserve seats from that pool through the  *)
(* entitlement ledger.  The contract row and the entitlement row are two    *)
(* tables written by separate compare-and-sets, so an activation and a      *)
(* close, or a request that dies between its writes, can leave them apart.  *)
(*                                                                         *)
(* A pool's id is its contract's, so Pools names both.  A lapsed pool is a  *)
(* contract whose term has ended.  createContract is the initial state.     *)
(***************************************************************************)
EXTENDS EntitlementLedger

CONSTANTS
    Admins,      \* concurrent activate and close requests
    MayFail      \* which of them may die between two writes: SUBSET {"activate", "close"}

ASSUME ContractAssumption == MayFail \subseteq {"activate", "close"}

VARIABLES
    contract,    \* campus_contracts.status
    activated,   \* contracts with an activated_at
    admin        \* per request: the step it is at, and its contract

contractVars == <<contract, activated, admin>>
billingVars == <<rows, held, poolStatus, call, lapsed, contract, activated, admin>>

Closed == {"ENDED", "CANCELLED"}

\* The status the pool takes when its contract is closed.
PoolAfter == [ENDED |-> "EXPIRED", CANCELLED |-> "REVOKED"]

AdminSteps == {"idle", "mint", "transition", "reread", "revoke", "live", "stop", "activated", "closed", "refused", "failed"}

BillingTypeOK ==
    /\ TypeOK
    /\ contract \in [Pools -> {"DRAFT", "ACTIVE"} \cup Closed]
    /\ activated \subseteq Pools
    /\ admin \in [Admins -> [pc: AdminSteps, pool: Pools \cup {NoPool}]]

BillingInit ==
    /\ StoreInit([p \in Pools |-> "ABSENT"])
    /\ call = [c \in Calls |-> Idle]
    /\ lapsed = {}
    /\ contract = [p \in Pools |-> "DRAFT"]
    /\ activated = {}
    /\ admin = [a \in Admins |-> [pc |-> "idle", pool |-> NoPool]]

-----------------------------------------------------------------------------
At(a, step, p) == admin[a] = [pc |-> step, pool |-> p]

Move(a, step, p) == admin' = [admin EXCEPT ![a] = [pc |-> step, pool |-> p]]

SeatsUntouched == UNCHANGED <<call, lapsed>>

\* Compare-and-set of the contract row.
Transition(p, from, to) ==
    /\ contract[p] \in from
    /\ contract' = [contract EXCEPT ![p] = to]

\* Mutant: an activation of a live contract is answered without livePool.
ActivateReadReplays(a, p) ==
    /\ admin[a].pc = "idle"
    /\ \/ contract[p] = "ACTIVE" /\ Move(a, "activated", p)
       \/ contract[p] = "DRAFT" /\ p \notin lapsed /\ Move(a, "mint", p)
    /\ SeatsUntouched /\ UNCHANGED <<storeVars, contract, activated>>

\* The first read of activateContract, and the refusals that hang on it.
ActivateRead(a, p) ==
    /\ admin[a].pc = "idle"
    /\ \/ contract[p] = "ACTIVE" /\ Move(a, "live", p)
       \/ contract[p] = "DRAFT" /\ p \notin lapsed /\ Move(a, "mint", p)
       \/ (contract[p] \in Closed \/ (contract[p] = "DRAFT" /\ p \in lapsed)) /\ Move(a, "refused", p)
    /\ SeatsUntouched /\ UNCHANGED <<storeVars, contract, activated>>

\* Take the pool that is there, or mint it SUSPENDED: it grants nothing yet.
ActivateMint(a, p) ==
    /\ At(a, "mint", p)
    /\ CreatePool(p, "SUSPENDED")
    /\ Move(a, "transition", p)
    /\ SeatsUntouched /\ UNCHANGED <<contract, activated>>

ActivateTransition(a, p) ==
    /\ At(a, "transition", p)
    /\ \/ /\ Transition(p, {"DRAFT"}, "ACTIVE")
          /\ activated' = activated \cup {p}
          /\ Move(a, "live", p)
       \/ contract[p] # "DRAFT" /\ Move(a, "reread", p) /\ UNCHANGED <<contract, activated>>
    /\ SeatsUntouched /\ UNCHANGED storeVars

\* The transition was lost: to another activation, or to a close.
ActivateReread(a, p) ==
    /\ At(a, "reread", p)
    /\ Move(a, IF contract[p] = "ACTIVE" THEN "live" ELSE "revoke", p)
    /\ SeatsUntouched /\ UNCHANGED <<storeVars, contract, activated>>

ActivateRevoke(a, p) ==
    /\ At(a, "revoke", p)
    /\ SetStatus(p, "REVOKED", {"SUSPENDED", "ACTIVE"})
    /\ Move(a, "refused", p)
    /\ SeatsUntouched /\ UNCHANGED <<contract, activated>>

\* Mutant: livePool sets the status without comparing it.
LivePoolAnyway(a, p) ==
    /\ At(a, "live", p)
    /\ SetStatus(p, "ACTIVE", PoolStatuses)
    /\ Move(a, "activated", p)
    /\ SeatsUntouched /\ UNCHANGED <<contract, activated>>

\* livePool: from SUSPENDED only, so a close that came first wins.
LivePool(a, p) ==
    /\ At(a, "live", p)
    /\ SetStatus(p, "ACTIVE", {"SUSPENDED"})
    /\ Move(a, "activated", p)
    /\ SeatsUntouched /\ UNCHANGED <<contract, activated>>

\* closeContract: the contract row first ...
CloseContract(a, p, to) ==
    /\ admin[a].pc = "idle"
    /\ LET from == IF to = "ENDED" THEN {"ACTIVE"} ELSE {"DRAFT", "ACTIVE"} IN
         \/ Transition(p, from, to) /\ Move(a, "stop", p)
         \/ contract[p] \notin from /\ Move(a, "refused", p) /\ UNCHANGED contract
    /\ SeatsUntouched /\ UNCHANGED <<storeVars, activated>>

\* Mutant: a pool that is not live yet is left to the activation.
CloseStopLiveOnly(a, p) ==
    /\ At(a, "stop", p)
    /\ SetStatus(p, PoolAfter[contract[p]], {"ACTIVE"})
    /\ Move(a, "closed", p)
    /\ SeatsUntouched /\ UNCHANGED <<contract, activated>>

\* ... then whatever pool was minted under the contract's id.
CloseStop(a, p) ==
    /\ At(a, "stop", p)
    /\ SetStatus(p, PoolAfter[contract[p]], {"SUSPENDED", "ACTIVE"})
    /\ Move(a, "closed", p)
    /\ SeatsUntouched /\ UNCHANGED <<contract, activated>>

\* A request dies at an await: the process stops, or the store refuses the write.
AdminFails(a, p) ==
    /\ \/ "activate" \in MayFail /\ admin[a].pc \in {"mint", "transition", "reread", "revoke", "live"}
       \/ "close" \in MayFail /\ admin[a].pc = "stop"
    /\ admin[a].pool = p
    /\ Move(a, "failed", p)
    /\ SeatsUntouched /\ UNCHANGED <<storeVars, contract, activated>>

Billing(a, p) ==
    \/ ActivateRead(a, p) \/ ActivateMint(a, p) \/ ActivateTransition(a, p) \/ ActivateReread(a, p)
    \/ ActivateRevoke(a, p) \/ LivePool(a, p)
    \/ \E to \in Closed : CloseContract(a, p, to)
    \/ CloseStop(a, p)
    \/ AdminFails(a, p)

\* What students and the clock do meanwhile.
Seating ==
    /\ \/ \E c \in Calls, u \in Users, i \in Items, sc \in Scopes : Resolve(c, u, i, sc)
       \/ \E c \in Calls : Reserving(c)
       \/ \E p \in Pools, u \in Users, s \in Sessions : Consume(p, u, s) \/ Release(p, u, s)
       \/ \E p \in Pools : Lapse(p)
    /\ UNCHANGED contractVars

BillingNext == Seating \/ \E a \in Admins, p \in Pools : Billing(a, p)

BillingSpec == BillingInit /\ [][BillingNext]_billingVars

-----------------------------------------------------------------------------
(* Properties *)

\* A seat is only ever reserved under a contract somebody activated: the pool
\* exists before the activation is decided, and grants nothing until it is.
SeatsNeedAnActivation ==
    /\ \A p \in Pools : poolStatus[p] = "ACTIVE" => p \in activated
    /\ \A r \in rows : r.pool \in activated

\* "a cancel that already revoked the pool wins": a pool that was stopped is
\* never brought back, however late an activation's last write arrives.
StoppedForGood ==
    [][\A p \in Pools : poolStatus[p] \in {"EXPIRED", "REVOKED"} => poolStatus'[p] = poolStatus[p]]_billingVars

\* Once no close is in flight any more, the pool of a closed contract is not
\* live, whatever activation it raced with ("The pool stops granting new
\* starts", closeContract).
ClosedContractStopsItsPool ==
    \A p \in Pools : (contract[p] \in Closed /\ poolStatus[p] = "ACTIVE") => \E a \in Admins : At(a, "stop", p)

\* An administrator who was told the contract is active has a pool that grants
\* seats for as long as the contract stays active: activation repairs what an
\* activation that died half-way left behind.
ActivationIsRepaired ==
    \A a \in Admins, p \in Pools : (At(a, "activated", p) /\ contract[p] = "ACTIVE") => poolStatus[p] = "ACTIVE"

\* Seats follow the activation: none before it, and a living pool after it.
ActivationSound == SeatsNeedAnActivation /\ ActivationIsRepaired

=============================================================================
