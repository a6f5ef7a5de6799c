--------------------------- MODULE InviteRedemption ---------------------------
(***************************************************************************)
(* The seats of one group invite link: redeemInvite and revokeInvite of     *)
(* server/lib/invites.js, with the entitlements it mints and withdraws      *)
(* (createEntitlement, revokeEntitlement, createSession of                  *)
(* server/lib/storePg.js).                                                  *)
(*                                                                         *)
(* The seat and the redemption are one transaction, which the lock of the   *)
(* invite's row makes one step; the entitlement is minted before it and     *)
(* withdrawn after it, by queries of their own.  A request draws a session  *)
(* id of its own, and bears its name.                                       *)
(***************************************************************************)
EXTENDS Naturals, FiniteSets

CONSTANTS
    Guests,        \* signed-in candidates
    Redeems,       \* requests
    MaxUses,
    NoRedeem       \* no session

ASSUME RedeemAssumption == MaxUses \in Nat \ {0} /\ Guests # {} /\ NoRedeem \notin Redeems

VARIABLES
    used,          \* assessment_invites.used_count
    ended,         \* whether the invite is revoked or past its window
    redemption,    \* invite_redemptions: the session of each candidate
    entitlement,   \* v1_payments: not minted, minted, withdrawn or consumed by a start
    redeem,        \* the requests
    stray          \* history: sessions whose request ended before it could withdraw them

redeemVars == <<used, ended, redemption, entitlement, redeem, stray>>

RedeemTypeOK ==
    /\ used \in 0..MaxUses
    /\ ended \in BOOLEAN
    /\ redemption \in [Guests -> Redeems \cup {NoRedeem}]
    /\ entitlement \in [Redeems -> {"none", "minted", "withdrawn", "started"}]
    /\ redeem \in [Redeems -> [pc : {"idle", "mint", "claim", "undo", "done", "refused"}, who : Guests,
                               session : Redeems \cup {NoRedeem}]]
    /\ stray \subseteq Redeems

RedeemInit ==
    /\ used = 0 /\ ended = FALSE
    /\ redemption = [g \in Guests |-> NoRedeem]
    /\ entitlement = [c \in Redeems |-> "none"]
    /\ redeem = [c \in Redeems |-> [pc |-> "idle", who |-> CHOOSE g \in Guests : TRUE, session |-> NoRedeem]]
    /\ stray = {}

-----------------------------------------------------------------------------
\* The link is looked up, and a candidate who has redeemed it gets that session.
AskRedeem(c, g) ==
    /\ redeem[c].pc = "idle"
    /\ redeem' = [redeem EXCEPT ![c] = [who |-> g, session |-> redemption[g],
                    pc |-> IF redemption[g] # NoRedeem THEN "done" ELSE IF ended THEN "refused" ELSE "mint"]]
    /\ UNCHANGED <<used, ended, redemption, entitlement, stray>>

\* createEntitlement comes first.
Mint(c) ==
    /\ redeem[c].pc = "mint"
    /\ entitlement' = [entitlement EXCEPT ![c] = "minted"]
    /\ redeem' = [redeem EXCEPT ![c].pc = "claim"]
    /\ UNCHANGED <<used, ended, redemption, stray>>

SeatLeft == ~ended /\ used < MaxUses

\* Mutant: a duplicate keeps the seat that was counted for it.
ClaimSeatTwice(c) ==
    LET g == redeem[c].who
        wins == SeatLeft /\ redemption[g] = NoRedeem
    IN
    /\ redeem[c].pc = "claim"
    /\ used' = IF SeatLeft THEN used + 1 ELSE used
    /\ redemption' = IF wins THEN [redemption EXCEPT ![g] = c] ELSE redemption
    /\ redeem' = [redeem EXCEPT ![c].pc = IF wins THEN "done" ELSE "undo",
                                 ![c].session = IF wins THEN c ELSE IF SeatLeft THEN redemption[g] ELSE NoRedeem]
    /\ UNCHANGED <<ended, entitlement, stray>>

\* The transaction: a seat is counted, and the redemption is unique per candidate;
\* without the one or the other both are rolled back.  Redemptions stay, so that
\* the one a duplicate met is the one it will answer.
ClaimSeat(c) ==
    LET g == redeem[c].who
        wins == SeatLeft /\ redemption[g] = NoRedeem
    IN
    /\ redeem[c].pc = "claim"
    /\ used' = IF wins THEN used + 1 ELSE used
    /\ redemption' = IF wins THEN [redemption EXCEPT ![g] = c] ELSE redemption
    /\ redeem' = [redeem EXCEPT ![c].pc = IF wins THEN "done" ELSE "undo",
                                 ![c].session = IF wins THEN c ELSE IF SeatLeft THEN redemption[g] ELSE NoRedeem]
    /\ UNCHANGED <<ended, entitlement, stray>>

\* revokeEntitlement, whose failure is swallowed; then the candidate's own
\* session is answered, or "all seats used" when no seat was left.
Undo(c) ==
    /\ redeem[c].pc = "undo"
    /\ \/ entitlement' = [entitlement EXCEPT ![c] = "withdrawn"] /\ UNCHANGED stray
       \/ stray' = stray \cup {c} /\ UNCHANGED entitlement
    /\ redeem' = [redeem EXCEPT ![c].pc = IF redeem[c].session # NoRedeem THEN "done" ELSE "refused"]
    /\ UNCHANGED <<used, ended, redemption>>

\* The request dies or a query throws, and nothing withdraws the entitlement.  (One
\* whose transaction was committed is done, whether or not its answer arrives.)
RedeemBreaks(c) ==
    /\ redeem[c].pc \in {"mint", "claim", "undo"}
    /\ redeem' = [redeem EXCEPT ![c].pc = "refused"]
    /\ stray' = IF entitlement[c] = "minted" THEN stray \cup {c} ELSE stray
    /\ UNCHANGED <<used, ended, redemption, entitlement>>

-----------------------------------------------------------------------------
\* /start of a session the candidate was given consumes its entitlement (createSession).
StartRedeemed(c) ==
    LET s == redeem[c].session IN
    /\ redeem[c].pc = "done" /\ entitlement[s] = "minted"
    /\ entitlement' = [entitlement EXCEPT ![s] = "started"]
    /\ UNCHANGED <<used, ended, redemption, redeem, stray>>

\* revokeInvite, or the window ends.
EndInvite ==
    /\ ~ended
    /\ ended' = TRUE
    /\ UNCHANGED <<used, redemption, entitlement, redeem, stray>>

RedeemNext ==
    \/ \E c \in Redeems :
         \/ \E g \in Guests : AskRedeem(c, g)
         \/ Mint(c) \/ ClaimSeat(c) \/ Undo(c) \/ RedeemBreaks(c) \/ StartRedeemed(c)
    \/ EndInvite

RedeemSpec == RedeemInit /\ [][RedeemNext]_redeemVars

-----------------------------------------------------------------------------
(* Properties *)

Redeemed == {g \in Guests : redemption[g] # NoRedeem}

\* The seats counted are the candidates who redeemed, never more than the link has.
SeatsAreRedemptions == used = Cardinality(Redeemed)

\* "Redeeming twice returns the SAME sessionId, never a second seat": every
\* visit that was answered names the candidate's one session, and a session
\* belongs to one candidate.
SameSessionOnEveryVisit ==
    /\ \A c \in Redeems : redeem[c].pc = "done" => redeem[c].session = redemption[redeem[c].who] /\ redemption[redeem[c].who] # NoRedeem
    /\ \A g, h \in Redeemed : redemption[g] = redemption[h] => g = h

\* A redeemed session can be started or has been, and an entitlement nobody
\* redeemed is withdrawn, unless its request ended before it got there.
EntitledOnceRedeemed ==
    /\ \A g \in Redeemed : entitlement[redemption[g]] \in {"minted", "started"}
    /\ \A c \in Redeems : (entitlement[c] \in {"minted", "started"} /\ \A g \in Guests : redemption[g] # c)
           => entitlement[c] = "minted" /\ (c \in stray \/ redeem[c].pc \in {"claim", "undo"})

\* The seats, the redemptions and the entitlements of a link agree, whichever
\* candidates, tabs, failures and revocations meet.
RedeemSound == SeatsAreRedemptions /\ SameSessionOnEveryVisit /\ EntitledOnceRedeemed
=============================================================================
