---------------------------- MODULE OfficeProofs -----------------------------
(***************************************************************************)
(* Proofs about what the office does: InviteRedemption, CampusTeam,        *)
(* StudentImport and CompletionNotices, for any number of seats, staff, files,*)
(* students and requests.                                                  *)
(***************************************************************************)
EXTENDS MCOffice, EntitlementLedgerProofs, ConsoleProofs

-----------------------------------------------------------------------------
(* The invariant *)

Unredeemed(c) == \A g \in Guests : redemption[g] # c

\* What a request holds at each of its steps.
RequestOK(c) ==
    /\ redeem[c].pc = "done" => redeem[c].session \in Redeems /\ redemption[redeem[c].who] = redeem[c].session
    /\ redeem[c].pc = "undo" => redeem[c].session = NoRedeem \/ redemption[redeem[c].who] = redeem[c].session
    /\ redeem[c].pc \in {"idle", "mint"} => entitlement[c] = "none"
    /\ redeem[c].pc \in {"claim", "undo"} => entitlement[c] = "minted" /\ Unredeemed(c)
    /\ entitlement[c] = "none" => Unredeemed(c)
    /\ entitlement[c] = "started" => ~Unredeemed(c)
    /\ (entitlement[c] = "minted" /\ Unredeemed(c)) => c \in stray \/ redeem[c].pc \in {"claim", "undo"}

RedemptionsOK ==
    /\ \A g \in Redeemed : entitlement[redemption[g]] \in {"minted", "started"}
    /\ \A g, h \in Redeemed : redemption[g] = redemption[h] => g = h

SeatsOK == IsFiniteSet(Redeemed) /\ used = Cardinality(Redeemed)

RedeemInv ==
    /\ RedeemTypeOK
    /\ SeatsOK
    /\ RedemptionsOK
    /\ \A c \in Redeems : RequestOK(c)

-----------------------------------------------------------------------------
(* The steps *)

LEMMA RedeemStarts == RedeemInit => RedeemInv
<1> SUFFICES ASSUME RedeemInit PROVE RedeemInv
  OBVIOUS
<1>1. RedeemTypeOK
  <2>1. (CHOOSE g \in Guests : TRUE) \in Guests
    BY RedeemAssumption
  <2>2. 0 \in 0..MaxUses
    BY RedeemAssumption
  <2> DEFINE first == CHOOSE g \in Guests : TRUE
  <2>3. redeem = [c \in Redeems |-> [pc |-> "idle", who |-> first, session |-> NoRedeem]] /\ first \in Guests
    BY <2>1 DEF RedeemInit
  <2> HIDE DEF first
  <2>4. redeem \in [Redeems -> [pc : {"idle", "mint", "claim", "undo", "done", "refused"}, who : Guests, session : Redeems \cup {NoRedeem}]]
    BY <2>3
  <2>5. used = 0 /\ ended = FALSE /\ stray = {} /\ redemption = [g \in Guests |-> NoRedeem] /\ entitlement = [c \in Redeems |-> "none"]
    BY DEF RedeemInit
  <2> QED BY <2>2, <2>4, <2>5 DEF RedeemTypeOK
<1>2. Redeemed = {}
  BY DEF RedeemInit, Redeemed
<1>3. SeatsOK
  BY <1>2, FS_EmptySet DEF RedeemInit, SeatsOK
<1>4. \A c \in Redeems : RequestOK(c)
  BY RedeemAssumption DEF RedeemInit, RequestOK, Unredeemed
<1> QED BY <1>1, <1>2, <1>3, <1>4 DEF RedeemInv, RedemptionsOK

\* Every redemption is one of a candidate's.
LEMMA Bearer ==
  ASSUME RedeemTypeOK, NEW c \in Redeems, ~Unredeemed(c)
  PROVE  \E g \in Redeemed : redemption[g] = c
BY RedeemAssumption DEF Unredeemed, Redeemed, RedeemTypeOK

\* A request moves by itself; the redemptions stay as they are.
LEMMA RequestMoves ==
  ASSUME RedeemInv, RedeemTypeOK', UNCHANGED <<used, redemption, entitlement>>, stray \subseteq stray',
         NEW c \in Redeems, \A d \in Redeems \ {c} : redeem'[d] = redeem[d], RequestOK(c)'
  PROVE  RedeemInv'
<1>1. ASSUME NEW d \in Redeems PROVE RequestOK(d)'
  <2>1. CASE d # c
    BY <2>1 DEF RedeemInv, RequestOK, Unredeemed
  <2> QED BY <2>1
<1>2. SeatsOK' /\ RedemptionsOK'
  BY DEF RedeemInv, SeatsOK, RedemptionsOK, Redeemed
<1> QED BY <1>1, <1>2 DEF RedeemInv

LEMMA AskKeeps ==
  ASSUME RedeemInv, NEW c \in Redeems, NEW g \in Guests, AskRedeem(c, g)
  PROVE  RedeemInv'
<1> DEFINE pc == IF redemption[g] # NoRedeem THEN "done" ELSE IF ended THEN "refused" ELSE "mint"
<1>1. RedeemTypeOK /\ RequestOK(c) /\ redeem[c].pc = "idle" /\ redemption[g] \in Redeems \cup {NoRedeem}
  BY DEF RedeemInv, AskRedeem, RedeemTypeOK
<1>2. UNCHANGED <<used, ended, redemption, entitlement, stray>>
  BY DEF AskRedeem
<1>3. redeem' = [redeem EXCEPT ![c] = [who |-> g, session |-> redemption[g], pc |-> pc]]
  BY DEF AskRedeem
<1>4. pc \in {"done", "refused", "mint"} /\ (pc = "done" => redemption[g] # NoRedeem)
  OBVIOUS
<1> HIDE DEF pc
<1>5. /\ redeem'[c].pc = pc /\ redeem'[c].who = g /\ redeem'[c].session = redemption[g]
      /\ \A d \in Redeems \ {c} : redeem'[d] = redeem[d]
      /\ redeem' \in [Redeems -> [pc : {"idle", "mint", "claim", "undo", "done", "refused"}, who : Guests, session : Redeems \cup {NoRedeem}]]
  BY <1>1, <1>3, <1>4 DEF RedeemTypeOK
<1>6. RedeemTypeOK'
  BY <1>1, <1>2, <1>5 DEF RedeemTypeOK
<1>7. RequestOK(c)'
  BY <1>1, <1>2, <1>4, <1>5 DEF RequestOK, Unredeemed
<1> QED BY <1>2, <1>5, <1>6, <1>7, RequestMoves

LEMMA MintKeeps ==
  ASSUME RedeemInv, NEW c \in Redeems, Mint(c)
  PROVE  RedeemInv'
<1>1. RedeemTypeOK /\ RequestOK(c) /\ redeem[c].pc = "mint" /\ entitlement[c] = "none" /\ Unredeemed(c)
  BY DEF RedeemInv, Mint, RequestOK
<1>2. UNCHANGED <<used, ended, redemption, stray>>
  BY DEF Mint
<1>3. /\ entitlement'[c] = "minted" /\ \A d \in Redeems \ {c} : entitlement'[d] = entitlement[d] /\ redeem'[d] = redeem[d]
      /\ redeem'[c].pc = "claim" /\ redeem'[c].who = redeem[c].who /\ redeem'[c].session = redeem[c].session
  BY <1>1 DEF Mint, RedeemTypeOK
<1>4. RedeemTypeOK'
  BY <1>1, <1>2 DEF Mint, RedeemTypeOK
<1>5. SeatsOK'
  BY <1>2 DEF RedeemInv, SeatsOK, Redeemed
<1>6. RedemptionsOK'
  BY <1>1, <1>2, <1>3 DEF RedeemInv, RedemptionsOK, Redeemed, Unredeemed, RedeemTypeOK
<1>7. ASSUME NEW d \in Redeems PROVE RequestOK(d)'
  <2>1. CASE d # c
    BY <1>2, <1>3, <2>1 DEF RedeemInv, RequestOK, Unredeemed
  <2>2. CASE d = c
    BY <1>1, <1>2, <1>3, <2>2 DEF RequestOK, Unredeemed
  <2> QED BY <2>1, <2>2
<1> QED BY <1>4, <1>5, <1>6, <1>7 DEF RedeemInv

\* The transaction: a seat is counted for the redemption it writes.
LEMMA ClaimKeeps ==
  ASSUME RedeemInv, NEW c \in Redeems, ClaimSeat(c)
  PROVE  RedeemInv'
<1> DEFINE g == redeem[c].who
           wins == SeatLeft /\ redemption[g] = NoRedeem
<1>1. RedeemTypeOK /\ RequestOK(c) /\ redeem[c].pc = "claim" /\ g \in Guests /\ entitlement[c] = "minted" /\ Unredeemed(c)
      /\ redemption[g] \in Redeems \cup {NoRedeem}
  BY DEF RedeemInv, ClaimSeat, RequestOK, RedeemTypeOK
<1>2. UNCHANGED <<ended, entitlement, stray>>
  BY DEF ClaimSeat
<1>3. CASE ~wins
  <2> DEFINE session == IF SeatLeft THEN redemption[g] ELSE NoRedeem
  <2>1. UNCHANGED <<used, redemption>> /\ redeem' = [redeem EXCEPT ![c].pc = "undo", ![c].session = session]
    BY <1>3 DEF ClaimSeat
  <2>2. session \in Redeems \cup {NoRedeem} /\ (session = NoRedeem \/ session = redemption[g])
    BY <1>1
  <2> HIDE DEF session
  <2>3. /\ redeem'[c].pc = "undo" /\ redeem'[c].who = g /\ redeem'[c].session = session
        /\ \A d \in Redeems \ {c} : redeem'[d] = redeem[d]
        /\ redeem' \in [Redeems -> [pc : {"idle", "mint", "claim", "undo", "done", "refused"}, who : Guests, session : Redeems \cup {NoRedeem}]]
    BY <1>1, <2>1, <2>2, ZenonT(60) DEF RedeemTypeOK
  <2>4. RedeemTypeOK'
    BY <1>1, <1>2, <2>1, <2>3 DEF RedeemTypeOK
  <2>5. RequestOK(c)'
    BY <1>1, <1>2, <2>1, <2>2, <2>3 DEF RequestOK, Unredeemed
  <2> QED BY <1>2, <2>1, <2>3, <2>4, <2>5, RequestMoves
<1>4. CASE wins
  <2>1. /\ used' = used + 1 /\ redemption' = [redemption EXCEPT ![g] = c]
        /\ redeem' = [redeem EXCEPT ![c].pc = "done", ![c].session = c]
    BY <1>4 DEF ClaimSeat
  <2>2. used < MaxUses /\ redemption[g] = NoRedeem
    BY <1>4 DEF SeatLeft
  <2> HIDE DEF g, wins
  <2>3. /\ redeem'[c].pc = "done" /\ redeem'[c].who = g /\ redeem'[c].session = c
        /\ \A d \in Redeems \ {c} : redeem'[d] = redeem[d]
        /\ redeem' \in [Redeems -> [pc : {"idle", "mint", "claim", "undo", "done", "refused"}, who : Guests, session : Redeems \cup {NoRedeem}]]
        /\ redemption'[g] = c /\ \A h \in Guests \ {g} : redemption'[h] = redemption[h]
        /\ redemption' \in [Guests -> Redeems \cup {NoRedeem}]
    BY <1>1, <2>1 DEF RedeemTypeOK, g
  <2>4. RedeemTypeOK'
    BY <1>1, <1>2, <2>1, <2>2, <2>3, RedeemAssumption DEF RedeemTypeOK
  <2>5. Redeemed' = Redeemed \cup {g} /\ g \notin Redeemed
    BY <1>1, <2>2, <2>3, RedeemAssumption DEF Redeemed
  <2>6. SeatsOK'
    BY <1>1, <2>1, <2>5, FS_AddElement DEF RedeemInv, SeatsOK
  <2>7. RedemptionsOK'
    <3>1. \A h \in Redeemed' : entitlement'[redemption'[h]] \in {"minted", "started"}
      BY <1>1, <1>2, <2>3, <2>5 DEF RedeemInv, RedemptionsOK, Redeemed
    <3>2. ASSUME NEW h \in Redeemed', NEW i \in Redeemed', redemption'[h] = redemption'[i] PROVE h = i
      <4>1. h \in Guests /\ i \in Guests
        BY DEF Redeemed
      <4>2. CASE h = g
        BY <1>1, <2>3, <3>2, <4>1, <4>2 DEF Unredeemed
      <4>3. CASE i = g
        BY <1>1, <2>3, <3>2, <4>1, <4>3 DEF Unredeemed
      <4>4. CASE h # g /\ i # g
        BY <2>3, <2>5, <3>2, <4>1, <4>4 DEF RedeemInv, RedemptionsOK
      <4> QED BY <4>2, <4>3, <4>4
    <3> QED BY <3>1, <3>2 DEF RedemptionsOK
  <2>8. ASSUME NEW d \in Redeems PROVE RequestOK(d)'
    <3>1. CASE d = c
      BY <1>1, <1>2, <2>3, <3>1 DEF RequestOK, Unredeemed
    <3>2. CASE d # c
      <4>1. Unredeemed(d)' <=> Unredeemed(d)
        BY <1>1, <2>2, <2>3, <3>2, RedeemAssumption DEF Unredeemed
      <4>2. redeem'[d] = redeem[d] /\ entitlement'[d] = entitlement[d] /\ stray' = stray /\ redeem[d].who \in Guests
            /\ redeem[d].session \in Redeems \cup {NoRedeem}
        BY <1>1, <1>2, <2>3, <3>2 DEF RedeemTypeOK
      <4>3. redeem[d].session \in Redeems /\ redemption[redeem[d].who] = redeem[d].session => redemption'[redeem[d].who] = redeem[d].session
        BY <2>2, <2>3, <4>2, RedeemAssumption
      <4> QED BY <4>1, <4>2, <4>3 DEF RedeemInv, RequestOK
    <3> QED BY <3>1, <3>2
  <2> QED BY <2>4, <2>6, <2>7, <2>8 DEF RedeemInv
<1> QED BY <1>3, <1>4

\* An entitlement nobody redeemed is withdrawn, or left behind.
LEMMA UndoKeeps ==
  ASSUME RedeemInv, NEW c \in Redeems, Undo(c)
  PROVE  RedeemInv'
<1> DEFINE pc == IF redeem[c].session # NoRedeem THEN "done" ELSE "refused"
<1>1. RedeemTypeOK /\ RequestOK(c) /\ redeem[c].pc = "undo" /\ entitlement[c] = "minted" /\ Unredeemed(c)
  BY DEF RedeemInv, Undo, RequestOK
<1>2. UNCHANGED <<used, ended, redemption>> /\ redeem' = [redeem EXCEPT ![c].pc = pc]
  BY DEF Undo
<1>3. pc \in {"done", "refused"} /\ (pc = "done" => redeem[c].session # NoRedeem)
  OBVIOUS
<1> HIDE DEF pc
<1>4. /\ redeem'[c].pc = pc /\ redeem'[c].who = redeem[c].who /\ redeem'[c].session = redeem[c].session
      /\ \A d \in Redeems \ {c} : redeem'[d] = redeem[d]
      /\ redeem' \in [Redeems -> [pc : {"idle", "mint", "claim", "undo", "done", "refused"}, who : Guests, session : Redeems \cup {NoRedeem}]]
      /\ redeem[c].session \in Redeems \cup {NoRedeem}
  BY <1>1, <1>2, <1>3 DEF RedeemTypeOK
<1>5. CASE stray' = stray \cup {c} /\ UNCHANGED entitlement
  <2>1. RedeemTypeOK'
    BY <1>1, <1>2, <1>4, <1>5 DEF RedeemTypeOK
  <2>2. RequestOK(c)'
    BY <1>1, <1>2, <1>3, <1>4, <1>5 DEF RequestOK, Unredeemed
  <2> QED BY <1>2, <1>4, <1>5, <2>1, <2>2, RequestMoves
<1>6. CASE entitlement' = [entitlement EXCEPT ![c] = "withdrawn"] /\ UNCHANGED stray
  <2>1. entitlement'[c] = "withdrawn" /\ \A d \in Redeems \ {c} : entitlement'[d] = entitlement[d]
    BY <1>1, <1>6 DEF RedeemTypeOK
  <2>2. RedeemTypeOK'
    BY <1>1, <1>2, <1>4, <1>6 DEF RedeemTypeOK
  <2>3. SeatsOK'
    BY <1>2 DEF RedeemInv, SeatsOK, Redeemed
  <2>4. RedemptionsOK'
    BY <1>1, <1>2, <2>1 DEF RedeemInv, RedemptionsOK, Redeemed, Unredeemed, RedeemTypeOK
  <2>5. ASSUME NEW d \in Redeems PROVE RequestOK(d)'
    <3>1. CASE d # c
      BY <1>2, <1>4, <1>6, <2>1, <3>1 DEF RedeemInv, RequestOK, Unredeemed
    <3>2. CASE d = c
      BY <1>1, <1>2, <1>3, <1>4, <2>1, <3>2 DEF RequestOK, Unredeemed
    <3> QED BY <3>1, <3>2
  <2> QED BY <2>2, <2>3, <2>4, <2>5 DEF RedeemInv
<1> QED BY <1>5, <1>6 DEF Undo

LEMMA BreaksKeeps ==
  ASSUME RedeemInv, NEW c \in Redeems, RedeemBreaks(c)
  PROVE  RedeemInv'
<1>1. RedeemTypeOK /\ RequestOK(c)
  BY DEF RedeemInv
<1>2. UNCHANGED <<used, ended, redemption, entitlement>> /\ stray' = IF entitlement[c] = "minted" THEN stray \cup {c} ELSE stray
  BY DEF RedeemBreaks
<1>3. /\ redeem'[c].pc = "refused" /\ \A d \in Redeems \ {c} : redeem'[d] = redeem[d]
      /\ redeem' \in [Redeems -> [pc : {"idle", "mint", "claim", "undo", "done", "refused"}, who : Guests, session : Redeems \cup {NoRedeem}]]
  BY <1>1 DEF RedeemBreaks, RedeemTypeOK
<1>4. RedeemTypeOK'
  BY <1>1, <1>2, <1>3 DEF RedeemTypeOK
<1>5. RequestOK(c)'
  BY <1>1, <1>2, <1>3 DEF RequestOK, Unredeemed
<1> QED BY <1>2, <1>3, <1>4, <1>5, RequestMoves

\* Only the session of a redemption is started.
LEMMA StartKeeps ==
  ASSUME RedeemInv, NEW c \in Redeems, StartRedeemed(c)
  PROVE  RedeemInv'
<1> DEFINE s == redeem[c].session
<1>1. RedeemTypeOK /\ RequestOK(c) /\ s \in Redeems /\ redemption[redeem[c].who] = s /\ redeem[c].who \in Guests /\ entitlement[s] = "minted"
  BY DEF RedeemInv, StartRedeemed, RequestOK, RedeemTypeOK
<1>2. UNCHANGED <<used, ended, redemption, redeem, stray>> /\ entitlement' = [entitlement EXCEPT ![s] = "started"]
  BY DEF StartRedeemed
<1> HIDE DEF s
<1>3. entitlement'[s] = "started" /\ \A d \in Redeems \ {s} : entitlement'[d] = entitlement[d]
  BY <1>1, <1>2 DEF RedeemTypeOK
<1>4. RedeemTypeOK'
  BY <1>1, <1>2 DEF RedeemTypeOK
<1>5. SeatsOK'
  BY <1>2 DEF RedeemInv, SeatsOK, Redeemed
<1>6. RedemptionsOK'
  BY <1>1, <1>2, <1>3 DEF RedeemInv, RedemptionsOK, Redeemed, RedeemTypeOK
<1>7. ASSUME NEW d \in Redeems PROVE RequestOK(d)'
  <2>1. CASE d # s
    BY <1>2, <1>3, <2>1 DEF RedeemInv, RequestOK, Unredeemed
  <2>2. CASE d = s
    BY <1>1, <1>2, <1>3, <2>2 DEF RedeemInv, RequestOK, Unredeemed
  <2> QED BY <2>1, <2>2
<1> QED BY <1>4, <1>5, <1>6, <1>7 DEF RedeemInv

LEMMA RedeemStep == RedeemInv /\ [RedeemNext]_redeemVars => RedeemInv'
<1> SUFFICES ASSUME RedeemInv, [RedeemNext]_redeemVars PROVE RedeemInv'
  OBVIOUS
<1>1. ASSUME NEW c \in Redeems, NEW g \in Guests, AskRedeem(c, g) PROVE RedeemInv'
  BY <1>1, AskKeeps
<1>2. ASSUME NEW c \in Redeems, Mint(c) \/ ClaimSeat(c) \/ Undo(c) \/ RedeemBreaks(c) \/ StartRedeemed(c) PROVE RedeemInv'
  BY <1>2, MintKeeps, ClaimKeeps, UndoKeeps, BreaksKeeps, StartKeeps
<1>3. CASE EndInvite \/ UNCHANGED redeemVars
  <2>1. UNCHANGED <<used, redemption, entitlement, redeem, stray>> /\ ended' \in BOOLEAN
    BY <1>3 DEF EndInvite, redeemVars, RedeemInv, RedeemTypeOK
  <2>2. RedeemTypeOK' /\ SeatsOK' /\ RedemptionsOK'
    BY <2>1 DEF RedeemInv, RedeemTypeOK, SeatsOK, RedemptionsOK, Redeemed
  <2>3. \A c \in Redeems : RequestOK(c)'
    BY <2>1 DEF RedeemInv, RequestOK, Unredeemed
  <2> QED BY <2>2, <2>3 DEF RedeemInv
<1> QED BY <1>1, <1>2, <1>3 DEF RedeemNext

-----------------------------------------------------------------------------
(* The theorem *)

LEMMA InvIsRedeemSound == RedeemInv => RedeemSound
<1> SUFFICES ASSUME RedeemInv PROVE RedeemSound
  OBVIOUS
<1>1. SeatsAreRedemptions
  BY DEF RedeemInv, SeatsOK, SeatsAreRedemptions
<1>2. SameSessionOnEveryVisit
  BY RedeemAssumption DEF RedeemInv, RequestOK, RedemptionsOK, SameSessionOnEveryVisit
<1>3. EntitledOnceRedeemed
  BY DEF RedeemInv, RequestOK, RedemptionsOK, Unredeemed, EntitledOnceRedeemed
<1> QED BY <1>1, <1>2, <1>3 DEF RedeemSound

\* However many candidates and tabs redeem a link at once, and wherever their
\* requests fail: seats, redemptions and entitlements agree.
THEOREM RedemptionsAreSound == RedeemSpec => []RedeemSound
<1>1. RedeemSpec => []RedeemInv
  BY RedeemStarts, RedeemStep, PTL DEF RedeemSpec
<1> QED BY <1>1, InvIsRedeemSound, PTL

-----------------------------------------------------------------------------
(* Staff and roles *)

\* Two requests about one member overlap only if mixed remembers it.
OneUnderway ==
    \A c, d \in TeamCalls :
        (team[c].pc \in Underway /\ team[d].pc \in Underway /\ team[c].user = team[d].user /\ team[c].user \notin mixed) => c = d

\* Only the last steps of an acceptance or of a change add a role; a count is of an owner;
\* an invitation is marked once its membership is written.
OpsFit ==
    \A c \in TeamCalls :
        /\ (team[c].pc \in {"count", "drop"} => team[c].op # "accept") /\ (team[c].pc = "add" => team[c].op # "remove")
        /\ team[c].op = "accept" => team[c].to = team[c].role /\ <<team[c].user, team[c].role>> \in Invited
        /\ team[c].pc = "count" => team[c].role = "ORG_OWNER"
        /\ team[c].pc = "mark" => team[c].op = "accept" /\ <<team[c].user, team[c].to>> \in entered

\* What a request read about its member still holds when nothing overlaps.
ReadHolds ==
    \A c \in TeamCalls : team[c].user \notin mixed =>
        /\ team[c].pc \in {"count", "drop"} => Holds(team[c].user, team[c].role)
        /\ team[c].pc = "add" /\ team[c].op = "accept" => status[team[c].user][team[c].role] # "REMOVED"

\* Whoever is taking owner access away leaves another owner.
OwnerLeft ==
    raced \/
    /\ Owners # {}
    /\ \A c \in TeamCalls : team[c].pc = "drop" /\ team[c].role = "ORG_OWNER" => Owners \ {team[c].user} # {}
    /\ \A c, d \in TeamCalls : (team[c].pc = "drop" /\ team[c].role = "ORG_OWNER" /\ team[d].pc = "drop" /\ team[d].role = "ORG_OWNER")
                                 => team[c].user = team[d].user

\* The roles a member holds, and the invitations whose membership was written.
Held(u) == {r \in Roles : Holds(u, r)}
Accepted(u) == {i \in entered : i[1] = u}

RolesCounted ==
    /\ Invited \ pending \subseteq entered
    /\ \A i \in entered : status[i[1]][i[2]] # "none"
    /\ \A u \in Staff \ mixed :
        /\ Cardinality(Held(u)) <= 1 + Cardinality(Accepted(u))
        /\ \A c \in TeamCalls : (team[c].user = u /\ team[c].pc = "add" /\ team[c].op = "change")
                                  => Cardinality(Held(u)) <= Cardinality(Accepted(u))

StillIn ==
    \A u \in Staff \ cut :
        \/ \E r \in Roles : Holds(u, r)
        \/ \E c \in TeamCalls : team[c].user = u /\ ((team[c].op = "change" /\ team[c].pc = "add") \/ (team[c].op = "remove" /\ team[c].pc = "done"))

OutUntilChanged ==
    \A c \in TeamCalls : (team[c].op = "remove" /\ team[c].pc = "done" /\ team[c].user \notin mixed) =>
        \/ status[team[c].user][team[c].role] = "REMOVED"
        \/ \E d \in TeamCalls : team[d].pc = "done" /\ team[d].op = "change" /\ team[d].user = team[c].user /\ team[d].to = team[c].role

TeamInv == TeamTypeOK /\ OneUnderway /\ OpsFit /\ ReadHolds /\ OwnerLeft /\ RolesCounted /\ StillIn /\ OutUntilChanged

-----------------------------------------------------------------------------
(* What the steps do *)

\* Request c has gone on to pc, as what it was unless it was refused.
TeamWent(c, pc) ==
    /\ team' \in [TeamCalls -> [pc : TeamSteps, op : TeamOps, byOwner : BOOLEAN, user : Staff, role : Roles, to : Roles]]
    /\ \A d \in TeamCalls \ {c} : team'[d] = team[d]
    /\ team'[c].pc = pc
    /\ pc # "refused" => /\ team'[c].op = team[c].op /\ team'[c].user = team[c].user
                         /\ team'[c].role = team[c].role /\ team'[c].to = team[c].to
    /\ pc = "refused" => team'[c].op = "change"

LEMMA NoCallTyped == NoTeamCall \in [pc : TeamSteps, op : TeamOps, byOwner : BOOLEAN, user : Staff, role : Roles, to : Roles]
<1>1. (CHOOSE u \in Staff : TRUE) \in Staff
  BY TeamAssumption
<1>. QED
  BY <1>1 DEF NoTeamCall, TeamSteps, TeamOps, Roles

LEMMA StepGoes ==
    ASSUME TeamTypeOK, NEW c \in TeamCalls, NEW pc \in TeamSteps, Step(c, pc)
    PROVE  TeamWent(c, pc)
<1> DEFINE gone == [NoTeamCall EXCEPT !.pc = pc]
           on == [team[c] EXCEPT !.pc = pc]
           Requests == [pc : TeamSteps, op : TeamOps, byOwner : BOOLEAN, user : Staff, role : Roles, to : Roles]
<1>1. gone \in Requests /\ gone.pc = pc /\ gone.op = "change"
  BY NoCallTyped DEF NoTeamCall
<1>2. /\ on \in Requests /\ on.pc = pc
      /\ on.op = team[c].op /\ on.user = team[c].user /\ on.role = team[c].role /\ on.to = team[c].to
  BY DEF TeamTypeOK
<1>3. team \in [TeamCalls -> Requests] /\ team' = [team EXCEPT ![c] = IF pc = "refused" THEN gone ELSE on]
  BY DEF TeamTypeOK, Step
<1>. HIDE DEF gone, on
<1>. QED
  BY <1>1, <1>2, <1>3 DEF TeamWent

LEMMA CallFields ==
    ASSUME TeamTypeOK, NEW c \in TeamCalls
    PROVE  team[c].pc \in TeamSteps /\ team[c].op \in TeamOps /\ team[c].user \in Staff /\ team[c].role \in Roles /\ team[c].to \in Roles
BY DEF TeamTypeOK

\* A request that is read, for somebody's change, removal or acceptance.
Begun(c) ==
    /\ team[c].pc = "idle"
    /\ team' \in [TeamCalls -> [pc : TeamSteps, op : TeamOps, byOwner : BOOLEAN, user : Staff, role : Roles, to : Roles]]
    /\ \A d \in TeamCalls \ {c} : team'[d] = team[d]
    /\ team'[c].pc = "read"
    /\ team'[c].op = "accept" => team'[c].to = team'[c].role /\ <<team'[c].user, team'[c].role>> \in Invited
    /\ UNCHANGED <<status, pending, entered, mixed, raced, cut>>

LEMMA AskBegins ==
    ASSUME TeamTypeOK, NEW c \in TeamCalls,
           \/ \E a, u \in Staff, r, to \in Roles : AskChange(c, a, u, r, to)
           \/ \E a, u \in Staff, r \in Roles : AskRemove(c, a, u, r)
           \/ \E u \in Staff, r \in Roles : AskAccept(c, u, r)
    PROVE  Begun(c)
<1> DEFINE Requests == [pc : TeamSteps, op : TeamOps, byOwner : BOOLEAN, user : Staff, role : Roles, to : Roles]
<1>1. team \in [TeamCalls -> Requests] /\ pending \subseteq Invited
  BY DEF TeamTypeOK
<1>2. ASSUME NEW op \in TeamOps, NEW o \in BOOLEAN, NEW u \in Staff, NEW r \in Roles, NEW to \in Roles,
             op = "accept" => to = r /\ <<u, r>> \in Invited,
             team[c].pc = "idle", UNCHANGED <<status, pending, entered, mixed, raced, cut>>,
             team' = [team EXCEPT ![c] = [pc |-> "read", op |-> op, byOwner |-> o, user |-> u, role |-> r, to |-> to]]
      PROVE  Begun(c)
  <2> DEFINE m == [pc |-> "read", op |-> op, byOwner |-> o, user |-> u, role |-> r, to |-> to]
  <2>1. m \in Requests
    BY <1>2 DEF TeamSteps
  <2>2. m.pc = "read" /\ m.op = op /\ m.user = u /\ m.role = r /\ m.to = to
    OBVIOUS
  <2>3. team'[c] = m /\ team' \in [TeamCalls -> Requests] /\ \A d \in TeamCalls \ {c} : team'[d] = team[d]
    BY <1>1, <1>2, <2>1
  <2>. HIDE DEF m
  <2>. QED
    BY <1>2, <2>2, <2>3 DEF Begun
<1>3. ASSUME NEW a \in Staff, NEW u \in Staff, NEW r \in Roles, NEW to \in Roles, AskChange(c, a, u, r, to) PROVE Begun(c)
  <2>1. Holds(a, "ORG_OWNER") \in BOOLEAN
    BY DEF Holds
  <2>. QED
    BY <1>2, <1>3, <2>1 DEF AskChange, Ask, TeamOps
<1>4. ASSUME NEW a \in Staff, NEW u \in Staff, NEW r \in Roles, AskRemove(c, a, u, r) PROVE Begun(c)
  <2>1. Holds(a, "ORG_OWNER") \in BOOLEAN
    BY DEF Holds
  <2>. QED
    BY <1>2, <1>4, <2>1 DEF AskRemove, Ask, TeamOps
<1>5. ASSUME NEW u \in Staff, NEW r \in Roles, AskAccept(c, u, r) PROVE Begun(c)
  BY <1>1, <1>2, <1>5 DEF AskAccept, TeamOps
<1>. QED
  BY <1>3, <1>4, <1>5

\* The row is read: the request is refused, or it goes on and what it read holds.
LEMMA ReadGoes ==
    ASSUME TeamTypeOK, NEW c \in TeamCalls, Read(c)
    PROVE  \E pc \in {"refused", "count", "drop", "add"} :
             /\ TeamWent(c, pc) /\ team[c].pc = "read" /\ UNCHANGED <<status, pending, entered, raced, cut>>
             /\ mixed' = IF pc \in Underway /\ About(c, team[c].user) # {} THEN mixed \cup {team[c].user} ELSE mixed
             /\ pc \in {"count", "drop"} => team[c].op # "accept" /\ Holds(team[c].user, team[c].role)
             /\ pc = "count" => team[c].role = "ORG_OWNER"
             /\ pc = "drop" => team[c].role # "ORG_OWNER"
             /\ pc = "add" => team[c].op = "accept" /\ status[team[c].user][team[c].role] # "REMOVED"
<1> DEFINE row == status[team[c].user][team[c].role]
           next == IF team[c].op = "accept" THEN IF row = "REMOVED" THEN "refused" ELSE "add"
                   ELSE IF row # "ACTIVE" \/ ~OwnerRule(c) THEN "refused"
                   ELSE IF team[c].op = "change" /\ team[c].to = team[c].role THEN "refused"
                   ELSE IF team[c].role = "ORG_OWNER" THEN "count" ELSE "drop"
<1>1. /\ team[c].pc = "read" /\ Step(c, next) /\ UNCHANGED <<status, pending, entered, raced, cut>>
      /\ mixed' = IF next \in Underway /\ About(c, team[c].user) # {} THEN mixed \cup {team[c].user} ELSE mixed
  BY DEF Read
<1>2. next \in {"refused", "count", "drop", "add"}
  OBVIOUS
<1>3. /\ next \in {"count", "drop"} => team[c].op # "accept" /\ row = "ACTIVE"
      /\ next = "count" => team[c].role = "ORG_OWNER"
      /\ next = "drop" => team[c].role # "ORG_OWNER"
      /\ next = "add" => team[c].op = "accept" /\ row # "REMOVED"
  OBVIOUS
<1>. HIDE DEF next
<1>4. TeamWent(c, next)
  BY <1>1, <1>2, StepGoes DEF TeamSteps, Underway
<1>. WITNESS next \in {"refused", "count", "drop", "add"}
<1>. QED
  BY <1>1, <1>3, <1>4 DEF Holds

LEMMA CountGoes ==
    ASSUME TeamTypeOK, NEW c \in TeamCalls, Count(c)
    PROVE  /\ team[c].pc = "count" /\ UNCHANGED <<status, pending, entered, mixed, cut>>
           /\ \/ TeamWent(c, "refused")
              \/ TeamWent(c, "drop") /\ ~(Cardinality(Owners) <= 1)
           /\ raced \/ (team'[c].pc = "drop" /\ \E d \in TeamCalls \ {c} :
                         team[d].pc = "drop" /\ team[d].role = "ORG_OWNER" /\ team[d].user # team[c].user) <=> raced'
<1> DEFINE last == Cardinality(Owners) <= 1
<1>1. TeamWent(c, IF last THEN "refused" ELSE "drop")
  BY StepGoes DEF Count, TeamSteps, Underway
<1>2. raced' = (raced \/ (~last /\ \E d \in TeamCalls \ {c} :
                    team[d].pc = "drop" /\ team[d].role = "ORG_OWNER" /\ team[d].user # team[c].user))
  BY DEF Count
<1>. HIDE DEF last
<1>3. team'[c].pc = "drop" <=> ~last
  BY <1>1 DEF TeamWent
<1>. QED
  BY <1>1, <1>2, <1>3 DEF Count, last

LEMMA DropGoes ==
    ASSUME TeamTypeOK, NEW c \in TeamCalls, Drop(c)
    PROVE  /\ team[c].pc = "drop" /\ UNCHANGED <<pending, entered, mixed, raced, cut>>
           /\ TeamWent(c, IF team[c].op = "change" THEN "add" ELSE "done")
           /\ status' \in [Staff -> [Roles -> {"none", "ACTIVE", "REMOVED"}]]
           /\ status'[team[c].user][team[c].role] = "REMOVED"
           /\ \A u \in Staff, r \in Roles : <<u, r>> # <<team[c].user, team[c].role>> => status'[u][r] = status[u][r]
<1>1. TeamWent(c, IF team[c].op = "change" THEN "add" ELSE "done")
  BY StepGoes DEF Drop, TeamSteps, Underway
<1>2. status' = [status EXCEPT ![team[c].user][team[c].role] = "REMOVED"]
  BY DEF Drop
<1>. QED
  BY <1>1, <1>2, CallFields DEF Drop, TeamTypeOK

LEMMA AddGoes ==
    ASSUME TeamTypeOK, NEW c \in TeamCalls, Add(c)
    PROVE  /\ team[c].pc = "add" /\ UNCHANGED <<pending, mixed, raced, cut>>
           /\ TeamWent(c, IF team[c].op = "accept" THEN "mark" ELSE "done")
           /\ entered' = IF team[c].op = "accept" THEN entered \cup {<<team[c].user, team[c].to>>} ELSE entered
           /\ status' \in [Staff -> [Roles -> {"none", "ACTIVE", "REMOVED"}]]
           /\ status'[team[c].user][team[c].to] = "ACTIVE"
           /\ \A u \in Staff, r \in Roles : <<u, r>> # <<team[c].user, team[c].to>> => status'[u][r] = status[u][r]
<1>1. TeamWent(c, IF team[c].op = "accept" THEN "mark" ELSE "done")
  BY StepGoes DEF Add, Written, TeamSteps
<1>2. status' = [status EXCEPT ![team[c].user][team[c].to] = "ACTIVE"]
  BY DEF Add
<1>. QED
  BY <1>1, <1>2, CallFields DEF Add, Written, TeamTypeOK

LEMMA MarkGoes ==
    ASSUME TeamTypeOK, NEW c \in TeamCalls, Mark(c)
    PROVE  /\ team[c].pc = "mark" /\ UNCHANGED <<status, entered, mixed, raced, cut>>
           /\ TeamWent(c, "done") /\ pending' = pending \ {<<team[c].user, team[c].to>>}
BY StepGoes DEF Mark, TeamSteps

LEMMA BreaksGoes ==
    ASSUME TeamTypeOK, NEW c \in TeamCalls, Breaks(c)
    PROVE  /\ team[c].pc \in Underway \cup {"mark"} /\ UNCHANGED <<status, pending, entered, mixed, raced>>
           /\ TeamWent(c, "refused")
           /\ cut' = IF team[c].op = "change" /\ team[c].pc = "add" THEN cut \cup {team[c].user} ELSE cut
BY StepGoes DEF Breaks, TeamSteps

\* The steps of the team.
LEMMA TeamSteppers ==
    ASSUME TeamTypeOK, [TeamNext]_teamVars
    PROVE  \/ \E c \in TeamCalls : Begun(c) \/ Read(c) \/ Count(c) \/ Drop(c) \/ Add(c) \/ Mark(c) \/ Breaks(c)
           \/ UNCHANGED teamVars
BY AskBegins DEF TeamNext

LEMMA TypesStay == TeamTypeOK /\ OpsFit /\ [TeamNext]_teamVars => TeamTypeOK'
<1> SUFFICES ASSUME TeamTypeOK, OpsFit, [TeamNext]_teamVars PROVE TeamTypeOK'
  OBVIOUS
<1>1. ASSUME NEW c \in TeamCalls, Begun(c) PROVE TeamTypeOK'
  BY <1>1 DEF Begun, TeamTypeOK
<1>2. ASSUME NEW c \in TeamCalls, Read(c) PROVE TeamTypeOK'
  <2>1. \E pc : TeamWent(c, pc) /\ UNCHANGED <<status, pending, entered, raced, cut>>
    BY <1>2, ReadGoes
  <2>2. mixed' \subseteq mixed \cup {team[c].user}
    BY <1>2 DEF Read
  <2>. QED
    BY <2>1, <2>2, CallFields DEF TeamWent, TeamTypeOK
<1>3. ASSUME NEW c \in TeamCalls, Count(c) PROVE TeamTypeOK'
  <2>1. raced' \in BOOLEAN
    BY <1>3 DEF Count
  <2>. QED
    BY <1>3, <2>1, CountGoes DEF TeamWent, TeamTypeOK
<1>4. ASSUME NEW c \in TeamCalls, Drop(c) PROVE TeamTypeOK'
  BY <1>4, DropGoes DEF TeamWent, TeamTypeOK
<1>5. ASSUME NEW c \in TeamCalls, Add(c), OpsFit PROVE TeamTypeOK'
  <2>1. entered' \subseteq Invited
    <3>1. entered' = IF team[c].op = "accept" THEN entered \cup {<<team[c].user, team[c].to>>} ELSE entered
      BY <1>5, AddGoes
    <3>2. team[c].op = "accept" => <<team[c].user, team[c].to>> \in Invited
      BY DEF OpsFit
    <3>3. entered \subseteq Invited
      BY DEF TeamTypeOK
    <3>. QED
      BY <3>1, <3>2, <3>3
  <2>2. PICK pc \in {"mark", "done"} : TeamWent(c, pc)
    BY <1>5, AddGoes
  <2>3. /\ UNCHANGED <<pending, mixed, raced, cut>>
        /\ status' \in [Staff -> [Roles -> {"none", "ACTIVE", "REMOVED"}]]
    BY <1>5, AddGoes
  <2>. QED
    BY <2>1, <2>2, <2>3 DEF TeamWent, TeamTypeOK
<1>8. ASSUME NEW c \in TeamCalls, Mark(c) PROVE TeamTypeOK'
  BY <1>8, MarkGoes DEF TeamWent, TeamTypeOK
<1>6. ASSUME NEW c \in TeamCalls, Breaks(c) PROVE TeamTypeOK'
  BY <1>6, BreaksGoes, CallFields DEF TeamWent, TeamTypeOK
<1>7. CASE UNCHANGED teamVars
  BY <1>7 DEF TeamTypeOK, teamVars
<1>. QED
  BY <1>1, <1>2, <1>3, <1>4, <1>5, <1>6, <1>7, <1>8, TeamSteppers

-----------------------------------------------------------------------------
(* One request at a time about a member who is not mixed up in two *)

ApartInv == TeamTypeOK /\ OneUnderway /\ OpsFit /\ ReadHolds

LEMMA OnePerMember ==
    ASSUME OneUnderway, NEW c \in TeamCalls, NEW d \in TeamCalls, c # d, team[c].user \notin mixed,
           team[c].pc \in Underway, team[d].pc \in Underway
    PROVE  team[d].user # team[c].user
BY DEF OneUnderway

LEMMA ApartStays == ApartInv /\ [TeamNext]_teamVars => OneUnderway' /\ OpsFit' /\ ReadHolds'
<1> SUFFICES ASSUME ApartInv, [TeamNext]_teamVars PROVE OneUnderway' /\ OpsFit' /\ ReadHolds'
  OBVIOUS
<1>0. TeamTypeOK /\ OneUnderway /\ OpsFit /\ ReadHolds
  BY DEF ApartInv
<1>1. ASSUME NEW c \in TeamCalls, Begun(c) PROVE OneUnderway' /\ OpsFit' /\ ReadHolds'
  BY <1>0, <1>1 DEF Begun, OneUnderway, OpsFit, ReadHolds, Holds, Underway
<1>2. ASSUME NEW c \in TeamCalls, Read(c) PROVE OneUnderway' /\ OpsFit' /\ ReadHolds'
  <2>1. PICK pc \in {"refused", "count", "drop", "add"} :
             /\ TeamWent(c, pc) /\ team[c].pc = "read" /\ UNCHANGED <<status, pending, entered, raced, cut>>
             /\ mixed' = IF pc \in Underway /\ About(c, team[c].user) # {} THEN mixed \cup {team[c].user} ELSE mixed
             /\ pc \in {"count", "drop"} => team[c].op # "accept" /\ Holds(team[c].user, team[c].role)
             /\ pc = "count" => team[c].role = "ORG_OWNER"
             /\ pc = "drop" => team[c].role # "ORG_OWNER"
             /\ pc = "add" => team[c].op = "accept" /\ status[team[c].user][team[c].role] # "REMOVED"
    BY <1>0, <1>2, ReadGoes
  <2>2. mixed \subseteq mixed'
    BY <2>1
  <2>3. OpsFit'
    BY <1>0, <2>1 DEF OpsFit, TeamWent
  <2>4. ReadHolds'
    BY <1>0, <2>1, <2>2 DEF ReadHolds, TeamWent, Holds
  <2>5. ASSUME NEW d \in TeamCalls \ {c}, pc \in Underway, team[d].pc \in Underway, team[c].user = team[d].user
        PROVE  team[c].user \in mixed'
    BY <2>1, <2>5 DEF About
  <2>6. OneUnderway'
    BY <1>0, <2>1, <2>2, <2>5 DEF OneUnderway, TeamWent, Underway
  <2>. QED
    BY <2>3, <2>4, <2>6
<1>3. ASSUME NEW c \in TeamCalls, Count(c) PROVE OneUnderway' /\ OpsFit' /\ ReadHolds'
  <2>1. PICK pc \in {"refused", "drop"} : TeamWent(c, pc)
    BY <1>0, <1>3, CountGoes
  <2>2. team[c].pc = "count" /\ UNCHANGED <<status, entered, mixed>>
    BY <1>0, <1>3, CountGoes
  <2>3. OneUnderway' /\ OpsFit'
    BY <1>0, <2>1, <2>2 DEF OneUnderway, OpsFit, TeamWent, Underway
  <2>4. ReadHolds'
    BY <1>0, <2>1, <2>2 DEF ReadHolds, TeamWent, Holds
  <2>. QED
    BY <2>3, <2>4
<1>4. ASSUME NEW c \in TeamCalls, Drop(c) PROVE OneUnderway' /\ OpsFit' /\ ReadHolds'
  <2>1. PICK pc \in {"add", "done"} : TeamWent(c, pc) /\ (pc = "add" <=> team[c].op = "change")
    BY <1>0, <1>4, DropGoes
  <2>2. /\ team[c].pc = "drop" /\ mixed' = mixed /\ entered' = entered
        /\ \A u \in Staff, r \in Roles : <<u, r>> # <<team[c].user, team[c].role>> => status'[u][r] = status[u][r]
    BY <1>0, <1>4, DropGoes
  <2>3. OneUnderway' /\ OpsFit'
    BY <1>0, <2>1, <2>2 DEF OneUnderway, OpsFit, TeamWent, Underway
  <2>4. ASSUME NEW d \in TeamCalls \ {c}, team[d].user \notin mixed, team[d].pc \in Underway
        PROVE  status'[team[d].user][team[d].role] = status[team[d].user][team[d].role]
    <3>1. team[d].user # team[c].user
      BY <1>0, <2>2, <2>4, OnePerMember DEF Underway
    <3>. QED
      BY <1>0, <2>2, <3>1, CallFields
  <2>5. ASSUME NEW d \in TeamCalls, team'[d].user \notin mixed'
        PROVE  /\ team'[d].pc \in {"count", "drop"} => Holds(team[d].user, team[d].role)'
               /\ team'[d].pc = "add" /\ team'[d].op = "accept" => status'[team'[d].user][team'[d].role] # "REMOVED"
    <3>1. CASE d = c
      BY <2>1, <3>1 DEF TeamWent
    <3>2. CASE d # c
      <4>1. team'[d] = team[d]
        BY <2>1, <3>2 DEF TeamWent
      <4>. QED
        BY <1>0, <2>2, <2>4, <2>5, <3>2, <4>1 DEF ReadHolds, Holds, Underway
    <3>. QED
      BY <3>1, <3>2
  <2>6. ReadHolds'
    BY <2>5 DEF ReadHolds
  <2>. QED
    BY <2>3, <2>6
<1>5. ASSUME NEW c \in TeamCalls, Add(c) PROVE OneUnderway' /\ OpsFit' /\ ReadHolds'
  <2>1. /\ team[c].pc = "add" /\ mixed' = mixed /\ status'[team[c].user][team[c].to] = "ACTIVE"
        /\ \A u \in Staff, r \in Roles : <<u, r>> # <<team[c].user, team[c].to>> => status'[u][r] = status[u][r]
        /\ entered' = IF team[c].op = "accept" THEN entered \cup {<<team[c].user, team[c].to>>} ELSE entered
    BY <1>0, <1>5, AddGoes
  <2>p. PICK pc \in {"mark", "done"} : TeamWent(c, pc) /\ (pc = "mark" <=> team[c].op = "accept")
    BY <1>0, <1>5, AddGoes
  <2>2. OneUnderway' /\ OpsFit'
    BY <1>0, <2>1, <2>p, SMTT(30) DEF OneUnderway, OpsFit, TeamWent, Underway
  <2>3. \A d \in TeamCalls : \/ status'[team[d].user][team[d].role] = status[team[d].user][team[d].role]
                             \/ status'[team[d].user][team[d].role] = "ACTIVE"
    BY <1>0, <2>1, CallFields
  <2>4. ReadHolds'
    BY <1>0, <2>1, <2>p, <2>3 DEF ReadHolds, TeamWent, Holds
  <2>. QED
    BY <2>2, <2>4
<1>8. ASSUME NEW c \in TeamCalls, Mark(c) PROVE OneUnderway' /\ OpsFit' /\ ReadHolds'
  <2>1. TeamWent(c, "done") /\ UNCHANGED <<status, entered, mixed>>
    BY <1>0, <1>8, MarkGoes
  <2>2. OneUnderway' /\ OpsFit'
    BY <1>0, <2>1 DEF OneUnderway, OpsFit, TeamWent, Underway
  <2>3. ReadHolds'
    BY <1>0, <2>1 DEF ReadHolds, TeamWent, Holds
  <2>. QED
    BY <2>2, <2>3
<1>6. ASSUME NEW c \in TeamCalls, Breaks(c) PROVE OneUnderway' /\ OpsFit' /\ ReadHolds'
  <2>1. TeamWent(c, "refused") /\ UNCHANGED <<status, entered, mixed>>
    BY <1>0, <1>6, BreaksGoes
  <2>2. OneUnderway' /\ OpsFit'
    BY <1>0, <2>1 DEF OneUnderway, OpsFit, TeamWent, Underway
  <2>3. ReadHolds'
    BY <1>0, <2>1 DEF ReadHolds, TeamWent, Holds
  <2>. QED
    BY <2>2, <2>3
<1>7. CASE UNCHANGED teamVars
  BY <1>0, <1>7 DEF OneUnderway, OpsFit, ReadHolds, Holds, teamVars
<1>. QED
  BY <1>0, <1>1, <1>2, <1>3, <1>4, <1>5, <1>6, <1>7, <1>8, TeamSteppers

-----------------------------------------------------------------------------
(* An owner remains *)

LEMMA AnotherOfTwo ==
    ASSUME NEW S, ~(Cardinality(S) <= 1), NEW u
    PROVE  S \ {u} # {}
<1> SUFFICES ASSUME S \ {u} = {} PROVE FALSE
  OBVIOUS
<1>1. S = {} \/ S = {u}
  OBVIOUS
<1>2. Cardinality(S) \in {0, 1}
  BY <1>1, FS_EmptySet, FS_Singleton
<1>. QED
  BY <1>2

\* Unless the step gives or takes owner access, the owners are who they were.
LEMMA OwnersAre ==
    ASSUME \A u \in Staff : status'[u]["ORG_OWNER"] = status[u]["ORG_OWNER"]
    PROVE  Owners' = Owners
BY DEF Owners, Holds

TakesOwner(c) == team[c].pc = "drop" /\ team[c].role = "ORG_OWNER"

LEMMA OwnerStays == ApartInv /\ OwnerLeft /\ [TeamNext]_teamVars => OwnerLeft'
<1> SUFFICES ASSUME ApartInv, OwnerLeft, [TeamNext]_teamVars, ~raced' PROVE OwnerLeft'
  BY DEF OwnerLeft
<1>0. TeamTypeOK /\ OpsFit
  BY DEF ApartInv
<1>k. raced => raced'
  BY DEF TeamNext, AskChange, AskRemove, AskAccept, Ask, Read, Count, Drop, Add, Written, Mark, Breaks, teamVars
<1>w. /\ Owners # {}
      /\ \A c \in TeamCalls : TakesOwner(c) => Owners \ {team[c].user} # {}
      /\ \A c, d \in TeamCalls : TakesOwner(c) /\ TakesOwner(d) => team[c].user = team[d].user
  BY <1>k DEF OwnerLeft, TakesOwner
<1>s. ASSUME NEW c \in TeamCalls, status' = status, \A d \in TeamCalls \ {c} : team'[d] = team[d], ~TakesOwner(c)' PROVE OwnerLeft'
  <2>1. Owners' = Owners
    BY <1>s, OwnersAre
  <2>. QED
    BY <1>w, <1>s, <2>1 DEF OwnerLeft, TakesOwner
<1>1. ASSUME NEW c \in TeamCalls, Begun(c) PROVE OwnerLeft'
  BY <1>1, <1>s DEF Begun, TakesOwner
<1>2. ASSUME NEW c \in TeamCalls, Read(c) PROVE OwnerLeft'
  <2>1. PICK pc \in {"refused", "count", "drop", "add"} : TeamWent(c, pc) /\ (pc = "drop" => team[c].role # "ORG_OWNER")
    BY <1>0, <1>2, ReadGoes
  <2>2. status' = status
    BY <1>2 DEF Read
  <2>. QED
    BY <1>s, <2>1, <2>2 DEF TeamWent, TakesOwner
<1>3. ASSUME NEW c \in TeamCalls, Count(c) PROVE OwnerLeft'
  <2>1. status' = status /\ team[c].pc = "count" /\ team[c].role = "ORG_OWNER"
    BY <1>0, <1>3, CountGoes DEF OpsFit
  <2>2. CASE TeamWent(c, "refused")
    BY <1>s, <2>1, <2>2 DEF TeamWent, TakesOwner
  <2>3. CASE TeamWent(c, "drop") /\ ~(Cardinality(Owners) <= 1)
    <3>1. Owners \ {team[c].user} # {} /\ Owners' = Owners
      BY <2>1, <2>3, AnotherOfTwo, OwnersAre
    <3>2. \A d \in TeamCalls \ {c} : TakesOwner(d) => team[d].user = team[c].user
      BY <1>0, <1>3, <2>3, CountGoes DEF TeamWent, TakesOwner
    <3>3. team'[c].user = team[c].user /\ \A d \in TeamCalls \ {c} : team'[d] = team[d]
      BY <2>3 DEF TeamWent
    <3>4. \A d \in TeamCalls : TakesOwner(d)' => team'[d].user = team[c].user
      BY <3>2, <3>3 DEF TakesOwner
    <3>. QED
      BY <1>w, <3>1, <3>4 DEF OwnerLeft, TakesOwner
  <2>. QED
    BY <1>0, <1>3, <2>2, <2>3, CountGoes
<1>4. ASSUME NEW c \in TeamCalls, Drop(c) PROVE OwnerLeft'
  <2>1. PICK pc \in {"add", "done"} : TeamWent(c, pc)
    BY <1>0, <1>4, DropGoes
  <2>2. /\ team[c].pc = "drop" /\ status'[team[c].user][team[c].role] = "REMOVED"
        /\ \A u \in Staff, r \in Roles : <<u, r>> # <<team[c].user, team[c].role>> => status'[u][r] = status[u][r]
    BY <1>0, <1>4, DropGoes
  <2>3. \A d \in TeamCalls : TakesOwner(d)' => TakesOwner(d) /\ team'[d] = team[d]
    BY <2>1 DEF TeamWent, TakesOwner
  <2>4. CASE team[c].role # "ORG_OWNER"
    <3>1. Owners' = Owners
      BY <1>0, <2>2, <2>4, CallFields, OwnersAre DEF Roles
    <3>. QED
      BY <1>w, <2>3, <3>1 DEF OwnerLeft, TakesOwner
  <2>5. CASE team[c].role = "ORG_OWNER"
    <3>1. Owners' = Owners \ {team[c].user}
      BY <1>0, <2>2, <2>5, CallFields DEF Owners, Holds, Roles
    <3>2. TakesOwner(c)
      BY <2>2, <2>5 DEF TakesOwner
    <3>3. \A d \in TeamCalls : TakesOwner(d)' => team'[d].user = team[c].user
      BY <1>w, <2>3, <3>2
    <3>. QED
      BY <1>w, <3>1, <3>2, <3>3 DEF OwnerLeft, TakesOwner
  <2>. QED
    BY <2>4, <2>5
<1>5. ASSUME NEW c \in TeamCalls, Add(c) PROVE OwnerLeft'
  <2>p. PICK pc \in {"mark", "done"} : TeamWent(c, pc)
    BY <1>0, <1>5, AddGoes
  <2>1. /\ status'[team[c].user][team[c].to] = "ACTIVE"
        /\ \A u \in Staff, r \in Roles : <<u, r>> # <<team[c].user, team[c].to>> => status'[u][r] = status[u][r]
    BY <1>0, <1>5, AddGoes
  <2>2. Owners \subseteq Owners'
    BY <1>0, <2>1, CallFields DEF Owners, Holds, Roles
  <2>3. \A d \in TeamCalls : TakesOwner(d)' => TakesOwner(d) /\ team'[d] = team[d]
    BY <2>p DEF TeamWent, TakesOwner
  <2>. QED
    BY <1>w, <2>2, <2>3 DEF OwnerLeft, TakesOwner
<1>6. ASSUME NEW c \in TeamCalls, Mark(c) \/ Breaks(c) PROVE OwnerLeft'
  <2>1. status' = status /\ \E pc \in {"done", "refused"} : TeamWent(c, pc)
    BY <1>0, <1>6, MarkGoes, BreaksGoes
  <2>. QED
    BY <1>s, <2>1 DEF TeamWent, TakesOwner
<1>7. CASE UNCHANGED teamVars
  <2>1. Owners' = Owners /\ team' = team
    BY <1>7, OwnersAre DEF teamVars
  <2>. QED
    BY <1>w, <2>1 DEF OwnerLeft, TakesOwner
<1>. QED
  BY <1>0, <1>1, <1>2, <1>3, <1>4, <1>5, <1>6, <1>7, TeamSteppers

-----------------------------------------------------------------------------
(* Nobody falls out, and nobody removed comes back *)

LEMMA StillInStays == ApartInv /\ StillIn /\ [TeamNext]_teamVars => StillIn'
<1> SUFFICES ASSUME ApartInv, StillIn, [TeamNext]_teamVars PROVE StillIn'
  OBVIOUS
<1> DEFINE Keeps(c, u) == team[c].user = u /\ ((team[c].op = "change" /\ team[c].pc = "add") \/ (team[c].op = "remove" /\ team[c].pc = "done"))
<1>0. TeamTypeOK /\ OpsFit
  BY DEF ApartInv
<1>k. cut \subseteq cut'
  BY DEF TeamNext, AskChange, AskRemove, AskAccept, Ask, Read, Count, Drop, Add, Written, Mark, Breaks, teamVars
<1>h. ASSUME NEW u \in Staff \ cut' PROVE (\E r \in Roles : Holds(u, r)) \/ \E c \in TeamCalls : Keeps(c, u)
  BY <1>h, <1>k DEF StillIn
<1>s. ASSUME NEW c \in TeamCalls, status' = status, \A d \in TeamCalls \ {c} : team'[d] = team[d],
             \A u \in Staff \ cut' : ~Keeps(c, u)
      PROVE  StillIn'
  BY <1>h, <1>s DEF StillIn, Holds
<1>1. ASSUME NEW c \in TeamCalls, Begun(c) \/ Read(c) \/ Count(c) \/ Mark(c) \/ Breaks(c) PROVE StillIn'
  <2>1. status' = status /\ \A d \in TeamCalls \ {c} : team'[d] = team[d]
    BY <1>0, <1>1, ReadGoes, CountGoes, MarkGoes, BreaksGoes DEF Begun, TeamWent
  <2>2. \/ team[c].pc \in {"idle", "read", "count", "mark"}
        \/ team[c].pc \in Underway /\ cut' = IF team[c].op = "change" /\ team[c].pc = "add" THEN cut \cup {team[c].user} ELSE cut
    BY <1>0, <1>1, BreaksGoes DEF Begun, Read, Count, Mark
  <2>3. \A u \in Staff \ cut' : ~Keeps(c, u)
    BY <2>2 DEF Underway
  <2>. HIDE DEF Keeps
  <2>. QED
    BY <1>s, <2>1, <2>3
<1>2. ASSUME NEW c \in TeamCalls, Drop(c) PROVE StillIn'
  <2>1. /\ team[c].pc = "drop" /\ cut' = cut /\ TeamWent(c, IF team[c].op = "change" THEN "add" ELSE "done")
        /\ \A u \in Staff, r \in Roles : <<u, r>> # <<team[c].user, team[c].role>> => status'[u][r] = status[u][r]
    BY <1>0, <1>2, DropGoes
  <2>2. team[c].op \in {"change", "remove"}
    BY <1>0, <2>1, CallFields DEF OpsFit, TeamOps
  <2>3. ASSUME NEW u \in Staff \ cut', u # team[c].user PROVE (\E r \in Roles : Holds(u, r)') \/ \E d \in TeamCalls : Keeps(d, u)'
    BY <1>h, <2>1, <2>3 DEF Holds, TeamWent
  <2>4. Keeps(c, team[c].user)'
    BY <2>1, <2>2 DEF TeamWent
  <2>. QED
    BY <2>1, <2>3, <2>4 DEF StillIn, TeamWent
<1>3. ASSUME NEW c \in TeamCalls, Add(c) PROVE StillIn'
  <2>1. /\ team[c].pc = "add" /\ cut' = cut /\ status'[team[c].user][team[c].to] = "ACTIVE"
        /\ \A u \in Staff, r \in Roles : <<u, r>> # <<team[c].user, team[c].to>> => status'[u][r] = status[u][r]
    BY <1>0, <1>3, AddGoes
  <2>p. PICK pc \in {"mark", "done"} : TeamWent(c, pc)
    BY <1>0, <1>3, AddGoes
  <2>2. ASSUME NEW u, u = team[c].user PROVE \E r \in Roles : Holds(u, r)'
    BY <1>0, <2>1, <2>2, CallFields DEF Holds
  <2>3. ASSUME NEW u \in Staff \ cut', u # team[c].user PROVE (\E r \in Roles : Holds(u, r)') \/ \E d \in TeamCalls : Keeps(d, u)'
    BY <1>h, <2>1, <2>p, <2>3 DEF Holds, TeamWent
  <2>. HIDE DEF Keeps
  <2>4. \A u \in Staff \ cut' : (\E r \in Roles : Holds(u, r)') \/ \E d \in TeamCalls : Keeps(d, u)'
    BY <2>2, <2>3
  <2>. QED
    BY <2>4 DEF StillIn, Keeps
<1>4. CASE UNCHANGED teamVars
  BY <1>4 DEF StillIn, Holds, teamVars
<1>. QED
  BY <1>0, <1>1, <1>2, <1>3, <1>4, TeamSteppers

\* The user's role was given back by a change.
GivenBack(u, r) == \E d \in TeamCalls : team[d].pc = "done" /\ team[d].op = "change" /\ team[d].user = u /\ team[d].to = r

LEMMA OutStays == ApartInv /\ OutUntilChanged /\ [TeamNext]_teamVars => OutUntilChanged'
<1> SUFFICES ASSUME ApartInv, OutUntilChanged, [TeamNext]_teamVars PROVE OutUntilChanged'
  OBVIOUS
<1>0. TeamTypeOK /\ OpsFit /\ ReadHolds /\ OneUnderway
  BY DEF ApartInv
<1>k. mixed \subseteq mixed'
  BY DEF TeamNext, AskChange, AskRemove, AskAccept, Ask, Read, Count, Drop, Add, Written, Mark, Breaks, teamVars
<1>h. \A c \in TeamCalls : (team[c].op = "remove" /\ team[c].pc = "done" /\ team[c].user \notin mixed') =>
          status[team[c].user][team[c].role] = "REMOVED" \/ GivenBack(team[c].user, team[c].role)
  BY <1>k DEF OutUntilChanged, GivenBack
<1>b. ASSUME NEW c \in TeamCalls, team[c].pc # "done", \A d \in TeamCalls \ {c} : team'[d] = team[d], NEW u, NEW r, GivenBack(u, r)
      PROVE  GivenBack(u, r)'
  BY <1>b DEF GivenBack
<1>s. ASSUME NEW c \in TeamCalls, team[c].pc # "done", team'[c].pc # "done", status' = status, \A d \in TeamCalls \ {c} : team'[d] = team[d]
      PROVE  OutUntilChanged'
  <2> SUFFICES ASSUME NEW d \in TeamCalls, team'[d].op = "remove", team'[d].pc = "done", team'[d].user \notin mixed'
               PROVE  status'[team'[d].user][team'[d].role] = "REMOVED" \/ GivenBack(team[d].user, team[d].role)'
    BY DEF OutUntilChanged, GivenBack
  <2>1. d # c /\ team'[d] = team[d]
    BY <1>s
  <2>2. CASE GivenBack(team[d].user, team[d].role)
    <3>1. PICK u, r : u = team[d].user /\ r = team[d].role
      OBVIOUS
    <3>2. GivenBack(u, r)'
      BY <1>b, <1>s, <2>2, <3>1
    <3>. QED
      BY <2>1, <3>1, <3>2 DEF GivenBack
  <2>. QED
    BY <1>h, <1>s, <2>1, <2>2
<1>1. ASSUME NEW c \in TeamCalls, Begun(c) PROVE OutUntilChanged'
  BY <1>1, <1>s DEF Begun
<1>2. ASSUME NEW c \in TeamCalls, Read(c) \/ Count(c) \/ Breaks(c) PROVE OutUntilChanged'
  <2>1. status' = status /\ team[c].pc # "done"
    BY <1>2 DEF Read, Count, Breaks, Underway
  <2>2. \E pc \in {"refused", "count", "drop", "add"} : TeamWent(c, pc)
    BY <1>0, <1>2, ReadGoes, CountGoes, BreaksGoes
  <2>. QED
    BY <1>s, <2>1, <2>2 DEF TeamWent
<1>3. ASSUME NEW c \in TeamCalls, Drop(c) PROVE OutUntilChanged'
  <2>1. /\ team[c].pc = "drop" /\ status'[team[c].user][team[c].role] = "REMOVED"
        /\ \A u \in Staff, r \in Roles : <<u, r>> # <<team[c].user, team[c].role>> => status'[u][r] = status[u][r]
    BY <1>0, <1>3, DropGoes
  <2>2. PICK pc \in {"add", "done"} : TeamWent(c, pc)
    BY <1>0, <1>3, DropGoes
  <2> SUFFICES ASSUME NEW d \in TeamCalls, team'[d].op = "remove", team'[d].pc = "done", team'[d].user \notin mixed'
               PROVE  status'[team'[d].user][team'[d].role] = "REMOVED" \/ GivenBack(team[d].user, team[d].role)'
    BY DEF OutUntilChanged, GivenBack
  <2>3. CASE d = c
    BY <2>1, <2>2, <2>3 DEF TeamWent
  <2>4. CASE d # c
    <3>1. team'[d] = team[d]
      BY <2>2, <2>4 DEF TeamWent
    <3>2. CASE GivenBack(team[d].user, team[d].role)
      <4>1. PICK u, r : u = team[d].user /\ r = team[d].role
        OBVIOUS
      <4>2. GivenBack(u, r)'
        BY <1>b, <2>1, <2>2, <3>2, <4>1 DEF TeamWent
      <4>. QED
        BY <3>1, <4>1, <4>2 DEF GivenBack
    <3>3. status[team[d].user][team[d].role] = "REMOVED" => status'[team[d].user][team[d].role] = "REMOVED"
      BY <1>0, <2>1, CallFields
    <3>. QED
      BY <1>h, <3>1, <3>2, <3>3
  <2>. QED
    BY <2>3, <2>4
<1>4. ASSUME NEW c \in TeamCalls, Add(c) PROVE OutUntilChanged'
  <2>1. /\ team[c].pc = "add" /\ mixed' = mixed
        /\ \A u \in Staff, r \in Roles : <<u, r>> # <<team[c].user, team[c].to>> => status'[u][r] = status[u][r]
    BY <1>0, <1>4, AddGoes
  <2>p. PICK pc \in {"mark", "done"} : TeamWent(c, pc) /\ (pc = "mark" <=> team[c].op = "accept")
    BY <1>0, <1>4, AddGoes
  <2>2. team[c].op # "remove"
    BY <1>0, <2>1 DEF OpsFit
  <2> SUFFICES ASSUME NEW d \in TeamCalls, team'[d].op = "remove", team'[d].pc = "done", team'[d].user \notin mixed'
               PROVE  status'[team'[d].user][team'[d].role] = "REMOVED" \/ GivenBack(team[d].user, team[d].role)'
    BY DEF OutUntilChanged, GivenBack
  <2>3. d # c /\ team'[d] = team[d]
    BY <2>p, <2>2 DEF TeamWent
  <2>4. CASE GivenBack(team[d].user, team[d].role)
    <3>1. PICK u, r : u = team[d].user /\ r = team[d].role
      OBVIOUS
    <3>2. GivenBack(u, r)'
      BY <1>b, <2>1, <2>p, <2>4, <3>1 DEF TeamWent
    <3>. QED
      BY <2>3, <3>1, <3>2 DEF GivenBack
  <2>5. CASE status[team[d].user][team[d].role] = "REMOVED" /\ <<team[d].user, team[d].role>> # <<team[c].user, team[c].to>>
    BY <1>0, <2>1, <2>3, <2>5, CallFields
  <2>6. CASE status[team[d].user][team[d].role] = "REMOVED" /\ team[d].user = team[c].user /\ team[d].role = team[c].to
    <3>1. team[c].op # "accept"
      BY <1>0, <2>1, <2>3, <2>6 DEF ReadHolds, OpsFit
    <3>2. team[c].op = "change"
      BY <1>0, <2>2, <3>1, CallFields DEF TeamOps
    <3>. QED
      BY <2>1, <2>p, <2>3, <2>6, <3>2 DEF GivenBack, TeamWent
  <2>. QED
    BY <1>h, <2>3, <2>4, <2>5, <2>6
<1>5. ASSUME NEW c \in TeamCalls, Mark(c) PROVE OutUntilChanged'
  <2>1. TeamWent(c, "done") /\ status' = status /\ team[c].pc = "mark" /\ team[c].op = "accept"
    BY <1>0, <1>5, MarkGoes DEF OpsFit
  <2> SUFFICES ASSUME NEW d \in TeamCalls, team'[d].op = "remove", team'[d].pc = "done", team'[d].user \notin mixed'
               PROVE  status'[team'[d].user][team'[d].role] = "REMOVED" \/ GivenBack(team[d].user, team[d].role)'
    BY DEF OutUntilChanged, GivenBack
  <2>2. d # c /\ team'[d] = team[d]
    BY <2>1 DEF TeamWent
  <2>3. CASE GivenBack(team[d].user, team[d].role)
    <3>1. PICK u, r : u = team[d].user /\ r = team[d].role
      OBVIOUS
    <3>2. GivenBack(u, r)'
      BY <1>b, <2>1, <2>3, <3>1 DEF TeamWent
    <3>. QED
      BY <2>2, <3>1, <3>2 DEF GivenBack
  <2>. QED
    BY <1>h, <2>1, <2>2, <2>3
<1>6. CASE UNCHANGED teamVars
  BY <1>6 DEF OutUntilChanged, teamVars
<1>. QED
  BY <1>0, <1>1, <1>2, <1>3, <1>4, <1>5, <1>6, TeamSteppers

-----------------------------------------------------------------------------
(* One role for the first one and for each invitation accepted *)

LEMMA RolesFinite == \A u : IsFiniteSet(Roles) /\ IsFiniteSet({<<u, r>> : r \in Roles})
<1> TAKE u
<1>1. IsFiniteSet({"ORG_OWNER"}) /\ IsFiniteSet({<<u, "ORG_OWNER">>})
  BY FS_Singleton
<1>2. IsFiniteSet({"ORG_OWNER"} \cup {"PLACEMENT_DIRECTOR"}) /\ IsFiniteSet({<<u, "ORG_OWNER">>} \cup {<<u, "PLACEMENT_DIRECTOR">>})
  BY <1>1, FS_AddElement
<1>3. /\ IsFiniteSet(({"ORG_OWNER"} \cup {"PLACEMENT_DIRECTOR"}) \cup {"FACULTY_MENTOR"})
      /\ IsFiniteSet(({<<u, "ORG_OWNER">>} \cup {<<u, "PLACEMENT_DIRECTOR">>}) \cup {<<u, "FACULTY_MENTOR">>})
  BY <1>2, FS_AddElement
<1>4. /\ ({"ORG_OWNER"} \cup {"PLACEMENT_DIRECTOR"}) \cup {"FACULTY_MENTOR"} = Roles
      /\ ({<<u, "ORG_OWNER">>} \cup {<<u, "PLACEMENT_DIRECTOR">>}) \cup {<<u, "FACULTY_MENTOR">>} = {<<u, r>> : r \in Roles}
  BY DEF Roles
<1>. QED
  BY <1>3, <1>4

LEMMA CountsAreFinite ==
    ASSUME TeamTypeOK, NEW u \in Staff
    PROVE  /\ IsFiniteSet(Held(u)) /\ Cardinality(Held(u)) \in Nat
           /\ IsFiniteSet(Accepted(u)) /\ Cardinality(Accepted(u)) \in Nat
<1>1. Held(u) \subseteq Roles
  BY DEF Held
<1>2. Accepted(u) \subseteq {<<u, r>> : r \in Roles}
  BY TeamAssumption DEF Accepted, TeamTypeOK
<1>3. IsFiniteSet(Held(u))
  BY <1>1, RolesFinite, FS_Subset
<1>4. IsFiniteSet(Accepted(u))
  <2>1. IsFiniteSet({<<u, r>> : r \in Roles})
    BY RolesFinite
  <2>. QED
    BY <1>2, <2>1, FS_Subset
<1>. QED
  BY <1>3, <1>4, FS_CardinalityType

\* What RolesCounted says of one member.
Counted(u) ==
    /\ Cardinality(Held(u)) <= 1 + Cardinality(Accepted(u))
    /\ \A c \in TeamCalls : (team[c].user = u /\ team[c].pc = "add" /\ team[c].op = "change") => Cardinality(Held(u)) <= Cardinality(Accepted(u))

LEMMA CountedAsBefore ==
    ASSUME NEW u \in Staff, Counted(u), \A r \in Roles : status'[u][r] = status[u][r], Accepted(u)' = Accepted(u),
           \A c \in TeamCalls : (team'[c].user = u /\ team'[c].pc = "add" /\ team'[c].op = "change")
               => team[c].user = u /\ team[c].pc = "add" /\ team[c].op = "change"
    PROVE  Counted(u)'
<1>1. Held(u)' = Held(u)
  BY DEF Held, Holds
<1>. QED
  BY <1>1 DEF Counted

LEMMA CountStays == ApartInv /\ RolesCounted /\ [TeamNext]_teamVars => RolesCounted'
<1> SUFFICES ASSUME ApartInv, RolesCounted, [TeamNext]_teamVars PROVE RolesCounted'
  OBVIOUS
<1>0. TeamTypeOK /\ OpsFit /\ ReadHolds /\ OneUnderway
  BY DEF ApartInv
<1>k. mixed \subseteq mixed'
  BY DEF TeamNext, AskChange, AskRemove, AskAccept, Ask, Read, Count, Drop, Add, Written, Mark, Breaks, teamVars
<1>h. (Invited \ pending \subseteq entered) /\ (\A i \in entered : status[i[1]][i[2]] # "none") /\ \A u \in Staff \ mixed' : Counted(u)
  BY <1>k DEF RolesCounted, Counted
<1>g. ASSUME Invited \ pending' \subseteq entered', \A i \in entered' : status'[i[1]][i[2]] # "none", \A u \in Staff \ mixed' : Counted(u)' PROVE RolesCounted'
  BY <1>g DEF RolesCounted, Counted
<1>s. ASSUME UNCHANGED <<status, entered>>, Invited \ pending' \subseteq entered, NEW c \in TeamCalls, \A d \in TeamCalls \ {c} : team'[d] = team[d],
             ~(team'[c].pc = "add" /\ team'[c].op = "change")
      PROVE  RolesCounted'
  <2>1. \A u \in Staff : Accepted(u)' = Accepted(u)
    BY <1>s DEF Accepted
  <2>2. \A u \in Staff \ mixed' : Counted(u)'
    BY <1>h, <1>s, <2>1, CountedAsBefore
  <2>. QED
    BY <1>g, <1>h, <1>s, <2>2
<1>1. ASSUME NEW c \in TeamCalls, Begun(c) PROVE RolesCounted'
  BY <1>1, <1>h, <1>s DEF Begun
<1>2. ASSUME NEW c \in TeamCalls, Read(c) \/ Count(c) \/ Breaks(c) PROVE RolesCounted'
  <2>1. UNCHANGED <<status, pending, entered>> /\ \E pc \in {"refused", "count", "drop", "add"} : TeamWent(c, pc) /\ (pc = "add" => team[c].op = "accept")
    BY <1>0, <1>2, ReadGoes, CountGoes, BreaksGoes
  <2>. QED
    BY <1>h, <1>s, <2>1 DEF TeamWent
<1>3. ASSUME NEW c \in TeamCalls, Drop(c) PROVE RolesCounted'
  <2>1. /\ team[c].pc = "drop" /\ pending' = pending /\ entered' = entered /\ mixed' = mixed
        /\ status'[team[c].user][team[c].role] = "REMOVED"
        /\ \A u \in Staff, r \in Roles : <<u, r>> # <<team[c].user, team[c].role>> => status'[u][r] = status[u][r]
    BY <1>0, <1>3, DropGoes
  <2>2. PICK pc \in {"add", "done"} : TeamWent(c, pc)
    BY <1>0, <1>3, DropGoes
  <2>3. \A u \in Staff : Accepted(u)' = Accepted(u)
    BY <2>1 DEF Accepted
  <2>4. ASSUME NEW u \in Staff \ mixed', u # team[c].user PROVE Counted(u)'
    BY <1>h, <2>1, <2>2, <2>3, <2>4, CountedAsBefore DEF TeamWent
  <2>5. ASSUME NEW u \in Staff \ mixed', u = team[c].user PROVE Counted(u)'
    <3> DEFINE r == team[c].role
    <3>1. r \in Held(u)
      BY <1>0, <2>1, <2>5, CallFields DEF ReadHolds, Held
    <3>2. Held(u)' = Held(u) \ {r}
      BY <2>1, <2>5 DEF Held, Holds
    <3>3. Cardinality(Held(u) \ {r}) = Cardinality(Held(u)) - 1
      BY <3>1, <1>0, CountsAreFinite, FS_RemoveElement
    <3>4. Cardinality(Held(u)') <= Cardinality(Accepted(u)')
      <4>1. Cardinality(Held(u)) <= 1 + Cardinality(Accepted(u))
        BY <1>h, <2>5 DEF Counted
      <4>. QED
        BY <2>3, <3>2, <3>3, <4>1, <1>0, CountsAreFinite
    <3>5. Cardinality(Accepted(u)') \in Nat /\ Cardinality(Held(u)') \in Nat
      BY <2>3, <3>2, <3>3, <1>0, CountsAreFinite, FS_RemoveElement, FS_CardinalityType
    <3>. QED
      BY <3>4, <3>5 DEF Counted
  <2>6. \A i \in entered' : status'[i[1]][i[2]] # "none"
    BY <1>0, <1>h, <2>1, TeamAssumption, CallFields DEF TeamTypeOK
  <2>. QED
    BY <1>g, <1>h, <2>1, <2>4, <2>5, <2>6
<1>4. ASSUME NEW c \in TeamCalls, Add(c) PROVE RolesCounted'
  <2>1. /\ team[c].pc = "add" /\ mixed' = mixed /\ pending' = pending
        /\ entered' = IF team[c].op = "accept" THEN entered \cup {<<team[c].user, team[c].to>>} ELSE entered
        /\ status'[team[c].user][team[c].to] = "ACTIVE"
        /\ \A u \in Staff, r \in Roles : <<u, r>> # <<team[c].user, team[c].to>> => status'[u][r] = status[u][r]
    BY <1>0, <1>4, AddGoes
  <2>p. PICK pc \in {"mark", "done"} : TeamWent(c, pc)
    BY <1>0, <1>4, AddGoes
  <2>2. ASSUME NEW u \in Staff \ mixed', u # team[c].user PROVE Counted(u)'
    <3>1. Accepted(u)' = Accepted(u)
      BY <2>1, <2>2 DEF Accepted
    <3>. QED
      BY <1>h, <2>1, <2>p, <2>2, <3>1, CountedAsBefore DEF TeamWent
  <2>3. ASSUME NEW u \in Staff \ mixed', u = team[c].user PROVE Counted(u)'
    <3> DEFINE r == team[c].to
               i == <<u, r>>
    <3>1. r \in Roles /\ u \notin mixed
      BY <1>0, <2>1, <2>3, CallFields
    <3>2. Held(u)' = Held(u) \cup {r}
      BY <2>1, <2>3, <3>1 DEF Held, Holds
    <3>3. Cardinality(Held(u) \cup {r}) = IF r \in Held(u) THEN Cardinality(Held(u)) ELSE Cardinality(Held(u)) + 1
      BY <1>0, CountsAreFinite, FS_AddElement
    <3>4. \A d \in TeamCalls : ~(team'[d].user = u /\ team'[d].pc = "add" /\ team'[d].op = "change")
      <4>1. \A d \in TeamCalls \ {c} : team'[d] = team[d] /\ ~(team[d].user = u /\ team[d].pc = "add")
        BY <1>0, <2>1, <2>p, <2>3, <3>1, OnePerMember DEF TeamWent, Underway
      <4>. QED
        BY <2>p, <4>1 DEF TeamWent
    <3>5. Cardinality(Held(u)') <= 1 + Cardinality(Accepted(u)')
      <4>1. Cardinality(Held(u)) <= 1 + Cardinality(Accepted(u))
        BY <1>h, <2>3 DEF Counted
      <4>2. CASE team[c].op = "change"
        <5>1. Cardinality(Held(u)) <= Cardinality(Accepted(u)) /\ Accepted(u)' = Accepted(u)
          BY <1>h, <2>1, <2>3, <4>2 DEF Counted, Accepted
        <5>. QED
          BY <3>2, <3>3, <5>1, <1>0, CountsAreFinite
      <4>3. CASE team[c].op = "accept" /\ i \notin entered
        <5>1. i \notin Accepted(u)
          BY <4>3 DEF Accepted
        <5>2. Accepted(u)' = Accepted(u) \cup {i}
          BY <2>1, <2>3, <4>3 DEF Accepted
        <5>3. Cardinality(Accepted(u) \cup {i}) = Cardinality(Accepted(u)) + 1
          BY <5>1, <1>0, CountsAreFinite, FS_AddElement
        <5>. QED
          BY <3>2, <3>3, <4>1, <5>2, <5>3, <1>0, CountsAreFinite
      <4>4. CASE team[c].op = "accept" /\ i \in entered
        <5>1. i \in entered /\ team[c].role = r
          BY <1>0, <2>3, <4>4 DEF OpsFit
        <5>2. status[u][r] # "none" /\ status[u][r] # "REMOVED"
          BY <1>0, <1>h, <2>1, <2>3, <3>1, <4>4, <5>1 DEF ReadHolds
        <5>3. r \in Held(u)
          BY <1>0, <3>1, <5>2 DEF Held, Holds, TeamTypeOK
        <5>4. Accepted(u)' = Accepted(u)
          BY <2>1, <2>3, <4>4 DEF Accepted
        <5>. QED
          BY <3>2, <3>3, <4>1, <5>3, <5>4, <1>0, CountsAreFinite
      <4>5. team[c].op \in {"change", "accept"}
        BY <1>0, <2>1, CallFields DEF OpsFit, TeamOps
      <4>. QED
        BY <4>2, <4>3, <4>4, <4>5
    <3>. QED
      BY <3>4, <3>5 DEF Counted
  <2>4. ASSUME NEW i \in entered' PROVE status'[i[1]][i[2]] # "none"
    <3>1. i[1] \in Staff /\ i[2] \in Roles /\ i = <<i[1], i[2]>>
      BY <1>0, <2>1, <2>4, TeamAssumption, CallFields DEF TeamTypeOK
    <3>2. CASE i = <<team[c].user, team[c].to>>
      BY <2>1, <3>2
    <3>3. CASE i # <<team[c].user, team[c].to>>
      BY <1>h, <2>1, <3>1, <3>3
    <3>. QED
      BY <3>2, <3>3
  <2>5. Invited \ pending' \subseteq entered'
    BY <1>h, <2>1
  <2>. QED
    BY <1>g, <2>2, <2>3, <2>4, <2>5
<1>5. ASSUME NEW c \in TeamCalls, Mark(c) PROVE RolesCounted'
  <2>1. /\ UNCHANGED <<status, entered>> /\ TeamWent(c, "done") /\ team[c].pc = "mark"
        /\ pending' = pending \ {<<team[c].user, team[c].to>>}
    BY <1>0, <1>5, MarkGoes
  <2>2. Invited \ pending' \subseteq entered
    BY <1>0, <1>h, <2>1 DEF OpsFit
  <2>. QED
    BY <1>s, <2>1, <2>2 DEF TeamWent
<1>6. CASE UNCHANGED teamVars
  BY <1>6 DEF RolesCounted, Held, Holds, Accepted, teamVars
<1>. QED
  BY <1>0, <1>1, <1>2, <1>3, <1>4, <1>5, <1>6, TeamSteppers

-----------------------------------------------------------------------------
LEMMA InitTeamInv == TeamInit => TeamInv
<1> SUFFICES ASSUME TeamInit PROVE TeamInv
  OBVIOUS
<1>1. \A c \in TeamCalls : team[c].pc = "idle" /\ team[c].op = "change"
  BY DEF TeamInit, NoTeamCall
<1>2. TeamTypeOK
  BY NoCallTyped DEF TeamInit, TeamTypeOK
<1>3. \A u \in Staff : Held(u) = {FirstRole[u]} /\ FirstRole[u] \in Roles
  BY TeamAssumption DEF TeamInit, Held, Holds
<1>4. \A u \in Staff : Accepted(u) = {}
  BY DEF TeamInit, Accepted
<1>5. OneUnderway /\ OpsFit /\ ReadHolds /\ OutUntilChanged
  BY <1>1 DEF OneUnderway, OpsFit, ReadHolds, OutUntilChanged, Underway
<1>6. OwnerLeft
  BY <1>1, TeamAssumption DEF OwnerLeft, Owners, Holds, TeamInit, Roles
<1>7. StillIn
  BY <1>3 DEF StillIn, Held
<1>8. RolesCounted
  <2>1. \A u \in Staff : Cardinality(Held(u)) = 1 /\ Cardinality(Accepted(u)) = 0
    BY <1>3, <1>4, FS_Singleton, FS_EmptySet
  <2>2. Invited \ pending = {} /\ entered = {}
    BY DEF TeamInit
  <2>. QED
    BY <1>1, <2>1, <2>2 DEF RolesCounted
<1>. QED
  BY <1>2, <1>5, <1>6, <1>7, <1>8 DEF TeamInv

LEMMA NextTeamInv == TeamInv /\ [TeamNext]_teamVars => TeamInv'
BY TypesStay, ApartStays, OwnerStays, StillInStays, OutStays, CountStays DEF TeamInv, ApartInv

\* Types of the team's rows, invitations and requests.
THEOREM TeamTypes == TeamSpec => []TeamTypeOK
<1>1. TeamInv => TeamTypeOK
  BY DEF TeamInv
<1>. QED
  BY <1>1, InitTeamInv, NextTeamInv, PTL DEF TeamSpec

\* Unless requests about the same people overlap, the team keeps an owner, a
\* change of role replaces a role, nobody falls out, and nobody removed comes back.
THEOREM TeamIsSound == TeamSpec => []TeamSound
<1>1. TeamInv => TeamSound
  <2> SUFFICES ASSUME TeamInv PROVE TeamSound
    OBVIOUS
  <2>1. OwnerRemains
    BY DEF TeamInv, OwnerLeft, OwnerRemains
  <2>2. RoleIsReplaced
    BY DEF TeamInv, RolesCounted, Held, Accepted, RoleIsReplaced
  <2>3. NobodyStranded
    BY DEF TeamInv, StillIn, NobodyStranded
  <2>4. RemovedStaysOut
    BY DEF TeamInv, OutUntilChanged, RemovedStaysOut, Holds
  <2>5. MarkedOnceWritten
    BY DEF TeamInv, RolesCounted, MarkedOnceWritten
  <2>. QED
    BY <2>1, <2>2, <2>3, <2>4, <2>5 DEF TeamSound
<1>. QED
  BY <1>1, InitTeamInv, NextTeamInv, PTL DEF TeamSpec

-----------------------------------------------------------------------------
(* The import of students *)

\* A commit that has claimed its job and not let go of it.
Holding(c) == run[c].pc \in Running \cup {"release"}

\* A preview that is being committed is claimed with the commit's key, by nobody else.
ClaimInv ==
    /\ \A c \in Commits : Holding(c) /\ JobOf(c).status = "PREVIEW" => JobOf(c).key = run[c].key
    /\ OneRunPerJob
    /\ \A c \in Commits : run[c].pc = "tell" => JobOf(c).status = "COMMITTED"

\* A commit has sent only what it has taken from its rows; what it found before
\* is older than it.
LinksOf(c) ==
    /\ \A e \in Emails : link[c][e] # "none" => run[c].pc \notin {"idle", "claim", "rows"} /\ e \notin run[c].todo
    /\ \A l \in run[c].before : l[1] # c /\ link[l[1]][l[2]] # "none"
    /\ run[c].pc = "revoke" => link[c][run[c].row] # "none"
    /\ run[c].pc \in {"idle", "claim", "rows"} => run[c].before = {} /\ run[c].outcome = Fresh

LinksInv == \A c \in Commits : LinksOf(c)

\* What a commit has done of what it will report.
RowInvited(c, e) ==
    /\ link[c][e] # "none"
    /\ link[c][e] \in {"PENDING", "ACCEPTED"} \/ \E d \in Commits \ {c} : link[d][e] # "none"
    /\ ~(run[c].pc = "revoke" /\ run[c].row = e) => \A l \in run[c].before : l[2] = e => link[l[1]][e] # "PENDING"

RowsDone(c) ==
    /\ \A e \in Emails : run[c].outcome[e] = "INVITED" => RowInvited(c, e)
    /\ \A e \in Emails : run[c].outcome[e] = "SKIPPED" => e \in linked
    /\ run[c].pc = "revoke" => run[c].outcome[run[c].row] = "INVITED"
    /\ run[c].pc \in {"invite", "revoke"} => \A e \in RowsOf[run[c].job] \ run[c].todo : run[c].outcome[e] # "none"

RowsInv == \A c \in Commits : RowsDone(c)

ImportInv == ImportTypeOK /\ ClaimInv /\ ClaimHasRunner /\ LinksInv /\ RowsInv /\ CommittedRowsHappened

-----------------------------------------------------------------------------
(* What the steps do *)

RunRecords == [pc : CommitSteps, job : Jobs, key : CommitKeys, todo : SUBSET Emails, row : Emails,
               before : SUBSET (Senders \X Emails), outcome : [Emails -> Outcomes]]

\* A request that has gone on with its rows.
FileGone(r, pc, todo, row, before, outcome) ==
    [[[[[r EXCEPT !.pc = pc] EXCEPT !.todo = todo] EXCEPT !.row = row] EXCEPT !.before = before] EXCEPT !.outcome = outcome]

\* Request c has gone on, and nobody else.
RunGoes(c, pc, todo, row, before, outcome) ==
    /\ run' \in [Commits -> RunRecords]
    /\ \A d \in Commits \ {c} : run'[d] = run[d]
    /\ run'[c].pc = pc /\ run'[c].todo = todo /\ run'[c].row = row /\ run'[c].before = before /\ run'[c].outcome = outcome
    /\ run'[c].job = run[c].job /\ run'[c].key = run[c].key

LEMMA ImportStepNames ==
    /\ {"idle", "claim", "rows", "invite", "revoke", "tell", "release", "done", "refused", "failed"} = CommitSteps
    /\ Running = {"rows", "invite", "revoke", "tell"}
    /\ Outcomes = {"none", "INVITED", "FAILED", "SKIPPED"}
BY DEF CommitSteps, Running, Outcomes

LEMMA RunFields ==
    ASSUME ImportTypeOK, NEW c \in Commits
    PROVE  /\ run[c] \in RunRecords /\ run \in [Commits -> RunRecords]
           /\ run[c].pc \in CommitSteps /\ run[c].job \in Jobs /\ run[c].key \in CommitKeys /\ run[c].todo \in SUBSET Emails
           /\ run[c].row \in Emails /\ run[c].before \in SUBSET (Senders \X Emails) /\ run[c].outcome \in [Emails -> Outcomes]
BY DEF ImportTypeOK, RunRecords

LEMMA FreshTyped == Fresh \in [Emails -> Outcomes] /\ \A e \in Emails : Fresh[e] = "none"
BY DEF Fresh, Outcomes

LEMMA RecordGoes ==
    ASSUME ImportTypeOK, NEW c \in Commits, NEW pc \in CommitSteps, NEW todo \in SUBSET Emails, NEW row \in Emails,
           NEW before \in SUBSET (Senders \X Emails), NEW outcome \in [Emails -> Outcomes],
           run' = [run EXCEPT ![c] = FileGone(run[c], pc, todo, row, before, outcome)]
    PROVE  RunGoes(c, pc, todo, row, before, outcome)
<1> DEFINE m == FileGone(run[c], pc, todo, row, before, outcome)
<1>1. /\ m \in RunRecords /\ m.pc = pc /\ m.todo = todo /\ m.row = row /\ m.before = before /\ m.outcome = outcome
      /\ m.job = run[c].job /\ m.key = run[c].key
  BY RunFields DEF RunRecords, FileGone
<1>2. run' = [run EXCEPT ![c] = m] /\ run \in [Commits -> RunRecords]
  BY RunFields
<1>. HIDE DEF m
<1>. QED
  BY <1>1, <1>2 DEF RunGoes

LEMMA StepToGoes ==
    ASSUME ImportTypeOK, NEW c \in Commits, NEW pc \in CommitSteps, StepTo(c, pc)
    PROVE  RunGoes(c, pc, run[c].todo, run[c].row, run[c].before, run[c].outcome)
<1>1. run' = [run EXCEPT ![c] = FileGone(run[c], pc, run[c].todo, run[c].row, run[c].before, run[c].outcome)]
  BY RunFields DEF StepTo, RunRecords, FileGone
<1>. QED
  BY <1>1, RunFields, RecordGoes

LEMMA GiveUpGoes ==
    ASSUME ImportTypeOK, NEW c \in Commits, GiveUp(c)
    PROVE  RunGoes(c, "failed", {}, run[c].row, {}, Fresh)
<1>1. run' = [run EXCEPT ![c] = FileGone(run[c], "failed", {}, run[c].row, {}, Fresh)]
  BY RunFields DEF GiveUp, RunRecords, FileGone
<1>. QED
  BY <1>1, RunFields, RecordGoes, FreshTyped, ImportStepNames

\* A request that is read: the job and the key it is for.
LEMMA AskGoes ==
    ASSUME ImportTypeOK, NEW c \in Commits, NEW j \in Jobs, NEW k \in CommitKeys, AskCommit(c, j, k)
    PROVE  /\ run[c].pc = "idle" /\ UNCHANGED <<job, link, linked, stuck>>
           /\ run' \in [Commits -> RunRecords]
           /\ \A d \in Commits \ {c} : run'[d] = run[d]
           /\ run'[c].pc \in {"claim", "done", "refused"}
           /\ run'[c].todo = run[c].todo /\ run'[c].row = run[c].row /\ run'[c].before = run[c].before /\ run'[c].outcome = run[c].outcome
<1> DEFINE pc == IF job[j].status = "PREVIEW" THEN "claim" ELSE IF job[j].key = k THEN "done" ELSE "refused"
           m == [[[run[c] EXCEPT !.job = j] EXCEPT !.key = k] EXCEPT !.pc = pc]
<1>1. pc \in {"claim", "done", "refused"}
  OBVIOUS
<1>2. run[c].pc = "idle" /\ UNCHANGED <<job, link, linked, stuck>> /\ run' = [run EXCEPT ![c].job = j, ![c].key = k, ![c].pc = pc]
  BY DEF AskCommit
<1>. HIDE DEF pc
<1>3. run' = [run EXCEPT ![c] = m]
  BY <1>2, RunFields DEF RunRecords
<1>4. /\ m \in RunRecords /\ m.pc = pc /\ m.todo = run[c].todo /\ m.row = run[c].row
      /\ m.before = run[c].before /\ m.outcome = run[c].outcome
  BY <1>1, RunFields, ImportStepNames DEF RunRecords
<1>. HIDE DEF m
<1>. QED
  BY <1>1, <1>2, <1>3, <1>4, RunFields

LEMMA LinkRowsGoes ==
    ASSUME ImportTypeOK, NEW c \in Commits, LinkRows(c)
    PROVE  RunGoes(c, "invite", RowsOf[run[c].job] \ Existing, run[c].row, PendingLinks,
                   [e \in Emails |-> IF e \in RowsOf[run[c].job] \cap Existing THEN "SKIPPED" ELSE "none"])
<1> DEFINE o == [e \in Emails |-> IF e \in RowsOf[run[c].job] \cap Existing THEN "SKIPPED" ELSE "none"]
           todo == RowsOf[run[c].job] \ Existing
<1>1. o \in [Emails -> Outcomes] /\ todo \in SUBSET Emails
  BY RunFields, ImportAssumption DEF Outcomes
<1>2. run' = [run EXCEPT ![c].pc = "invite", ![c].before = PendingLinks, ![c].todo = todo, ![c].outcome = o]
  BY DEF LinkRows
<1>. HIDE DEF o, todo
<1>3. run' = [run EXCEPT ![c] = FileGone(run[c], "invite", todo, run[c].row, PendingLinks, o)]
  BY <1>2, RunFields DEF RunRecords, FileGone
<1>4. PendingLinks \in SUBSET (Senders \X Emails)
  BY DEF PendingLinks
<1>5. RunGoes(c, "invite", todo, run[c].row, PendingLinks, o)
  BY <1>1, <1>3, <1>4, RunFields, RecordGoes, ImportStepNames
<1>. QED
  BY <1>5 DEF o, todo

\* A row is invited, with a link of its own, or it has failed.
LEMMA InviteGoes ==
    ASSUME ImportTypeOK, NEW c \in Commits, NEW e \in Emails, Invite(c, e)
    PROVE  /\ run[c].pc = "invite" /\ e \in run[c].todo /\ UNCHANGED <<job, linked, stuck>>
           /\ \/ /\ link' = [link EXCEPT ![c][e] = "PENDING"]
                 /\ RunGoes(c, "revoke", run[c].todo \ {e}, e, run[c].before, [run[c].outcome EXCEPT ![e] = "INVITED"])
              \/ /\ link' = link
                 /\ RunGoes(c, "invite", run[c].todo \ {e}, run[c].row, run[c].before, [run[c].outcome EXCEPT ![e] = "FAILED"])
<1>0. run[c].pc = "invite" /\ e \in run[c].todo /\ UNCHANGED <<job, linked, stuck>>
  BY DEF Invite
<1>1. ASSUME NEW o \in Outcomes PROVE [run[c].outcome EXCEPT ![e] = o] \in [Emails -> Outcomes]
  BY RunFields
<1>2. ASSUME run' = [run EXCEPT ![c].pc = "revoke", ![c].row = e, ![c].todo = @ \ {e}, ![c].outcome[e] = "INVITED"]
      PROVE  RunGoes(c, "revoke", run[c].todo \ {e}, e, run[c].before, [run[c].outcome EXCEPT ![e] = "INVITED"])
  <2> DEFINE o == [run[c].outcome EXCEPT ![e] = "INVITED"]
  <2>1. run' = [run EXCEPT ![c].pc = "revoke", ![c].row = e, ![c].todo = @ \ {e}, ![c].outcome = o]
    BY <1>2 DEF ImportTypeOK
  <2>2. o \in [Emails -> Outcomes]
    BY <1>1, ImportStepNames
  <2>. HIDE DEF o
  <2>3. run' = [run EXCEPT ![c] = FileGone(run[c], "revoke", run[c].todo \ {e}, e, run[c].before, o)]
    BY <2>1, RunFields DEF RunRecords, FileGone
  <2>4. RunGoes(c, "revoke", run[c].todo \ {e}, e, run[c].before, o)
    BY <2>2, <2>3, RunFields, RecordGoes, ImportStepNames
  <2>. QED
    BY <2>4 DEF o
<1>3. ASSUME run' = [run EXCEPT ![c].todo = @ \ {e}, ![c].outcome[e] = "FAILED"]
      PROVE  RunGoes(c, "invite", run[c].todo \ {e}, run[c].row, run[c].before, [run[c].outcome EXCEPT ![e] = "FAILED"])
  <2> DEFINE o == [run[c].outcome EXCEPT ![e] = "FAILED"]
  <2>1. run' = [run EXCEPT ![c].todo = @ \ {e}, ![c].outcome = o]
    BY <1>3 DEF ImportTypeOK
  <2>2. o \in [Emails -> Outcomes]
    BY <1>1, ImportStepNames
  <2>. HIDE DEF o
  <2>3. run' = [run EXCEPT ![c] = FileGone(run[c], "invite", run[c].todo \ {e}, run[c].row, run[c].before, o)]
    BY <1>0, <2>1, RunFields DEF RunRecords, FileGone
  <2>4. RunGoes(c, "invite", run[c].todo \ {e}, run[c].row, run[c].before, o)
    BY <2>2, <2>3, RunFields, RecordGoes, ImportStepNames
  <2>. QED
    BY <2>4 DEF o
<1>. QED
  BY <1>0, <1>2, <1>3 DEF Invite

\* The links the row had are revoked, all of them or the row has failed.
LEMMA RevokeGoes ==
    ASSUME ImportTypeOK, NEW c \in Commits, Revoke(c)
    PROVE  /\ run[c].pc = "revoke" /\ UNCHANGED <<job, linked, stuck>>
           /\ \E revoked \in SUBSET OldLinks(c), o \in {"INVITED", "FAILED"} :
                /\ link' = [s \in Senders |-> [e \in Emails |-> IF <<s, e>> \in revoked THEN "REVOKED" ELSE link[s][e]]]
                /\ o = "INVITED" => revoked = OldLinks(c)
                /\ RunGoes(c, "invite", run[c].todo, run[c].row, run[c].before, [run[c].outcome EXCEPT ![run[c].row] = o])
<1>1. PICK revoked \in SUBSET OldLinks(c) :
         /\ link' = [s \in Senders |-> [e \in Emails |-> IF <<s, e>> \in revoked THEN "REVOKED" ELSE link[s][e]]]
         /\ run' = [run EXCEPT ![c].pc = "invite", ![c].outcome[run[c].row] = IF revoked = OldLinks(c) THEN "INVITED" ELSE "FAILED"]
  BY DEF Revoke
<1> DEFINE o == IF revoked = OldLinks(c) THEN "INVITED" ELSE "FAILED"
           w == [run[c].outcome EXCEPT ![run[c].row] = o]
<1>2. o \in {"INVITED", "FAILED"} /\ (o = "INVITED" => revoked = OldLinks(c))
  OBVIOUS
<1>3. run' = [run EXCEPT ![c].pc = "invite", ![c].outcome[run[c].row] = o]
  BY <1>1
<1>. HIDE DEF o
<1>4. w \in [Emails -> Outcomes]
  BY <1>2, RunFields, ImportStepNames
<1>5. run' = [run EXCEPT ![c].pc = "invite", ![c].outcome = w]
  BY <1>3 DEF ImportTypeOK
<1>. HIDE DEF w
<1>6. run' = [run EXCEPT ![c] = FileGone(run[c], "invite", run[c].todo, run[c].row, run[c].before, w)]
  BY <1>1, <1>5, RunFields DEF RunRecords, FileGone
<1>7. RunGoes(c, "invite", run[c].todo, run[c].row, run[c].before, w)
  BY <1>4, <1>6, RunFields, RecordGoes, ImportStepNames
<1>8. RunGoes(c, "invite", run[c].todo, run[c].row, run[c].before, [run[c].outcome EXCEPT ![run[c].row] = o])
  BY <1>7 DEF w
<1>. QED
  BY <1>1, <1>2, <1>8 DEF Revoke

LinkTables == [Senders -> [Emails -> {"none", "PENDING", "ACCEPTED", "REVOKED"}]]
JobTables == [Jobs -> [status : {"PREVIEW", "COMMITTED"}, key : CommitKeys \cup {NoKey}, outcome : [Emails -> Outcomes]]]

LEMMA TypesOf ==
    /\ ImportTypeOK <=> /\ job \in JobTables /\ link \in LinkTables /\ linked \subseteq Existing
                        /\ run \in [Commits -> RunRecords] /\ stuck \subseteq Jobs
    /\ ImportTypeOK' <=> /\ job' \in JobTables /\ link' \in LinkTables /\ linked' \subseteq Existing
                         /\ run' \in [Commits -> RunRecords] /\ stuck' \subseteq Jobs
    /\ Commits \subseteq Senders
BY DEF ImportTypeOK, LinkTables, JobTables, RunRecords, Senders

\* One link is written.
LinkSet(s, e, v) ==
    /\ link' \in LinkTables
    /\ \A t \in Senders, f \in Emails : link'[t][f] = IF t = s /\ f = e THEN v ELSE link[t][f]

LEMMA LinkIsSet ==
    ASSUME ImportTypeOK, NEW s \in Senders, NEW e \in Emails, NEW v \in {"PENDING", "ACCEPTED"}, link' = [link EXCEPT ![s][e] = v]
    PROVE  LinkSet(s, e, v)
BY TypesOf DEF LinkSet, LinkTables

LEMMA LinksRevoked ==
    ASSUME ImportTypeOK, NEW R,
           link' = [s \in Senders |-> [e \in Emails |-> IF <<s, e>> \in R THEN "REVOKED" ELSE link[s][e]]]
    PROVE  /\ link' \in LinkTables
           /\ \A t \in Senders, f \in Emails : link'[t][f] = IF <<t, f>> \in R THEN "REVOKED" ELSE link[t][f]
BY TypesOf DEF LinkTables

\* The key of a job is written.
LEMMA KeyIsSet ==
    ASSUME ImportTypeOK, NEW j \in Jobs, NEW k \in CommitKeys \cup {NoKey}, job' = [job EXCEPT ![j].key = k]
    PROVE  /\ job' \in JobTables /\ job'[j].key = k /\ job'[j].status = job[j].status /\ job'[j].outcome = job[j].outcome
           /\ \A i \in Jobs \ {j} : job'[i] = job[i]
<1> DEFINE m == [job[j] EXCEPT !.key = k]
<1>1. /\ m \in [status : {"PREVIEW", "COMMITTED"}, key : CommitKeys \cup {NoKey}, outcome : [Emails -> Outcomes]]
      /\ m.key = k /\ m.status = job[j].status /\ m.outcome = job[j].outcome
  BY TypesOf DEF JobTables
<1>2. job' = [job EXCEPT ![j] = m]
  BY TypesOf DEF JobTables
<1>. HIDE DEF m
<1>. QED
  BY <1>1, <1>2, TypesOf DEF JobTables

\* What commitImportJob leaves of the job of request c.
LEMMA CommitGoes ==
    ASSUME ImportTypeOK, NEW c \in Commits, CommitJob(c)
    PROVE  /\ run[c].pc = "invite" /\ run[c].todo = {} /\ UNCHANGED <<link, linked, stuck>>
           /\ RunGoes(c, "tell", run[c].todo, run[c].row, run[c].before, run[c].outcome)
           /\ job' \in JobTables /\ \A i \in Jobs \ {run[c].job} : job'[i] = job[i]
           /\ job'[run[c].job].status = "COMMITTED" /\ job'[run[c].job].key = run[c].key
           /\ job'[run[c].job].outcome = run[c].outcome
<1> DEFINE m == [status |-> "COMMITTED", key |-> run[c].key, outcome |-> run[c].outcome]
<1>1. /\ m \in [status : {"PREVIEW", "COMMITTED"}, key : CommitKeys \cup {NoKey}, outcome : [Emails -> Outcomes]]
      /\ m.status = "COMMITTED" /\ m.key = run[c].key /\ m.outcome = run[c].outcome
  BY RunFields
<1>2. job' = [job EXCEPT ![run[c].job] = m] /\ run[c].job \in Jobs
  BY RunFields DEF CommitJob
<1>3. run[c].pc = "invite" /\ run[c].todo = {} /\ UNCHANGED <<link, linked, stuck>>
  BY DEF CommitJob
<1>4. RunGoes(c, "tell", run[c].todo, run[c].row, run[c].before, run[c].outcome)
  BY StepToGoes, ImportStepNames DEF CommitJob
<1>. HIDE DEF m
<1>. QED
  BY <1>1, <1>2, <1>3, <1>4, TypesOf DEF JobTables

\* A claim that frees its job, or cannot.
LEMMA FreeGoes ==
    ASSUME ImportTypeOK, NEW c \in Commits, FreeClaim(c)
    PROVE  /\ run[c].pc = "release" /\ UNCHANGED <<link, linked>> /\ RunGoes(c, "failed", {}, run[c].row, {}, Fresh)
           /\ \/ /\ JobOf(c).status = "PREVIEW" /\ JobOf(c).key = run[c].key
                 /\ job' = [job EXCEPT ![run[c].job].key = NoKey] /\ UNCHANGED stuck
              \/ ~(JobOf(c).status = "PREVIEW" /\ JobOf(c).key = run[c].key) /\ UNCHANGED <<job, stuck>>
              \/ UNCHANGED job /\ stuck' = stuck \cup {run[c].job}
<1>1. run[c].pc = "release" /\ UNCHANGED <<link, linked>> /\ RunGoes(c, "failed", {}, run[c].row, {}, Fresh)
  BY GiveUpGoes DEF FreeClaim
<1>. QED
  BY <1>1 DEF FreeClaim

LEMMA DiesGoes ==
    ASSUME ImportTypeOK, NEW c \in Commits, Dies(c)
    PROVE  /\ Holding(c) /\ UNCHANGED <<job, link, linked>> /\ RunGoes(c, "failed", {}, run[c].row, {}, Fresh)
           /\ stuck' = IF JobOf(c).status = "PREVIEW" THEN stuck \cup {run[c].job} ELSE stuck
BY GiveUpGoes DEF Dies, Holding

\* The compare-and-set of the claim.
LEMMA ClaimGoes ==
    ASSUME ImportTypeOK, NEW c \in Commits, Claim(c)
    PROVE  /\ run[c].pc = "claim" /\ UNCHANGED <<link, linked, stuck>>
           /\ \/ /\ JobOf(c).status = "PREVIEW" /\ JobOf(c).key = NoKey /\ job' = [job EXCEPT ![run[c].job].key = run[c].key]
                 /\ RunGoes(c, "rows", run[c].todo, run[c].row, run[c].before, run[c].outcome)
              \/ UNCHANGED job /\ RunGoes(c, "refused", run[c].todo, run[c].row, run[c].before, run[c].outcome)
BY StepToGoes, ImportStepNames DEF Claim

LEMMA TellGoes ==
    ASSUME ImportTypeOK, NEW c \in Commits, Tell(c) \/ Throws(c)
    PROVE  /\ UNCHANGED <<job, link, linked, stuck>>
           /\ \/ run[c].pc = "tell" /\ RunGoes(c, "done", run[c].todo, run[c].row, run[c].before, run[c].outcome)
              \/ /\ run[c].pc \in {"rows", "invite", "tell"}
                 /\ RunGoes(c, "release", run[c].todo, run[c].row, run[c].before, run[c].outcome)
BY StepToGoes, ImportStepNames DEF Tell, Throws

-----------------------------------------------------------------------------
(* Types *)

LEMMA StepTypes == ASSUME ImportTypeOK, ImportNext PROVE ImportTypeOK'
<1>1. ASSUME NEW c \in Commits, NEW j \in Jobs, NEW k \in CommitKeys, AskCommit(c, j, k) PROVE ImportTypeOK'
  BY <1>1, AskGoes, TypesOf
<1>2. ASSUME NEW c \in Commits, NEW e \in Emails, Invite(c, e) PROVE ImportTypeOK'
  <2>1. run' \in [Commits -> RunRecords] /\ UNCHANGED <<job, linked, stuck>>
    BY <1>2, InviteGoes DEF RunGoes
  <2>2. link' \in LinkTables
    BY <1>2, InviteGoes, LinkIsSet, TypesOf DEF LinkSet
  <2>. QED
    BY <2>1, <2>2, TypesOf
<1>3. ASSUME NEW c \in Commits, Claim(c) PROVE ImportTypeOK'
  <2>1. run' \in [Commits -> RunRecords] /\ UNCHANGED <<link, linked, stuck>>
    BY <1>3, ClaimGoes DEF RunGoes
  <2>2. job' \in JobTables
    BY <1>3, ClaimGoes, KeyIsSet, RunFields, TypesOf
  <2>. QED
    BY <2>1, <2>2, TypesOf
<1>4. ASSUME NEW c \in Commits, LinkRows(c) PROVE ImportTypeOK'
  <2>1. run' \in [Commits -> RunRecords]
    BY <1>4, LinkRowsGoes DEF RunGoes
  <2>2. linked' \subseteq Existing /\ UNCHANGED <<job, link, stuck>>
    BY <1>4, TypesOf DEF LinkRows
  <2>. QED
    BY <2>1, <2>2, TypesOf
<1>5. ASSUME NEW c \in Commits, Revoke(c) PROVE ImportTypeOK'
  <2>1. run' \in [Commits -> RunRecords] /\ UNCHANGED <<job, linked, stuck>>
    BY <1>5, RevokeGoes DEF RunGoes
  <2>2. link' \in LinkTables
    BY <1>5, RevokeGoes, LinksRevoked
  <2>. QED
    BY <2>1, <2>2, TypesOf
<1>6. ASSUME NEW c \in Commits, CommitJob(c) PROVE ImportTypeOK'
  BY <1>6, CommitGoes, TypesOf DEF RunGoes
<1>7. ASSUME NEW c \in Commits, Tell(c) \/ Throws(c) PROVE ImportTypeOK'
  BY <1>7, TellGoes, TypesOf DEF RunGoes
<1>8. ASSUME NEW c \in Commits, FreeClaim(c) PROVE ImportTypeOK'
  <2>1. run' \in [Commits -> RunRecords] /\ UNCHANGED <<link, linked>>
    BY <1>8, FreeGoes DEF RunGoes
  <2>2. job' \in JobTables /\ stuck' \subseteq Jobs
    BY <1>8, FreeGoes, KeyIsSet, RunFields, TypesOf
  <2>. QED
    BY <2>1, <2>2, TypesOf
<1>9. ASSUME NEW c \in Commits, Dies(c) PROVE ImportTypeOK'
  BY <1>9, DiesGoes, RunFields, TypesOf DEF RunGoes
<1>10. ASSUME NEW l \in Senders \X Emails, AcceptLink(l) PROVE ImportTypeOK'
  <2>1. link' \in LinkTables
    BY <1>10, LinkIsSet DEF AcceptLink, LinkSet
  <2>. QED
    BY <1>10, <2>1, TypesOf DEF AcceptLink
<1>. QED
  BY <1>1, <1>2, <1>3, <1>4, <1>5, <1>6, <1>7, <1>8, <1>9, <1>10 DEF ImportNext

-----------------------------------------------------------------------------
(* Claims *)

Claims == ClaimInv /\ ClaimHasRunner

\* A step that writes no job, after which whoever has let go of a claim has
\* committed or left it behind.
LEMMA QuietClaims ==
    ASSUME ImportTypeOK, Claims, NEW c \in Commits, job' = job, stuck \subseteq stuck', \A d \in Commits \ {c} : run'[d] = run[d],
           Holding(c)' => Holding(c) /\ run'[c].job = run[c].job /\ run'[c].key = run[c].key /\ (run'[c].pc = "tell" => run[c].pc = "tell"),
           Holding(c) => Holding(c)' \/ JobOf(c).status # "PREVIEW" \/ JobOf(c).key # run[c].key \/ run[c].job \in stuck'
    PROVE  Claims'
<1>1. \A d \in Commits : Holding(d)' => Holding(d) /\ run'[d].job = run[d].job /\ run'[d].key = run[d].key /\ (run'[d].pc = "tell" => run[d].pc = "tell")
  BY DEF Holding
<1>2. \A d \in Commits : run'[d].pc = "tell" => Holding(d)'
  BY DEF Holding, Running
<1>3. \A d \in Commits : Holding(d)' /\ job'[run'[d].job].status = "PREVIEW" => job'[run'[d].job].key = run'[d].key
  BY <1>1 DEF Claims, ClaimInv, JobOf
<1>4. \A d \in Commits : run'[d].pc = "tell" => job'[run'[d].job].status = "COMMITTED"
  BY <1>1, <1>2 DEF Claims, ClaimInv, JobOf
<1>5. OneRunPerJob'
  BY <1>1 DEF Claims, ClaimInv, OneRunPerJob, JobOf, Holding
<1>6. ASSUME NEW j \in Jobs \ stuck', job'[j].status = "PREVIEW", job'[j].key # NoKey
      PROVE  \E d \in Commits : run'[d].job = j /\ Holding(d)'
  <2>1. PICK d \in Commits : run[d].job = j /\ Holding(d)
    BY <1>6 DEF Claims, ClaimHasRunner, Holding
  <2>2. CASE d = c
    <3>1. JobOf(c).key = run[c].key
      BY <1>6, <2>1, <2>2 DEF Claims, ClaimInv, JobOf
    <3>. QED
      BY <1>1, <1>6, <2>1, <2>2, <3>1 DEF JobOf
  <2>3. CASE d # c
    BY <2>1, <2>3 DEF Holding
  <2>. QED
    BY <2>2, <2>3
<1>. QED
  BY <1>3, <1>4, <1>5, <1>6 DEF Claims, ClaimInv, ClaimHasRunner, JobOf, Holding

LEMMA HoldingSteps ==
    ASSUME NEW c \in Commits
    PROVE  /\ Holding(c) <=> run[c].pc \in {"rows", "invite", "revoke", "tell", "release"}
           /\ Holding(c)' <=> run'[c].pc \in {"rows", "invite", "revoke", "tell", "release"}
BY DEF Holding, Running

\* A job that is claimed had nobody working on it.
LEMMA ClaimKeepsClaims == ASSUME ImportTypeOK, Claims, NEW c \in Commits, Claim(c) PROVE Claims'
<1>1. run[c].pc = "claim" /\ UNCHANGED stuck /\ run[c].job \in Jobs /\ run[c].key \in CommitKeys
  BY ClaimGoes, RunFields
<1>2. CASE UNCHANGED job /\ RunGoes(c, "refused", run[c].todo, run[c].row, run[c].before, run[c].outcome)
  BY <1>1, <1>2, QuietClaims, HoldingSteps DEF RunGoes
<1>3. CASE /\ JobOf(c).status = "PREVIEW" /\ JobOf(c).key = NoKey /\ job' = [job EXCEPT ![run[c].job].key = run[c].key]
           /\ RunGoes(c, "rows", run[c].todo, run[c].row, run[c].before, run[c].outcome)
  <2> DEFINE j == run[c].job
  <2>1. /\ job'[j].key = run[c].key /\ job'[j].status = job[j].status /\ \A i \in Jobs \ {j} : job'[i] = job[i]
    BY <1>1, <1>3, KeyIsSet
  <2>2. /\ run'[c].pc = "rows" /\ run'[c].job = j /\ run'[c].key = run[c].key
        /\ \A d \in Commits \ {c} : run'[d] = run[d]
    BY <1>3 DEF RunGoes
  <2>3. \A d \in Commits : run[d].job \in Jobs /\ run[d].key # NoKey
    BY RunFields, ImportAssumption
  <2>4. \A d \in Commits \ {c} : Holding(d) => run[d].job # j
    BY <1>3, <2>3 DEF Claims, ClaimInv, JobOf
  <2>5. \A d \in Commits \ {c} : Holding(d)' <=> Holding(d)
    BY <2>2 DEF Holding
  <2>6. Holding(c)'
    BY <2>2, HoldingSteps
  <2>7. \A d \in Commits : Holding(d)' /\ job'[run'[d].job].status = "PREVIEW" => job'[run'[d].job].key = run'[d].key
    <3>1. ASSUME NEW d \in Commits \ {c}, Holding(d), job'[run[d].job].status = "PREVIEW" PROVE job'[run[d].job].key = run[d].key
      BY <2>1, <2>3, <2>4, <3>1 DEF Claims, ClaimInv, JobOf
    <3>. QED
      BY <2>1, <2>2, <2>5, <3>1
  <2>8. OneRunPerJob'
    <3>1. ASSUME NEW d \in Commits, NEW b \in Commits, Holding(d)', Holding(b)', run'[d].job = run'[b].job, job'[run'[d].job].status = "PREVIEW"
          PROVE  d = b
      <4>1. CASE d = c \/ b = c
        BY <2>2, <2>4, <2>5, <3>1, <4>1
      <4>2. CASE d # c /\ b # c
        <5>1. Holding(d) /\ Holding(b) /\ run[d].job = run[b].job /\ job[run[d].job].status = "PREVIEW"
          BY <2>1, <2>2, <2>3, <2>4, <2>5, <3>1, <4>2
        <5>. QED
          BY <5>1 DEF Claims, ClaimInv, OneRunPerJob, JobOf, Holding
      <4>. QED
        BY <4>1, <4>2
    <3>. QED
      BY <3>1 DEF OneRunPerJob, JobOf, Holding
  <2>9. ASSUME NEW d \in Commits, run'[d].pc = "tell" PROVE job'[run'[d].job].status = "COMMITTED"
    BY <1>3, <2>1, <2>2, <2>3, <2>9 DEF Claims, ClaimInv, JobOf
  <2>10. ASSUME NEW i \in Jobs \ stuck', job'[i].status = "PREVIEW", job'[i].key # NoKey
         PROVE  \E d \in Commits : run'[d].job = i /\ Holding(d)'
    <3>1. CASE i = j
      BY <2>2, <2>6, <3>1
    <3>2. CASE i # j
      <4>1. PICK d \in Commits : run[d].job = i /\ Holding(d)
        BY <1>1, <2>1, <2>10, <3>2 DEF Claims, ClaimHasRunner, Holding
      <4>. QED
        BY <2>2, <2>5, <3>2, <4>1
    <3>. QED
      BY <3>1, <3>2
  <2>. QED
    BY <2>7, <2>8, <2>9, <2>10 DEF Claims, ClaimInv, ClaimHasRunner, JobOf, Holding
<1>. QED
  BY <1>2, <1>3, ClaimGoes

\* A job that is committed, or freed, is no preview of anybody else.
LEMMA EndKeepsClaims ==
    ASSUME ImportTypeOK, Claims, NEW c \in Commits, Holding(c), run'[c].job = run[c].job,
           stuck' = stuck, \A d \in Commits \ {c} : run'[d] = run[d], \A i \in Jobs \ {run[c].job} : job'[i] = job[i],
           \/ job'[run[c].job].status = "COMMITTED"
           \/ JobOf(c).status = "PREVIEW" /\ job'[run[c].job].status = "PREVIEW" /\ job'[run[c].job].key = NoKey /\ ~Holding(c)'
    PROVE  Claims'
<1> DEFINE j == run[c].job
<1>1. \A d \in Commits : run[d].job \in Jobs
  BY RunFields
<1>2. \A d \in Commits \ {c} : Holding(d)' <=> Holding(d)
  BY DEF Holding
<1>3. JobOf(c).status = "PREVIEW" => \A d \in Commits \ {c} : Holding(d) => run[d].job # j
  BY DEF Claims, ClaimInv, OneRunPerJob, Holding, JobOf
<1>4. ASSUME NEW d \in Commits, Holding(d)', job'[run'[d].job].status = "PREVIEW"
      PROVE  d # c /\ Holding(d) /\ run[d].job # j
  BY <1>2, <1>3, <1>4
<1>5. \A d \in Commits : Holding(d)' /\ job'[run'[d].job].status = "PREVIEW" => job'[run'[d].job].key = run'[d].key
  BY <1>1, <1>4 DEF Claims, ClaimInv, JobOf
<1>6. OneRunPerJob'
  <2>1. ASSUME NEW d \in Commits, NEW b \in Commits, Holding(d)', Holding(b)', run'[d].job = run'[b].job, job'[run'[d].job].status = "PREVIEW"
        PROVE  d = b
    BY <1>1, <1>4, <2>1 DEF Claims, ClaimInv, OneRunPerJob, JobOf, Holding
  <2>. QED
    BY <2>1 DEF OneRunPerJob, JobOf, Holding
<1>7. ASSUME NEW d \in Commits, run'[d].pc = "tell" PROVE job'[run'[d].job].status = "COMMITTED"
  <2>1. Holding(d)'
    BY <1>7, HoldingSteps
  <2>2. CASE run'[d].job = j
    <3>1. CASE d = c
      BY <2>1, <2>2, <3>1
    <3>2. CASE d # c
      <4>1. Holding(d) /\ run[d].job = j /\ job[j].status = "COMMITTED"
        BY <1>2, <1>7, <2>1, <2>2, <3>2 DEF Claims, ClaimInv, JobOf
      <4>. QED
        BY <2>2, <4>1 DEF JobOf
    <3>. QED
      BY <3>1, <3>2
  <2>3. CASE run'[d].job # j
    BY <1>1, <1>7, <2>3 DEF Claims, ClaimInv, JobOf
  <2>. QED
    BY <2>2, <2>3
<1>8. ASSUME NEW i \in Jobs \ stuck', job'[i].status = "PREVIEW", job'[i].key # NoKey
      PROVE  \E d \in Commits : run'[d].job = i /\ Holding(d)'
  <2>1. i # j
    BY <1>8
  <2>2. PICK d \in Commits : run[d].job = i /\ Holding(d)
    BY <1>8, <2>1 DEF Claims, ClaimHasRunner, Holding
  <2>. QED
    BY <1>2, <2>1, <2>2
<1>. QED
  BY <1>5, <1>6, <1>7, <1>8 DEF Claims, ClaimInv, ClaimHasRunner, JobOf, Holding

LEMMA FreeKeepsClaims == ASSUME ImportTypeOK, Claims, NEW c \in Commits, FreeClaim(c) PROVE Claims'
<1>1. run[c].pc = "release" /\ RunGoes(c, "failed", {}, run[c].row, {}, Fresh) /\ run[c].job \in Jobs
  BY FreeGoes, RunFields
<1>2. CASE job' = job /\ stuck \subseteq stuck' /\ (JobOf(c).status # "PREVIEW" \/ JobOf(c).key # run[c].key \/ run[c].job \in stuck')
  BY <1>1, <1>2, QuietClaims, HoldingSteps DEF RunGoes
<1>3. CASE JobOf(c).status = "PREVIEW" /\ job' = [job EXCEPT ![run[c].job].key = NoKey] /\ UNCHANGED stuck
  <2>1. /\ job'[run[c].job].key = NoKey /\ job'[run[c].job].status = job[run[c].job].status
        /\ \A i \in Jobs \ {run[c].job} : job'[i] = job[i]
    BY <1>1, <1>3, KeyIsSet
  <2>2. Holding(c) /\ ~Holding(c)' /\ run'[c].job = run[c].job /\ \A d \in Commits \ {c} : run'[d] = run[d]
    BY <1>1, HoldingSteps DEF RunGoes
  <2>. QED
    BY <1>3, <2>1, <2>2, EndKeepsClaims DEF JobOf
<1>. QED
  BY <1>2, <1>3, FreeGoes

LEMMA StepClaims == ASSUME ImportTypeOK, Claims, ImportNext PROVE Claims'
<1>1. ASSUME NEW c \in Commits, NEW j \in Jobs, NEW k \in CommitKeys, AskCommit(c, j, k) PROVE Claims'
  BY <1>1, AskGoes, QuietClaims, HoldingSteps
<1>2. ASSUME NEW c \in Commits, NEW e \in Emails, Invite(c, e) PROVE Claims'
  <2>1. /\ run[c].pc = "invite" /\ UNCHANGED <<job, stuck>> /\ run'[c].pc \in {"revoke", "invite"}
        /\ run'[c].job = run[c].job /\ run'[c].key = run[c].key /\ \A d \in Commits \ {c} : run'[d] = run[d]
    BY <1>2, InviteGoes DEF RunGoes
  <2>. QED
    BY <2>1, QuietClaims, HoldingSteps
<1>3. ASSUME NEW c \in Commits, LinkRows(c) PROVE Claims'
  <2>1. run[c].pc = "rows" /\ UNCHANGED <<job, stuck>>
    BY <1>3 DEF LinkRows
  <2>2. /\ run'[c].pc = "invite" /\ run'[c].job = run[c].job /\ run'[c].key = run[c].key
        /\ \A d \in Commits \ {c} : run'[d] = run[d]
    BY <1>3, LinkRowsGoes DEF RunGoes
  <2>. QED
    BY <2>1, <2>2, QuietClaims, HoldingSteps
<1>4. ASSUME NEW c \in Commits, Revoke(c) PROVE Claims'
  <2>1. /\ run[c].pc = "revoke" /\ UNCHANGED <<job, stuck>> /\ run'[c].pc = "invite"
        /\ run'[c].job = run[c].job /\ run'[c].key = run[c].key /\ \A d \in Commits \ {c} : run'[d] = run[d]
    BY <1>4, RevokeGoes DEF RunGoes
  <2>. QED
    BY <2>1, QuietClaims, HoldingSteps
<1>5. ASSUME NEW c \in Commits, CommitJob(c) PROVE Claims'
  <2>1. Holding(c) /\ run'[c].job = run[c].job /\ stuck' = stuck /\ \A d \in Commits \ {c} : run'[d] = run[d]
    BY <1>5, CommitGoes, HoldingSteps DEF RunGoes
  <2>2. job'[run[c].job].status = "COMMITTED" /\ \A i \in Jobs \ {run[c].job} : job'[i] = job[i]
    BY <1>5, CommitGoes
  <2>. QED
    BY <2>1, <2>2, EndKeepsClaims
<1>6. ASSUME NEW c \in Commits, Tell(c) \/ Throws(c) PROVE Claims'
  <2>1. /\ UNCHANGED <<job, stuck>> /\ run'[c].job = run[c].job /\ run'[c].key = run[c].key
        /\ \A d \in Commits \ {c} : run'[d] = run[d]
        /\ \/ run[c].pc = "tell" /\ run'[c].pc = "done"
           \/ run[c].pc \in {"rows", "invite", "tell"} /\ run'[c].pc = "release"
    BY <1>6, TellGoes DEF RunGoes
  <2>2. run[c].pc = "tell" => JobOf(c).status # "PREVIEW"
    BY DEF Claims, ClaimInv
  <2>. QED
    BY <2>1, <2>2, QuietClaims, HoldingSteps
<1>7. ASSUME NEW c \in Commits, Dies(c) PROVE Claims'
  <2>1. /\ Holding(c) /\ UNCHANGED job /\ run'[c].pc = "failed" /\ \A d \in Commits \ {c} : run'[d] = run[d]
    BY <1>7, DiesGoes DEF RunGoes
  <2>2. stuck \subseteq stuck' /\ (JobOf(c).status # "PREVIEW" \/ run[c].job \in stuck')
    BY <1>7, DiesGoes
  <2>. QED
    BY <2>1, <2>2, QuietClaims, HoldingSteps
<1>8. ASSUME NEW l \in Senders \X Emails, AcceptLink(l) PROVE Claims'
  BY <1>8 DEF AcceptLink, Claims, ClaimInv, ClaimHasRunner, OneRunPerJob, Holding, JobOf
<1>. QED
  BY <1>1, <1>2, <1>3, <1>4, <1>5, <1>6, <1>7, <1>8, ClaimKeepsClaims, FreeKeepsClaims DEF ImportNext

-----------------------------------------------------------------------------
(* Links and rows *)

\* No link is forgotten.
LinksStay == \A s \in Senders, e \in Emails : link[s][e] # "none" => link'[s][e] # "none"

\* What a step leaves of the links of request d, that does not take it.
LinksOfOther(d) == \A e \in Emails : link'[d][e] # "none" => link[d][e] # "none"

LEMMA OthersKeepLinks ==
    ASSUME ImportTypeOK, LinksInv, LinksStay, NEW d \in Commits, LinksOfOther(d), run'[d] = run[d]
    PROVE  LinksOf(d)'
<1>1. LinksOf(d) /\ run[d].row \in Emails /\ run[d].before \subseteq Senders \X Emails /\ d \in Senders
  BY RunFields, TypesOf DEF LinksInv
<1>2. \A l \in run[d].before : l[1] \in Senders /\ l[2] \in Emails
  BY <1>1
<1>. QED
  BY <1>1, <1>2 DEF LinksOf, LinksStay, LinksOfOther

\* Links of a request that goes on with the rows it has.
LEMMA RunKeepsLinks ==
    ASSUME ImportTypeOK, LinksInv, LinksStay, NEW c \in Commits, LinksOfOther(c), run'[c].todo = run[c].todo, run'[c].before = run[c].before,
           run'[c].pc # "revoke",
           \/ run'[c].pc \notin {"idle", "claim", "rows"}
           \/ run[c].pc \in {"idle", "claim"} /\ run'[c].outcome = run[c].outcome
    PROVE  LinksOf(c)'
<1>1. LinksOf(c) /\ run[c].before \subseteq Senders \X Emails
  BY RunFields DEF LinksInv
<1>2. \A l \in run[c].before : l[1] \in Senders /\ l[2] \in Emails
  BY <1>1
<1>. QED
  BY <1>1, <1>2 DEF LinksOf, LinksStay, LinksOfOther

LEMMA GoneKeepsLinks ==
    ASSUME NEW c \in Commits, run'[c].pc = "failed", run'[c].todo = {}, run'[c].before = {}
    PROVE  LinksOf(c)'
BY DEF LinksOf

\* An invitation, by what it writes.
LEMMA InviteSets ==
    ASSUME ImportTypeOK, NEW c \in Commits, NEW e \in Emails, Invite(c, e)
    PROVE  \/ /\ LinkSet(c, e, "PENDING")
              /\ RunGoes(c, "revoke", run[c].todo \ {e}, e, run[c].before, [run[c].outcome EXCEPT ![e] = "INVITED"])
           \/ /\ link' = link
              /\ RunGoes(c, "invite", run[c].todo \ {e}, run[c].row, run[c].before, [run[c].outcome EXCEPT ![e] = "FAILED"])
<1>1. c \in Senders
  BY TypesOf
<1>2. link' = [link EXCEPT ![c][e] = "PENDING"] => LinkSet(c, e, "PENDING")
  BY <1>1, LinkIsSet
<1>. QED
  BY <1>2, InviteGoes

\* Whether there is a link: what every step but an invitation leaves alone.
LEMMA StepLinks ==
    ASSUME ImportTypeOK, LinksInv, ImportNext
    PROVE  /\ LinksStay
           /\ \/ \A d \in Commits : LinksOfOther(d)
              \/ \E c \in Commits, e \in Emails : Invite(c, e) /\ LinkSet(c, e, "PENDING")
<1>1. ASSUME NEW c \in Commits, NEW e \in Emails, Invite(c, e)
      PROVE  LinksStay /\ (link' = link \/ LinkSet(c, e, "PENDING"))
  <2>1. link' = link \/ LinkSet(c, e, "PENDING")
    BY <1>1, InviteSets
  <2>. QED
    BY <2>1 DEF LinksStay, LinkSet
<1>2. ASSUME NEW c \in Commits, Revoke(c) PROVE LinksStay /\ \A d \in Commits : LinksOfOther(d)
  <2>1. PICK R \in SUBSET OldLinks(c) :
          link' = [s \in Senders |-> [e \in Emails |-> IF <<s, e>> \in R THEN "REVOKED" ELSE link[s][e]]]
    BY <1>2, RevokeGoes
  <2>2. \A s \in Senders, e \in Emails : <<s, e>> \in R => link[s][e] # "none"
    BY DEF OldLinks, LinksInv, LinksOf
  <2>3. \A s \in Senders, e \in Emails : link'[s][e] = "none" <=> link[s][e] = "none"
    BY <2>1, <2>2, LinksRevoked
  <2>. QED
    BY <2>3, TypesOf DEF LinksStay, LinksOfOther
<1>3. ASSUME NEW l \in Senders \X Emails, AcceptLink(l) PROVE LinksStay /\ \A d \in Commits : LinksOfOther(d)
  <2>1. l[1] \in Senders /\ l[2] \in Emails /\ link[l[1]][l[2]] = "PENDING" /\ link' = [link EXCEPT ![l[1]][l[2]] = "ACCEPTED"]
    BY <1>3 DEF AcceptLink, PendingLinks
  <2>2. LinkSet(l[1], l[2], "ACCEPTED")
    BY <2>1, LinkIsSet
  <2>. QED
    BY <2>1, <2>2, TypesOf DEF LinksStay, LinksOfOther, LinkSet
<1>4. ASSUME link' = link PROVE LinksStay /\ \A d \in Commits : LinksOfOther(d)
  BY <1>4 DEF LinksStay, LinksOfOther
<1>. QED
  BY <1>1, <1>2, <1>3, <1>4 DEF ImportNext, AskCommit, Claim, LinkRows, CommitJob, Tell, Throws, FreeClaim, Dies

LEMMA InviteKeepsLinks ==
    ASSUME ImportTypeOK, LinksInv, NEW c \in Commits, NEW e \in Emails, Invite(c, e), LinksStay,
           link' = link \/ LinkSet(c, e, "PENDING")
    PROVE  LinksInv'
<1>1. \A d \in Commits \ {c} : run'[d] = run[d] /\ LinksOfOther(d)
  <2>1. \A d \in Commits \ {c} : run'[d] = run[d]
    BY InviteSets DEF RunGoes
  <2>2. Commits \subseteq Senders
    BY TypesOf
  <2>3. link' = link \/ LinkSet(c, e, "PENDING")
    OBVIOUS
  <2>. QED
    BY <2>1, <2>2, <2>3 DEF LinkSet, LinksOfOther
<1>2. /\ run'[c].before = run[c].before /\ run'[c].todo = run[c].todo \ {e} /\ run[c].pc = "invite" /\ e \in run[c].todo
      /\ \/ run'[c].pc = "invite" /\ link' = link
         \/ run'[c].pc = "revoke" /\ run'[c].row = e /\ link'[c][e] = "PENDING"
  <2>1. run[c].pc = "invite" /\ e \in run[c].todo
    BY InviteGoes
  <2>2. CASE LinkSet(c, e, "PENDING") /\ RunGoes(c, "revoke", run[c].todo \ {e}, e, run[c].before, [run[c].outcome EXCEPT ![e] = "INVITED"])
    BY <2>1, <2>2, TypesOf DEF RunGoes, LinkSet
  <2>3. CASE link' = link /\ RunGoes(c, "invite", run[c].todo \ {e}, run[c].row, run[c].before, [run[c].outcome EXCEPT ![e] = "FAILED"])
    BY <2>1, <2>3 DEF RunGoes
  <2>. QED
    BY <2>2, <2>3, InviteSets
<1>3. LinksOf(c) /\ run[c].before \subseteq Senders \X Emails /\ c \in Senders
  BY RunFields, TypesOf DEF LinksInv
<1>4. \A l \in run[c].before : l[1] \in Senders /\ l[2] \in Emails
  BY <1>3
<1>5. \A f \in Emails \ {e} : link'[c][f] = link[c][f]
  BY <1>3 DEF LinkSet
<1>6. LinksOf(c)'
  BY <1>2, <1>3, <1>4, <1>5 DEF LinksOf, LinksStay
<1>. QED
  BY <1>1, <1>6, OthersKeepLinks DEF LinksInv

LEMMA StepKeepsLinks == ASSUME ImportTypeOK, LinksInv, ImportNext PROVE LinksInv'
<1>0. LinksStay
  BY StepLinks
<1>1. ASSUME NEW c \in Commits, NEW e \in Emails, Invite(c, e) PROVE LinksInv'
  BY <1>0, <1>1, InviteSets, InviteKeepsLinks
<1>2. ASSUME \A d \in Commits : LinksOfOther(d), NEW c \in Commits, \A d \in Commits \ {c} : run'[d] = run[d], LinksOf(c)' PROVE LinksInv'
  BY <1>0, <1>2, OthersKeepLinks DEF LinksInv
<1>3. ASSUME \A d \in Commits : LinksOfOther(d), ~\E c \in Commits, e \in Emails : Invite(c, e) PROVE LinksInv'
  <2>1. ASSUME NEW c \in Commits, NEW j \in Jobs, NEW k \in CommitKeys, AskCommit(c, j, k) PROVE LinksInv'
    <3>1. LinksOf(c)'
      BY <1>0, <1>3, <2>1, AskGoes, RunKeepsLinks
    <3>. QED
      BY <1>2, <1>3, <2>1, <3>1, AskGoes
  <2>2. ASSUME NEW c \in Commits, Claim(c) PROVE LinksInv'
    <3>1. /\ run[c].pc = "claim" /\ run'[c].pc \in {"rows", "refused"} /\ run'[c].todo = run[c].todo /\ run'[c].before = run[c].before
          /\ run'[c].outcome = run[c].outcome /\ \A d \in Commits \ {c} : run'[d] = run[d]
      BY <2>2, ClaimGoes DEF RunGoes
    <3>2. LinksOf(c)'
      BY <1>0, <1>3, <3>1, RunKeepsLinks
    <3>. QED
      BY <1>2, <1>3, <3>1, <3>2
  <2>3. ASSUME NEW c \in Commits, LinkRows(c) PROVE LinksInv'
    <3>1. /\ run'[c].pc = "invite" /\ run'[c].before = PendingLinks /\ \A d \in Commits \ {c} : run'[d] = run[d]
      BY <2>3, LinkRowsGoes DEF RunGoes
    <3>2. run[c].pc = "rows" /\ UNCHANGED link
      BY <2>3 DEF LinkRows
    <3>3. \A e \in Emails : link[c][e] = "none"
      BY <3>2 DEF LinksInv, LinksOf
    <3>4. \A l \in PendingLinks : l[2] \in Emails /\ link[l[1]][l[2]] = "PENDING"
      BY DEF PendingLinks
    <3>5. LinksOf(c)'
      BY <3>1, <3>2, <3>3, <3>4 DEF LinksOf
    <3>. QED
      BY <1>2, <1>3, <3>1, <3>5
  <2>4. ASSUME NEW c \in Commits, Revoke(c) \/ CommitJob(c) \/ Tell(c) \/ Throws(c) PROVE LinksInv'
    <3>1. /\ run'[c].pc \in {"invite", "tell", "done", "release"} /\ run'[c].todo = run[c].todo /\ run'[c].before = run[c].before
          /\ \A d \in Commits \ {c} : run'[d] = run[d]
      BY <2>4, RevokeGoes, CommitGoes, TellGoes DEF RunGoes
    <3>2. LinksOf(c)'
      BY <1>0, <1>3, <3>1, RunKeepsLinks
    <3>. QED
      BY <1>2, <1>3, <3>1, <3>2
  <2>5. ASSUME NEW c \in Commits, FreeClaim(c) \/ Dies(c) PROVE LinksInv'
    <3>1. run'[c].pc = "failed" /\ run'[c].todo = {} /\ run'[c].before = {} /\ \A d \in Commits \ {c} : run'[d] = run[d]
      BY <2>5, FreeGoes, DiesGoes DEF RunGoes
    <3>. QED
      BY <1>2, <1>3, <3>1, GoneKeepsLinks
  <2>6. ASSUME NEW l \in Senders \X Emails, AcceptLink(l) PROVE LinksInv'
    BY <1>0, <1>3, <2>6, OthersKeepLinks DEF AcceptLink, LinksInv
  <2>. QED
    BY <1>3, <2>1, <2>2, <2>3, <2>4, <2>5, <2>6 DEF ImportNext
<1>. QED
  BY <1>1, <1>3, StepLinks

\* A link stops working by another commit only, and what has stopped never works again.
OwnHeld(d) ==
    \A e \in Emails : link[d][e] \in {"PENDING", "ACCEPTED"} =>
        link'[d][e] \in {"PENDING", "ACCEPTED"} \/ \E b \in Commits \ {d} : link[b][e] # "none"
OldDead(d) == \A l \in run[d].before : link[l[1]][l[2]] # "PENDING" => link'[l[1]][l[2]] # "PENDING"

LEMMA StepHolds == ASSUME ImportTypeOK, LinksInv, ImportNext, NEW d \in Commits PROVE OwnHeld(d) /\ OldDead(d)
<1>0. d \in Senders /\ LinksOf(d) /\ \A l \in run[d].before : l[1] \in Senders /\ l[2] \in Emails
  <2>1. run[d].before \subseteq Senders \X Emails
    BY RunFields
  <2>. QED
    BY <2>1, TypesOf DEF LinksInv
<1>1. ASSUME NEW c \in Commits, NEW e \in Emails, Invite(c, e), LinkSet(c, e, "PENDING") PROVE OwnHeld(d) /\ OldDead(d)
  <2>1. link[c][e] = "none"
    BY <1>1, InviteGoes DEF LinksInv, LinksOf
  <2>2. \A l \in run[d].before : ~(l[1] = c /\ l[2] = e)
    BY <1>0, <2>1 DEF LinksOf
  <2>3. OldDead(d)
    BY <1>0, <1>1, <2>2 DEF OldDead, LinkSet
  <2>4. OwnHeld(d)
    BY <1>0, <1>1 DEF OwnHeld, LinkSet
  <2>. QED
    BY <2>3, <2>4
<1>2. ASSUME NEW c \in Commits, Revoke(c) PROVE OwnHeld(d) /\ OldDead(d)
  <2>1. PICK R \in SUBSET OldLinks(c) :
          link' = [s \in Senders |-> [e \in Emails |-> IF <<s, e>> \in R THEN "REVOKED" ELSE link[s][e]]]
    BY <1>2, RevokeGoes
  <2>2. \A t \in Senders, f \in Emails : link'[t][f] = IF <<t, f>> \in R THEN "REVOKED" ELSE link[t][f]
    BY <2>1, LinksRevoked
  <2>3. OldDead(d)
    BY <1>0, <2>2 DEF OldDead
  <2>4. run[c].pc = "revoke" /\ link[c][run[c].row] # "none" /\ LinksOf(c)
    BY <1>2, RevokeGoes DEF LinksInv, LinksOf
  <2>5. \A f \in Emails : <<d, f>> \in R => d # c /\ f = run[c].row
    BY <2>4 DEF OldLinks, LinksOf
  <2>6. OwnHeld(d)
    BY <1>0, <2>2, <2>4, <2>5 DEF OwnHeld
  <2>. QED
    BY <2>3, <2>6
<1>3. ASSUME NEW l \in Senders \X Emails, AcceptLink(l) PROVE OwnHeld(d) /\ OldDead(d)
  <2>1. l[1] \in Senders /\ l[2] \in Emails /\ link[l[1]][l[2]] = "PENDING" /\ link' = [link EXCEPT ![l[1]][l[2]] = "ACCEPTED"]
    BY <1>3 DEF AcceptLink, PendingLinks
  <2>2. LinkSet(l[1], l[2], "ACCEPTED")
    BY <2>1, LinkIsSet
  <2>. QED
    BY <1>0, <2>1, <2>2 DEF OwnHeld, OldDead, LinkSet
<1>4. ASSUME link' = link PROVE OwnHeld(d) /\ OldDead(d)
  BY <1>4 DEF OwnHeld, OldDead
<1>5. ASSUME NEW c \in Commits, NEW e \in Emails, Invite(c, e) PROVE OwnHeld(d) /\ OldDead(d)
  BY <1>1, <1>4, <1>5, InviteSets
<1>. QED
  BY <1>2, <1>3, <1>4, <1>5 DEF ImportNext, AskCommit, Claim, LinkRows, CommitJob, Tell, Throws, FreeClaim, Dies

\* An invited row stays invited while its request goes on.
LEMMA InvitedStays ==
    ASSUME ImportTypeOK, LinksStay, NEW d \in Commits, OwnHeld(d), OldDead(d), NEW e \in Emails, RowInvited(d, e),
           run'[d].before = run[d].before, run[d].pc = "revoke" /\ run[d].row = e => run'[d].pc = "revoke" /\ run'[d].row = e
    PROVE  RowInvited(d, e)'
<1>1. Commits \subseteq Senders
  BY TypesOf
<1>. QED
  BY <1>1 DEF RowInvited, LinksStay, OwnHeld, OldDead

\* Rows of a request that a step does not take on.
LEMMA QuietRows ==
    ASSUME ImportTypeOK, RowsInv, LinksStay, linked \subseteq linked', NEW d \in Commits, OwnHeld(d), OldDead(d),
           run'[d].outcome = run[d].outcome, run'[d].before = run[d].before,
           run'[d] = run[d] \/ (run'[d].pc \notin {"invite", "revoke"} /\ run[d].pc # "revoke")
    PROVE  RowsDone(d)'
<1>1. RowsDone(d)
  BY DEF RowsInv
<1>2. ASSUME NEW e \in Emails, run'[d].outcome[e] = "INVITED" PROVE RowInvited(d, e)'
  BY <1>1, <1>2, InvitedStays DEF RowsDone
<1>. QED
  BY <1>1, <1>2 DEF RowsDone

LEMMA InviteKeepsRows ==
    ASSUME ImportTypeOK, LinksInv, RowsInv, LinksStay, NEW c \in Commits, OwnHeld(c), OldDead(c), NEW e \in Emails, Invite(c, e)
    PROVE  RowsDone(c)'
<1>1. /\ run[c].pc = "invite" /\ e \in run[c].todo /\ linked' = linked /\ RowsDone(c) /\ run[c].outcome \in [Emails -> Outcomes]
      /\ c \in Senders /\ RowsOf[run[c].job] \subseteq Emails
  BY InviteGoes, RunFields, TypesOf, ImportAssumption DEF RowsInv
<1>2. ASSUME NEW f \in Emails, run[c].outcome[f] = "INVITED", run'[c].before = run[c].before PROVE RowInvited(c, f)'
  BY <1>1, <1>2, InvitedStays DEF RowsDone
<1>3. CASE LinkSet(c, e, "PENDING") /\ RunGoes(c, "revoke", run[c].todo \ {e}, e, run[c].before, [run[c].outcome EXCEPT ![e] = "INVITED"])
  <2>1. /\ run'[c].pc = "revoke" /\ run'[c].row = e /\ run'[c].todo = run[c].todo \ {e} /\ run'[c].before = run[c].before
        /\ run'[c].job = run[c].job /\ run'[c].outcome = [run[c].outcome EXCEPT ![e] = "INVITED"]
    BY <1>3 DEF RunGoes
  <2>2. run'[c].outcome[e] = "INVITED" /\ \A f \in Emails \ {e} : run'[c].outcome[f] = run[c].outcome[f]
    BY <1>1, <2>1
  <2>3. RowInvited(c, e)'
    BY <1>1, <1>3, <2>1 DEF RowInvited, LinkSet
  <2>4. \A f \in Emails : run'[c].outcome[f] = "INVITED" => RowInvited(c, f)'
    BY <1>2, <2>1, <2>2, <2>3
  <2>. QED
    BY <1>1, <2>1, <2>2, <2>4 DEF RowsDone
<1>4. CASE link' = link /\ RunGoes(c, "invite", run[c].todo \ {e}, run[c].row, run[c].before, [run[c].outcome EXCEPT ![e] = "FAILED"])
  <2>1. /\ run'[c].pc = "invite" /\ run'[c].todo = run[c].todo \ {e} /\ run'[c].before = run[c].before
        /\ run'[c].job = run[c].job /\ run'[c].outcome = [run[c].outcome EXCEPT ![e] = "FAILED"]
    BY <1>4 DEF RunGoes
  <2>2. run'[c].outcome[e] = "FAILED" /\ \A f \in Emails \ {e} : run'[c].outcome[f] = run[c].outcome[f]
    BY <1>1, <2>1
  <2>4. \A f \in Emails : run'[c].outcome[f] = "INVITED" => RowInvited(c, f)'
    BY <1>2, <2>1, <2>2
  <2>. QED
    BY <1>1, <2>1, <2>2, <2>4 DEF RowsDone
<1>. QED
  BY <1>3, <1>4, InviteSets

LEMMA RevokeKeepsRows ==
    ASSUME ImportTypeOK, LinksInv, RowsInv, LinksStay, NEW c \in Commits, OwnHeld(c), OldDead(c), Revoke(c)
    PROVE  RowsDone(c)'
<1>1. PICK R \in SUBSET OldLinks(c), o \in {"INVITED", "FAILED"} :
        /\ link' = [s \in Senders |-> [e \in Emails |-> IF <<s, e>> \in R THEN "REVOKED" ELSE link[s][e]]]
        /\ o = "INVITED" => R = OldLinks(c)
        /\ RunGoes(c, "invite", run[c].todo, run[c].row, run[c].before, [run[c].outcome EXCEPT ![run[c].row] = o])
  BY RevokeGoes
<1>0. PICK r \in Emails : r = run[c].row
  BY RunFields
<1>2. /\ run[c].pc = "revoke" /\ linked' = linked /\ RowsDone(c) /\ run[c].outcome \in [Emails -> Outcomes] /\ r \in Emails
      /\ RowsOf[run[c].job] \subseteq Emails /\ c \in Senders
  BY <1>0, RevokeGoes, RunFields, TypesOf, ImportAssumption DEF RowsInv
<1>3. /\ run'[c].pc = "invite" /\ run'[c].todo = run[c].todo /\ run'[c].before = run[c].before
      /\ run'[c].job = run[c].job /\ run'[c].outcome = [run[c].outcome EXCEPT ![r] = o]
  BY <1>0, <1>1 DEF RunGoes
<1>4. run'[c].outcome[r] = o /\ \A f \in Emails \ {r} : run'[c].outcome[f] = run[c].outcome[f]
  BY <1>2, <1>3
<1>5. \A f \in Emails \ {r} : run'[c].outcome[f] = "INVITED" => RowInvited(c, f)'
  BY <1>0, <1>2, <1>3, <1>4, InvitedStays DEF RowsDone
<1>6. ASSUME o = "INVITED" PROVE RowInvited(c, r)'
  <2>1. RowInvited(c, r)
    BY <1>0, <1>2 DEF RowsDone
  <2>2. ASSUME NEW l \in run[c].before, l[2] = r PROVE link'[l[1]][r] # "PENDING"
    <3>1. l \in R /\ l = <<l[1], l[2]>> /\ l[1] \in Senders
      BY <1>0, <1>1, <1>6, <2>2, RunFields DEF OldLinks
    <3>. QED
      BY <1>1, <1>2, <2>2, <3>1
  <2>3. link'[c][r] # "none" /\ Commits \subseteq Senders
    BY <1>2, <2>1, TypesOf DEF LinksStay, RowInvited
  <2>4. link'[c][r] \in {"PENDING", "ACCEPTED"} \/ \E d \in Commits \ {c} : link'[d][r] # "none"
    BY <1>2, <2>1, <2>3 DEF RowInvited, OwnHeld, LinksStay
  <2>. QED
    BY <1>3, <2>2, <2>3, <2>4 DEF RowInvited
<1>7. \A f \in Emails : run'[c].outcome[f] = "INVITED" => RowInvited(c, f)'
  BY <1>4, <1>5, <1>6
<1>. QED
  BY <1>2, <1>3, <1>4, <1>7 DEF RowsDone

LEMMA LinkRowsKeepsRows == ASSUME ImportTypeOK, NEW c \in Commits, LinkRows(c) PROVE RowsDone(c)'
<1>1. linked' = linked \cup (RowsOf[run[c].job] \cap Existing) /\ RowsOf[run[c].job] \subseteq Emails
  BY RunFields, ImportAssumption DEF LinkRows
<1>2. /\ run'[c].pc = "invite" /\ run'[c].todo = RowsOf[run[c].job] \ Existing /\ run'[c].job = run[c].job
      /\ run'[c].outcome = [e \in Emails |-> IF e \in RowsOf[run[c].job] \cap Existing THEN "SKIPPED" ELSE "none"]
  BY LinkRowsGoes DEF RunGoes
<1>. QED
  BY <1>1, <1>2 DEF RowsDone

LEMMA GoneKeepsRows ==
    ASSUME NEW c \in Commits, run'[c].pc = "failed", run'[c].outcome = Fresh
    PROVE  RowsDone(c)'
BY FreshTyped DEF RowsDone

LEMMA StepKeepsRows == ASSUME ImportTypeOK, LinksInv, RowsInv, ImportNext PROVE RowsInv'
<1>0. LinksStay /\ \A d \in Commits : OwnHeld(d) /\ OldDead(d)
  BY StepLinks, StepHolds
<1>1. linked \subseteq linked'
  <2>1. ASSUME NEW c \in Commits, LinkRows(c) PROVE linked \subseteq linked'
    BY <2>1 DEF LinkRows
  <2>2. ASSUME NEW c \in Commits, Claim(c) \/ Revoke(c) \/ CommitJob(c) \/ Tell(c) \/ Throws(c) \/ FreeClaim(c) \/ Dies(c)
        PROVE  linked' = linked
    BY <2>2 DEF Claim, Revoke, CommitJob, Tell, Throws, FreeClaim, Dies
  <2>3. ASSUME NEW c \in Commits, NEW j \in Jobs, NEW k \in CommitKeys, AskCommit(c, j, k) PROVE linked' = linked
    BY <2>3 DEF AskCommit
  <2>4. ASSUME NEW c \in Commits, NEW e \in Emails, Invite(c, e) PROVE linked' = linked
    BY <2>4 DEF Invite
  <2>5. ASSUME NEW l \in Senders \X Emails, AcceptLink(l) PROVE linked' = linked
    BY <2>5 DEF AcceptLink
  <2>. QED
    BY <2>1, <2>2, <2>3, <2>4, <2>5 DEF ImportNext
<1>2. ASSUME NEW c \in Commits, \A d \in Commits \ {c} : run'[d] = run[d], RowsDone(c)' PROVE RowsInv'
  BY <1>0, <1>1, <1>2, QuietRows DEF RowsInv
<1>3. ASSUME NEW c \in Commits, NEW j \in Jobs, NEW k \in CommitKeys, AskCommit(c, j, k) PROVE RowsInv'
  <2>1. RowsDone(c)'
    BY <1>0, <1>1, <1>3, AskGoes, QuietRows
  <2>. QED
    BY <1>2, <1>3, <2>1, AskGoes
<1>4. ASSUME NEW c \in Commits, NEW e \in Emails, Invite(c, e) PROVE RowsInv'
  <2>1. \A d \in Commits \ {c} : run'[d] = run[d]
    BY <1>4, InviteSets DEF RunGoes
  <2>. QED
    BY <1>0, <1>2, <1>4, <2>1, InviteKeepsRows
<1>5. ASSUME NEW c \in Commits, Claim(c) \/ CommitJob(c) \/ Tell(c) \/ Throws(c) PROVE RowsInv'
  <2>1. /\ run[c].pc # "revoke" /\ run'[c].pc \in {"rows", "refused", "tell", "done", "release"}
        /\ run'[c].before = run[c].before /\ run'[c].outcome = run[c].outcome /\ \A d \in Commits \ {c} : run'[d] = run[d]
    BY <1>5, ClaimGoes, CommitGoes, TellGoes DEF RunGoes
  <2>2. RowsDone(c)'
    BY <1>0, <1>1, <2>1, QuietRows
  <2>. QED
    BY <1>2, <2>1, <2>2
<1>6. ASSUME NEW c \in Commits, LinkRows(c) PROVE RowsInv'
  BY <1>2, <1>6, LinkRowsGoes, LinkRowsKeepsRows DEF RunGoes
<1>7. ASSUME NEW c \in Commits, Revoke(c) PROVE RowsInv'
  <2>1. \A d \in Commits \ {c} : run'[d] = run[d]
    BY <1>7, RevokeGoes DEF RunGoes
  <2>. QED
    BY <1>0, <1>2, <1>7, <2>1, RevokeKeepsRows
<1>8. ASSUME NEW c \in Commits, FreeClaim(c) \/ Dies(c) PROVE RowsInv'
  <2>1. run'[c].pc = "failed" /\ run'[c].outcome = Fresh /\ \A d \in Commits \ {c} : run'[d] = run[d]
    BY <1>8, FreeGoes, DiesGoes DEF RunGoes
  <2>. QED
    BY <1>2, <2>1, GoneKeepsRows
<1>9. ASSUME NEW l \in Senders \X Emails, AcceptLink(l) PROVE RowsInv'
  BY <1>0, <1>1, <1>9, QuietRows DEF AcceptLink, RowsInv
<1>. QED
  BY <1>3, <1>4, <1>5, <1>6, <1>7, <1>8, <1>9 DEF ImportNext

-----------------------------------------------------------------------------
(* Committed jobs *)

\* Who has sent a link is the commit it was, for the job and with the key it was.
LEMMA SendersStay ==
    ASSUME ImportTypeOK, LinksInv, ImportNext, NEW c \in Commits, NEW e \in Emails, link[c][e] # "none"
    PROVE  run'[c].job = run[c].job /\ run'[c].key = run[c].key /\ link'[c][e] # "none"
<1>1. link'[c][e] # "none" /\ run[c].pc # "idle"
  BY StepLinks, TypesOf DEF LinksStay, LinksInv, LinksOf
<1>2. ASSUME NEW d \in Commits, NEW j \in Jobs, NEW k \in CommitKeys, AskCommit(d, j, k) PROVE run'[c] = run[c]
  BY <1>1, <1>2, AskGoes
<1>3. ASSUME NEW d \in Commits, NEW pc, NEW todo, NEW row, NEW before, NEW outcome, RunGoes(d, pc, todo, row, before, outcome)
      PROVE  run'[c].job = run[c].job /\ run'[c].key = run[c].key
  BY <1>3 DEF RunGoes
<1>4. ASSUME NEW d \in Commits, NEW f \in Emails, Invite(d, f) PROVE run'[c].job = run[c].job /\ run'[c].key = run[c].key
  BY <1>3, <1>4, InviteSets
<1>5. ASSUME NEW d \in Commits, Claim(d) \/ LinkRows(d) \/ Revoke(d) \/ CommitJob(d) \/ Tell(d) \/ Throws(d) \/ FreeClaim(d) \/ Dies(d)
      PROVE  run'[c].job = run[c].job /\ run'[c].key = run[c].key
  <2>1. CASE Claim(d)
    BY <1>3, <2>1, ClaimGoes
  <2>2. CASE LinkRows(d)
    BY <1>3, <2>2, LinkRowsGoes
  <2>3. CASE Revoke(d)
    BY <1>3, <2>3, RevokeGoes
  <2>4. CASE CommitJob(d)
    BY <1>3, <2>4, CommitGoes
  <2>5. CASE Tell(d) \/ Throws(d)
    BY <1>3, <2>5, TellGoes
  <2>6. CASE FreeClaim(d)
    BY <1>3, <2>6, FreeGoes
  <2>7. CASE Dies(d)
    BY <1>3, <2>7, DiesGoes
  <2>. QED
    BY <1>5, <2>1, <2>2, <2>3, <2>4, <2>5, <2>6, <2>7
<1>6. ASSUME NEW l \in Senders \X Emails, AcceptLink(l) PROVE run' = run
  BY <1>6 DEF AcceptLink
<1>. QED
  BY <1>1, <1>2, <1>4, <1>5, <1>6 DEF ImportNext

LEMMA StepKeepsCommitted == ASSUME ImportTypeOK, LinksInv, RowsInv, CommittedRowsHappened, ImportNext PROVE CommittedRowsHappened'
<1> DEFINE CommitHappened(j) == job[j].status = "COMMITTED" => \A e \in RowsOf[j] :
             /\ job[j].outcome[e] # "none"
             /\ job[j].outcome[e] = "SKIPPED" => e \in linked
             /\ job[j].outcome[e] = "INVITED" => \E c \in Commits : run[c].job = j /\ run[c].key = job[j].key /\ link[c][e] # "none"
<1>1. linked \subseteq linked'
  <2>1. ASSUME NEW c \in Commits, LinkRows(c) PROVE linked \subseteq linked'
    BY <2>1 DEF LinkRows
  <2>2. ASSUME NEW c \in Commits, Claim(c) \/ Revoke(c) \/ CommitJob(c) \/ Tell(c) \/ Throws(c) \/ FreeClaim(c) \/ Dies(c)
        PROVE  linked' = linked
    BY <2>2 DEF Claim, Revoke, CommitJob, Tell, Throws, FreeClaim, Dies
  <2>3. ASSUME NEW c \in Commits, NEW j \in Jobs, NEW k \in CommitKeys, AskCommit(c, j, k) PROVE linked' = linked
    BY <2>3 DEF AskCommit
  <2>4. ASSUME NEW c \in Commits, NEW e \in Emails, Invite(c, e) PROVE linked' = linked
    BY <2>4 DEF Invite
  <2>5. ASSUME NEW l \in Senders \X Emails, AcceptLink(l) PROVE linked' = linked
    BY <2>5 DEF AcceptLink
  <2>. QED
    BY <2>1, <2>2, <2>3, <2>4, <2>5 DEF ImportNext
<1>2. ASSUME NEW j \in Jobs, job'[j] = job[j] \/ job'[j].status = "PREVIEW" PROVE CommitHappened(j)'
  <2>1. SUFFICES ASSUME job'[j] = job[j], job[j].status = "COMMITTED", NEW e \in RowsOf[j]
                 PROVE  /\ job[j].outcome[e] # "none"
                        /\ job[j].outcome[e] = "SKIPPED" => e \in linked'
                        /\ job[j].outcome[e] = "INVITED" => \E c \in Commits : run'[c].job = j /\ run'[c].key = job[j].key /\ link'[c][e] # "none"
    BY <1>2
  <2>2. e \in Emails
    BY ImportAssumption
  <2>3. CommitHappened(j)
    BY DEF CommittedRowsHappened
  <2>4. ASSUME job[j].outcome[e] = "INVITED"
        PROVE  \E c \in Commits : run'[c].job = j /\ run'[c].key = job[j].key /\ link'[c][e] # "none"
    <3>1. PICK c \in Commits : run[c].job = j /\ run[c].key = job[j].key /\ link[c][e] # "none"
      BY <2>1, <2>3, <2>4
    <3>. QED
      BY <2>2, <3>1, SendersStay
  <2>. QED
    BY <1>1, <2>1, <2>3, <2>4
<1>3. ASSUME NEW c \in Commits, CommitJob(c) PROVE CommittedRowsHappened'
  <2>0. PICK j \in Jobs : j = run[c].job
    BY RunFields
  <2>1. /\ run[c].pc = "invite" /\ run[c].todo = {} /\ j \in Jobs /\ UNCHANGED <<link, linked>> /\ RowsOf[j] \subseteq Emails
        /\ run'[c].job = j /\ run'[c].key = run[c].key
    BY <1>3, <2>0, CommitGoes, RunFields, ImportAssumption DEF RunGoes
  <2>2. /\ job'[j].key = run[c].key /\ job'[j].outcome = run[c].outcome /\ \A i \in Jobs \ {j} : job'[i] = job[i]
    BY <1>3, <2>0, CommitGoes
  <2>3. RowsDone(c)
    BY DEF RowsInv
  <2>4. CommitHappened(j)'
    BY <2>0, <2>1, <2>2, <2>3 DEF RowsDone, RowInvited
  <2>5. \A i \in Jobs : CommitHappened(i)'
    BY <1>2, <2>2, <2>4
  <2>. QED
    BY <2>5 DEF CommittedRowsHappened
<1>4. ASSUME NEW c \in Commits, Claim(c) \/ FreeClaim(c), NEW i \in Jobs PROVE job'[i] = job[i] \/ job'[i].status = "PREVIEW"
  <2>1. run[c].job \in Jobs /\ run[c].key \in CommitKeys
    BY RunFields
  <2>2. CASE job' = job
    BY <2>2
  <2>3. CASE JobOf(c).status = "PREVIEW" /\ \E k \in CommitKeys \cup {NoKey} : job' = [job EXCEPT ![run[c].job].key = k]
    BY <2>1, <2>3, KeyIsSet DEF JobOf
  <2>. QED
    BY <1>4, <2>1, <2>2, <2>3, ClaimGoes, FreeGoes
<1>5. ASSUME \A i \in Jobs : job'[i] = job[i] \/ job'[i].status = "PREVIEW" PROVE CommittedRowsHappened'
  BY <1>2, <1>5 DEF CommittedRowsHappened
<1>. QED
  BY <1>3, <1>4, <1>5, ZenonT(60) DEF ImportNext, AskCommit, Invite, LinkRows, Revoke, Tell, Throws, Dies, AcceptLink

-----------------------------------------------------------------------------
(* Theorems *)

LEMMA InitImport == ImportInit => ImportInv
<1>1. SUFFICES ASSUME ImportInit PROVE ImportInv
  OBVIOUS
<1>2. /\ (CHOOSE j \in Jobs : TRUE) \in Jobs /\ (CHOOSE k \in CommitKeys : TRUE) \in CommitKeys
      /\ (CHOOSE e \in Emails : TRUE) \in Emails
  BY ImportAssumption
<1>3. ImportTypeOK
  BY <1>1, <1>2, FreshTyped, ImportStepNames DEF ImportInit, ImportTypeOK
<1>4. \A c \in Commits : run[c].pc = "idle" /\ run[c].before = {} /\ run[c].outcome = Fresh
  BY <1>1 DEF ImportInit
<1>5. \A c \in Commits, e \in Emails : link[c][e] = "none"
  BY <1>1, TypesOf, ImportAssumption DEF ImportInit
<1>6. \A j \in Jobs : job[j].status = "PREVIEW" /\ job[j].key = NoKey
  BY <1>1 DEF ImportInit
<1>7. ClaimInv /\ ClaimHasRunner /\ CommittedRowsHappened
  BY <1>4, <1>6 DEF ClaimInv, OneRunPerJob, ClaimHasRunner, CommittedRowsHappened, Holding, Running
<1>8. LinksInv
  BY <1>4, <1>5 DEF LinksInv, LinksOf
<1>9. RowsInv
  BY <1>4, FreshTyped DEF RowsInv, RowsDone
<1>. QED
  BY <1>3, <1>7, <1>8, <1>9 DEF ImportInv

LEMMA NextKeepsImport == ImportInv /\ [ImportNext]_importVars => ImportInv'
<1>1. ASSUME ImportInv, ImportNext PROVE ImportInv'
  BY <1>1, StepTypes, StepClaims, StepKeepsLinks, StepKeepsRows, StepKeepsCommitted DEF ImportInv, Claims
<1>2. ASSUME ImportInv, UNCHANGED importVars PROVE ImportInv'
  BY <1>2 DEF importVars, ImportInv, ImportTypeOK, ClaimInv, OneRunPerJob, ClaimHasRunner, JobOf, Holding, LinksInv, LinksOf,
              RowsInv, RowsDone, RowInvited, CommittedRowsHappened
<1>. QED
  BY <1>1, <1>2

LEMMA ImportInvHolds == ImportSpec => []ImportInv
BY InitImport, NextKeepsImport, PTL DEF ImportSpec

\* Jobs, links and requests of the import (commitImport, the import and invite
\* tables) stay well typed, for any jobs, rows, keys and requests.
THEOREM ImportTypes == ImportSpec => []ImportTypeOK
<1>1. ImportInv => ImportTypeOK
  BY DEF ImportInv
<1>. QED
  BY <1>1, ImportInvHolds, PTL

\* Whatever requests, retries, keys and failures meet on an import job: one
\* commit runs on a preview at a time, a claim has a commit working on it unless
\* the process died or the release failed, of the links a student had none works
\* after a row is reported as invited, and a committed job reports only members
\* that were linked and students that were sent a link (commitImport and runCommit).
THEOREM ImportIsSound == ImportSpec => []ImportSound
<1>1. ImportInv => ReplacedLinksAreDead
  <2>1. SUFFICES ASSUME ImportInv, NEW c \in Commits, run[c].pc \in {"tell", "done"}, NEW e \in Emails, run[c].outcome[e] = "INVITED"
                 PROVE  /\ \A l \in run[c].before : l[2] = e => link[l[1]][e] # "PENDING"
                        /\ link[c][e] \in {"PENDING", "ACCEPTED"} \/ \E d \in Commits \ {c} : link[d][e] # "none"
    BY DEF ReplacedLinksAreDead
  <2>2. RowInvited(c, e) /\ run[c].pc # "revoke"
    BY <2>1 DEF ImportInv, RowsInv, RowsDone
  <2>. QED
    BY <2>2 DEF RowInvited
<1>2. ImportInv => ImportSound
  BY <1>1 DEF ImportInv, ClaimInv, ImportSound
<1>. QED
  BY <1>2, ImportInvHolds, PTL

-----------------------------------------------------------------------------
(* The invariant of the notices *)

Heard(t) == \E i \in 1..Len(notices) : notices[i] = t

\* A check that is about to look, or to tell of threshold t, or was cut short.
Owes(c, t) == settle[c].pc \in {"count", "broken"} \/ (settle[c].pc \in {"list", "send"} /\ t \in settle[c].owed)

\* A threshold the roster stands at was told, or somebody owes it.
ReachedIsOwed == \A t \in Reached : Heard(t) \/ \E c \in Settles : Owes(c, t)

\* While no two checks overlapped and nothing was hidden, one check sends at a
\* time, what nobody has told, and no threshold is told twice.
SentOnce ==
    ~crossed /\ Len(notices) <= Window =>
        /\ \A c, d \in Settles : Sending(c) /\ Sending(d) => c = d
        /\ \A c \in Settles : Sending(c) => \A t \in settle[c].owed : ~Heard(t)
        /\ \A t \in COMPLETION_THRESHOLDS : \A m, n \in 1..Len(notices) : notices[m] = t /\ notices[n] = t => m = n

NoticeInv == NoticeTypeOK /\ ReachedIsOwed /\ SentOnce

-----------------------------------------------------------------------------
(* What the steps do *)

SettleRecords == [pc : SettleSteps, who : Learners, owed : SUBSET COMPLETION_THRESHOLDS]

LEMMA SettleFields ==
    ASSUME NoticeTypeOK
    PROVE  /\ settle \in [Settles -> SettleRecords]
           /\ \A c \in Settles : settle[c].pc \in SettleSteps /\ settle[c].who \in Learners /\ settle[c].owed \subseteq COMPLETION_THRESHOLDS
BY DEF NoticeTypeOK, SettleRecords

\* Request c has gone on, and nobody else.
Settled(c, pc, owed) ==
    /\ settle' \in [Settles -> SettleRecords]
    /\ \A d \in Settles \ {c} : settle'[d] = settle[d]
    /\ settle'[c].pc = pc /\ settle'[c].owed = owed

LEMMA SettleGoes ==
    ASSUME NoticeTypeOK, NEW c \in Settles, NEW pc \in SettleSteps, NEW who \in Learners, NEW owed \in SUBSET COMPLETION_THRESHOLDS,
           settle' = [settle EXCEPT ![c] = [[[settle[c] EXCEPT !.pc = pc] EXCEPT !.who = who] EXCEPT !.owed = owed]]
    PROVE  Settled(c, pc, owed)
<1> DEFINE m == [[[settle[c] EXCEPT !.pc = pc] EXCEPT !.who = who] EXCEPT !.owed = owed]
<1>1. m \in SettleRecords /\ m.pc = pc /\ m.owed = owed
  BY SettleFields DEF SettleRecords
<1>2. settle' = [settle EXCEPT ![c] = m]
  OBVIOUS
<1>. HIDE DEF m
<1>. QED
  BY <1>1, <1>2, SettleFields DEF Settled

LEMMA NoticeStepNames == {"idle", "write", "count", "list", "send", "done", "broken"} = SettleSteps
BY DEF SettleSteps

LEMMA NoticeAskGoes ==
    ASSUME NoticeTypeOK, NEW c \in Settles, NEW s \in Learners, AskSettle(c, s)
    PROVE  settle[c].pc = "idle" /\ Settled(c, "write", settle[c].owed) /\ UNCHANGED <<seat, notices, crossed>>
<1>1. settle' = [settle EXCEPT ![c] = [[[settle[c] EXCEPT !.pc = "write"] EXCEPT !.who = s] EXCEPT !.owed = settle[c].owed]]
  BY SettleFields DEF AskSettle, SettleRecords
<1>. QED
  BY <1>1, SettleFields, NoticeStepNames, SettleGoes DEF AskSettle

LEMMA WriteGoes ==
    ASSUME NoticeTypeOK, NEW c \in Settles, WriteSeat(c)
    PROVE  /\ settle[c].pc = "write" /\ Settled(c, "count", settle[c].owed) /\ UNCHANGED <<notices, crossed>>
           /\ seat' = [seat EXCEPT ![settle[c].who] = "COMPLETED"]
<1>1. settle' = [settle EXCEPT ![c] = [[[settle[c] EXCEPT !.pc = "count"] EXCEPT !.who = settle[c].who] EXCEPT !.owed = settle[c].owed]]
  BY SettleFields DEF WriteSeat, SettleRecords
<1>. QED
  BY <1>1, SettleFields, NoticeStepNames, SettleGoes DEF WriteSeat

LEMMA NoticeCountGoes ==
    ASSUME NoticeTypeOK, NEW c \in Settles, CountSeats(c)
    PROVE  /\ settle[c].pc = "count" /\ UNCHANGED <<seat, notices, crossed>>
           /\ Settled(c, IF Reached = {} THEN "done" ELSE "list", Reached)
<1> DEFINE pc == IF Reached = {} THEN "done" ELSE "list"
<1>1. settle' = [settle EXCEPT ![c].pc = pc, ![c].owed = Reached] /\ pc \in SettleSteps
  BY NoticeStepNames DEF CountSeats
<1>. HIDE DEF pc
<1>2. settle' = [settle EXCEPT ![c] = [[[settle[c] EXCEPT !.pc = pc] EXCEPT !.who = settle[c].who] EXCEPT !.owed = Reached]]
  BY <1>1, SettleFields DEF SettleRecords
<1>3. Reached \in SUBSET COMPLETION_THRESHOLDS
  BY DEF Reached
<1>4. Settled(c, pc, Reached)
  BY <1>1, <1>2, <1>3, SettleFields, SettleGoes
<1>. QED
  BY <1>4 DEF CountSeats, pc

LEMMA ListGoes ==
    ASSUME NoticeTypeOK, NEW c \in Settles, ListSent(c)
    PROVE  /\ settle[c].pc = "list" /\ UNCHANGED <<seat, notices>>
           /\ \E pc \in {"done", "send"} : Settled(c, pc, settle[c].owed \ Listed) /\ (pc = "done" => settle[c].owed \ Listed = {})
<1> DEFINE owed == settle[c].owed \ Listed
           pc == IF owed = {} THEN "done" ELSE "send"
<1>1. settle' = [settle EXCEPT ![c].owed = owed, ![c].pc = pc] /\ pc \in SettleSteps /\ pc \in {"done", "send"} /\ (pc = "done" => owed = {})
  BY NoticeStepNames DEF ListSent
<1>2. owed \in SUBSET COMPLETION_THRESHOLDS
  BY SettleFields
<1>. HIDE DEF pc, owed
<1>3. settle' = [settle EXCEPT ![c] = [[[settle[c] EXCEPT !.pc = pc] EXCEPT !.who = settle[c].who] EXCEPT !.owed = owed]]
  BY <1>1, SettleFields DEF SettleRecords
<1>4. Settled(c, pc, owed)
  BY <1>1, <1>2, <1>3, SettleFields, SettleGoes
<1>. QED
  BY <1>1, <1>4 DEF ListSent, owed

LEMMA ListCrosses ==
    ASSUME NEW c, ListSent(c)
    PROVE  crossed' = (crossed \/ \E d \in Settles : Sending(d))
BY Zenon DEF ListSent

LEMMA SendGoes ==
    ASSUME NoticeTypeOK, NEW c \in Settles, Send(c)
    PROVE  /\ Sending(c) /\ UNCHANGED <<seat, crossed>>
           /\ \E t \in settle[c].owed, pc \in {"done", "send"} :
                notices' = Append(notices, t) /\ Settled(c, pc, settle[c].owed \ {t}) /\ (pc = "done" => settle[c].owed = {t})
<1>1. PICK t \in settle[c].owed :
        /\ notices' = Append(notices, t)
        /\ settle' = [settle EXCEPT ![c].owed = @ \ {t}, ![c].pc = IF @ = "send" /\ settle[c].owed = {t} THEN "done" ELSE @]
  BY DEF Send
<1> DEFINE pc == IF settle[c].owed = {t} THEN "done" ELSE "send"
           owed == settle[c].owed \ {t}
<1>2. settle[c].pc = "send" /\ owed \in SUBSET COMPLETION_THRESHOLDS
  BY SettleFields DEF Send, Sending
<1>3. settle' = [settle EXCEPT ![c].owed = owed, ![c].pc = pc] /\ pc \in SettleSteps /\ pc \in {"done", "send"} /\ (pc = "done" => settle[c].owed = {t})
  BY <1>1, <1>2, SettleFields, NoticeStepNames DEF SettleRecords
<1>. HIDE DEF pc, owed
<1>4. settle' = [settle EXCEPT ![c] = [[[settle[c] EXCEPT !.pc = pc] EXCEPT !.who = settle[c].who] EXCEPT !.owed = owed]]
  BY <1>3, SettleFields DEF SettleRecords
<1>5. Settled(c, pc, owed)
  BY <1>2, <1>3, <1>4, SettleFields, SettleGoes
<1>. QED
  BY <1>1, <1>3, <1>5 DEF Send, owed

LEMMA NoticeBreaksGoes ==
    ASSUME NoticeTypeOK, NEW c \in Settles, CheckBreaks(c)
    PROVE  Settled(c, "broken", {}) /\ UNCHANGED <<seat, notices, crossed>>
<1>1. settle' = [settle EXCEPT ![c] = [[[settle[c] EXCEPT !.pc = "broken"] EXCEPT !.who = settle[c].who] EXCEPT !.owed = {}]]
  BY SettleFields DEF CheckBreaks, SettleRecords
<1>. QED
  BY <1>1, SettleFields, NoticeStepNames, SettleGoes DEF CheckBreaks

-----------------------------------------------------------------------------
(* Helpers *)

\* A notice more.
LEMMA HeardMore ==
    ASSUME NoticeTypeOK, NEW x \in COMPLETION_THRESHOLDS \cup {0}, notices' = Append(notices, x)
    PROVE  /\ notices' \in Seq(COMPLETION_THRESHOLDS \cup {0}) /\ Len(notices) \in Nat /\ Len(notices') = Len(notices) + 1
           /\ notices'[Len(notices')] = x /\ \A i \in 1..Len(notices) : notices'[i] = notices[i]
           /\ \A t : Heard(t)' <=> Heard(t) \/ t = x
<1>1. notices \in Seq(COMPLETION_THRESHOLDS \cup {0})
  BY DEF NoticeTypeOK
<1>2. /\ notices' \in Seq(COMPLETION_THRESHOLDS \cup {0}) /\ Len(notices) \in Nat /\ Len(notices') = Len(notices) + 1
      /\ notices'[Len(notices')] = x /\ \A i \in 1..Len(notices) : notices'[i] = notices[i]
  BY <1>1, AppendProperties, LenProperties
<1>3. \A i \in 1..Len(notices') : i \in 1..Len(notices) \/ i = Len(notices')
  BY <1>2
<1>4. 1..Len(notices) \subseteq 1..Len(notices') /\ Len(notices') \in 1..Len(notices')
  BY <1>2
<1>. QED
  BY <1>2, <1>3, <1>4 DEF Heard

\* Counting a threshold and hearing of it.
LEMMA ToldHeard ==
    ASSUME NoticeTypeOK, NEW t
    PROVE  /\ Heard(t) => Told(t) > 0
           /\ (\A m, n \in 1..Len(notices) : notices[m] = t /\ notices[n] = t => m = n) => Told(t) <= 1
<1> DEFINE S == {i \in 1..Len(notices) : notices[i] = t}
<1>1. Len(notices) \in Nat
  BY LenProperties DEF NoticeTypeOK
<1>2. IsFiniteSet(S)
  <2>1. IsFiniteSet(1..Len(notices)) /\ S \subseteq 1..Len(notices)
    BY <1>1, FS_Interval
  <2>. QED
    BY <2>1, FS_Subset
<1>3. ASSUME Heard(t) PROVE Told(t) > 0
  <2>1. S # {}
    BY <1>3 DEF Heard
  <2>2. Cardinality(S) \in Nat /\ Cardinality(S) # 0
    BY <1>2, <2>1, FS_EmptySet, FS_CardinalityType
  <2>. QED
    BY <2>2 DEF Told
<1>4. ASSUME \A m, n \in 1..Len(notices) : notices[m] = t /\ notices[n] = t => m = n PROVE Told(t) <= 1
  <2>1. CASE S = {}
    BY <2>1, FS_EmptySet DEF Told
  <2>2. CASE S # {}
    <3>1. PICK m : m \in S
      BY <2>2
    <3>2. S = {m}
      BY <1>4, <3>1
    <3>3. Cardinality(S) = 1
      BY <3>2, FS_Singleton
    <3>. QED
      BY <3>3 DEF Told
  <2>. QED
    BY <2>1, <2>2
<1>. QED
  BY <1>3, <1>4

\* A roster that grows stands lower.
LEMMA JoiningLowers ==
    ASSUME NoticeTypeOK, NEW s \in Learners, Joins(s)
    PROVE  Reached' \subseteq Reached
<1>1. seat \in [Learners -> {"none", "STARTED", "COMPLETED"}] /\ seat[s] = "none" /\ seat' = [seat EXCEPT ![s] = "STARTED"]
  BY DEF NoticeTypeOK, Joins
<1>2. Roster' = Roster \cup {s} /\ Completed' = Completed /\ Completed \subseteq Roster
  BY <1>1 DEF Roster, Completed
<1>3. IsFiniteSet(Roster) /\ IsFiniteSet(Completed) /\ IsFiniteSet(Roster')
  BY <1>1, <1>2, NoticeAssumption, FS_Subset DEF Roster, Completed
<1>4. /\ Cardinality(Roster) \in Nat /\ Cardinality(Completed) \in Nat /\ Cardinality(Roster') \in Nat
      /\ Cardinality(Roster) <= Cardinality(Roster') /\ Cardinality(Completed') = Cardinality(Completed)
  BY <1>2, <1>3, FS_CardinalityType, FS_Subset
<1>5. CASE Roster # {}
  <2>1. Cardinality(Roster) > 0
    BY <1>3, <1>4, <1>5, FS_EmptySet
  <2> DEFINE a == Cardinality(Completed) * 100
             q == Cardinality(Roster)
             r == Cardinality(Roster')
  <2>2. a \in Nat /\ q \in Nat /\ r \in Nat /\ q > 0 /\ q <= r
    BY <1>4, <2>1
  <2>3. Percent = a \div q /\ Percent' = a \div r
    BY <1>4 DEF Percent
  <2>. HIDE DEF a, q, r
  <2>4. Percent' <= Percent /\ Percent \in Nat /\ Percent' \in Nat
    BY <2>2, <2>3
  <2>5. Reached' \subseteq Reached
    BY <1>5, <2>4 DEF Reached, COMPLETION_THRESHOLDS
  <2>. QED
    BY <1>5, <2>5
<1>6. CASE Roster = {}
  <2>1. Cardinality(Completed') = 0 /\ Cardinality(Roster') = 1
    BY <1>2, <1>6, FS_EmptySet, FS_Singleton, ZenonT(60)
  <2>2. Percent' = 0
    BY <2>1 DEF Percent
  <2>3. Reached' = {}
    BY <2>2 DEF Reached, COMPLETION_THRESHOLDS
  <2>. QED
    BY <1>6, <2>3
<1>. QED
  BY <1>5, <1>6

-----------------------------------------------------------------------------
(* Types *)

LEMMA SettleTypes ==
    ASSUME NoticeTypeOK, NEW c, NEW pc, NEW owed, Settled(c, pc, owed), seat' \in [Learners -> {"none", "STARTED", "COMPLETED"}],
           notices' \in Seq(COMPLETION_THRESHOLDS \cup {0}), crossed' \in BOOLEAN
    PROVE  NoticeTypeOK'
BY DEF NoticeTypeOK, Settled, SettleRecords

LEMMA NoticeTypes == ASSUME NoticeTypeOK, NoticeNext PROVE NoticeTypeOK'
<1>0. /\ seat \in [Learners -> {"none", "STARTED", "COMPLETED"}] /\ notices \in Seq(COMPLETION_THRESHOLDS \cup {0}) /\ crossed \in BOOLEAN
      /\ settle \in [Settles -> SettleRecords]
  BY SettleFields DEF NoticeTypeOK
<1>1. ASSUME NEW c \in Settles, NEW s \in Learners, AskSettle(c, s) PROVE NoticeTypeOK'
  BY <1>0, <1>1, NoticeAskGoes, SettleTypes
<1>2. ASSUME NEW c \in Settles, WriteSeat(c) PROVE NoticeTypeOK'
  <2>1. seat' \in [Learners -> {"none", "STARTED", "COMPLETED"}]
    BY <1>0, <1>2, WriteGoes, SettleFields
  <2>. QED
    BY <1>0, <1>2, <2>1, WriteGoes, SettleTypes
<1>3. ASSUME NEW c \in Settles, CountSeats(c) PROVE NoticeTypeOK'
  BY <1>0, <1>3, NoticeCountGoes, SettleTypes
<1>4. ASSUME NEW c \in Settles, ListSent(c) PROVE NoticeTypeOK'
  <2>1. crossed' \in BOOLEAN
    BY <1>4, ListCrosses
  <2>. QED
    BY <1>0, <1>4, <2>1, ListGoes, SettleTypes
<1>5. ASSUME NEW c \in Settles, Send(c) PROVE NoticeTypeOK'
  <2>1. PICK t \in settle[c].owed, pc \in {"done", "send"} : notices' = Append(notices, t) /\ Settled(c, pc, settle[c].owed \ {t})
    BY <1>5, SendGoes
  <2>2. notices' \in Seq(COMPLETION_THRESHOLDS \cup {0})
    BY <2>1, SettleFields, HeardMore
  <2>. QED
    BY <1>0, <1>5, <2>1, <2>2, SendGoes, SettleTypes
<1>6. ASSUME NEW c \in Settles, CheckBreaks(c) PROVE NoticeTypeOK'
  BY <1>0, <1>6, NoticeBreaksGoes, SettleTypes
<1>7. ASSUME NEW s \in Learners, Joins(s) PROVE NoticeTypeOK'
  BY <1>7 DEF NoticeTypeOK, Joins
<1>8. ASSUME OtherNotice PROVE NoticeTypeOK'
  BY <1>8, HeardMore DEF NoticeTypeOK, OtherNotice
<1>. QED
  BY <1>1, <1>2, <1>3, <1>4, <1>5, <1>6, <1>7, <1>8 DEF NoticeNext

-----------------------------------------------------------------------------
(* No threshold is missed *)

\* A check goes on and tells, or hands on, what it owed.
LEMMA OwingStays ==
    ASSUME ReachedIsOwed, Reached' \subseteq Reached, \A t : Heard(t) => Heard(t)', NEW c \in Settles,
           \A d \in Settles \ {c} : settle'[d] = settle[d], \A t \in Reached : Owes(c, t) => Owes(c, t)' \/ Heard(t)'
    PROVE  ReachedIsOwed'
BY DEF ReachedIsOwed, Owes

LEMMA ReachedStays ==
    ASSUME seat' = seat
    PROVE  Reached' = Reached
BY DEF Reached, Roster, Completed, Percent

LEMMA OwedStep == ASSUME NoticeTypeOK, ReachedIsOwed, NoticeNext PROVE ReachedIsOwed'
<1>1. ASSUME NEW c \in Settles, NEW s \in Learners, AskSettle(c, s) PROVE ReachedIsOwed'
  <2>1. ~\E t : Owes(c, t)
    BY <1>1, NoticeAskGoes DEF Owes
  <2>. QED
    BY <1>1, <2>1, NoticeAskGoes, ReachedStays, OwingStays DEF Settled, Heard
<1>2. ASSUME NEW c \in Settles, WriteSeat(c) PROVE ReachedIsOwed'
  <2>1. settle'[c].pc = "count"
    BY <1>2, WriteGoes DEF Settled
  <2>. QED
    BY <2>1 DEF ReachedIsOwed, Owes
<1>3. ASSUME NEW c \in Settles, CountSeats(c) PROVE ReachedIsOwed'
  <2>1. Reached' = Reached /\ \A t \in Reached : Owes(c, t)'
    BY <1>3, NoticeCountGoes, ReachedStays DEF Settled, Owes
  <2>. QED
    BY <2>1 DEF ReachedIsOwed
<1>4. ASSUME NEW c \in Settles, ListSent(c) PROVE ReachedIsOwed'
  <2>1. PICK pc \in {"done", "send"} : Settled(c, pc, settle[c].owed \ Listed) /\ (pc = "done" => settle[c].owed \ Listed = {})
    BY <1>4, ListGoes
  <2>2. \A t \in Listed : Heard(t)
    BY DEF Listed, Heard
  <2>3. seat' = seat /\ notices' = notices /\ settle[c].pc = "list"
    BY <1>4, ListGoes
  <2>4. \A t : Heard(t) <=> Heard(t)'
    BY <2>3 DEF Heard
  <2>5. \A t \in Reached : Owes(c, t) => Owes(c, t)' \/ Heard(t)'
    BY <2>1, <2>2, <2>3, <2>4 DEF Owes, Settled
  <2>. QED
    BY <2>1, <2>3, <2>4, <2>5, ReachedStays, OwingStays DEF Settled
<1>5. ASSUME NEW c \in Settles, Send(c) PROVE ReachedIsOwed'
  <2>1. PICK t \in settle[c].owed, pc \in {"done", "send"} :
          notices' = Append(notices, t) /\ Settled(c, pc, settle[c].owed \ {t}) /\ (pc = "done" => settle[c].owed = {t})
    BY <1>5, SendGoes
  <2>2. \A x : Heard(x)' <=> Heard(x) \/ x = t
    BY <2>1, SettleFields, HeardMore
  <2>3. seat' = seat /\ settle[c].pc = "send"
    BY <1>5, SendGoes DEF Sending
  <2>4. \A x \in Reached : Owes(c, x) => Owes(c, x)' \/ Heard(x)'
    BY <2>1, <2>2, <2>3 DEF Owes, Settled
  <2>. QED
    BY <2>1, <2>2, <2>3, <2>4, ReachedStays, OwingStays DEF Settled
<1>6. ASSUME NEW c \in Settles, CheckBreaks(c) PROVE ReachedIsOwed'
  <2>1. settle'[c].pc = "broken"
    BY <1>6, NoticeBreaksGoes DEF Settled
  <2>. QED
    BY <2>1 DEF ReachedIsOwed, Owes
<1>7. ASSUME NEW s \in Learners, Joins(s) PROVE ReachedIsOwed'
  <2>1. Reached' \subseteq Reached /\ UNCHANGED <<notices, settle>>
    BY <1>7, JoiningLowers DEF Joins
  <2>. QED
    BY <2>1 DEF ReachedIsOwed, Heard, Owes
<1>8. ASSUME OtherNotice PROVE ReachedIsOwed'
  <2>1. \A t : Heard(t) => Heard(t)'
    BY <1>8, HeardMore DEF OtherNotice
  <2>2. UNCHANGED <<seat, settle>>
    BY <1>8 DEF OtherNotice
  <2>. QED
    BY <2>1, <2>2, ReachedStays DEF ReachedIsOwed, Owes
<1>. QED
  BY <1>1, <1>2, <1>3, <1>4, <1>5, <1>6, <1>7, <1>8 DEF NoticeNext

-----------------------------------------------------------------------------
(* No threshold is told twice *)

\* Nothing is sent, and whoever starts to send is alone and has listed everything.
LEMMA QuietSends ==
    ASSUME SentOnce, notices' = notices, crossed => crossed', NEW c \in Settles, \A d \in Settles \ {c} : settle'[d] = settle[d],
           ~crossed' /\ Len(notices) <= Window /\ settle'[c].pc = "send"
               => (\A d \in Settles : ~Sending(d)) /\ (\A t \in settle'[c].owed : ~Heard(t))
    PROVE  SentOnce'
<1>1. SUFFICES ASSUME ~crossed', Len(notices) <= Window
               PROVE  /\ \A a, d \in Settles : Sending(a)' /\ Sending(d)' => a = d
                      /\ \A a \in Settles : Sending(a)' => \A t \in settle'[a].owed : ~Heard(t)
                      /\ \A t \in COMPLETION_THRESHOLDS : \A m, n \in 1..Len(notices) : notices[m] = t /\ notices[n] = t => m = n
  BY DEF SentOnce, Heard
<1>2. ~crossed
  BY <1>1
<1>3. \A d \in Settles \ {c} : Sending(d)' <=> Sending(d)
  BY DEF Sending
<1>. QED
  BY <1>1, <1>2, <1>3 DEF SentOnce, Sending

LEMMA SendingStep == ASSUME NoticeTypeOK, SentOnce, NoticeNext PROVE SentOnce'
<1>1. ASSUME NEW c \in Settles, NEW s \in Learners, AskSettle(c, s) PROVE SentOnce'
  BY <1>1, NoticeAskGoes, QuietSends DEF Settled
<1>2. ASSUME NEW c \in Settles, WriteSeat(c) PROVE SentOnce'
  BY <1>2, WriteGoes, QuietSends DEF Settled
<1>3. ASSUME NEW c \in Settles, CountSeats(c) PROVE SentOnce'
  BY <1>3, NoticeCountGoes, QuietSends DEF Settled
<1>4. ASSUME NEW c \in Settles, ListSent(c) PROVE SentOnce'
  <2>1. PICK pc \in {"done", "send"} : Settled(c, pc, settle[c].owed \ Listed)
    BY <1>4, ListGoes
  <2>2. notices' = notices /\ crossed' = (crossed \/ \E d \in Settles : Sending(d)) /\ crossed \in BOOLEAN
    BY <1>4, ListGoes, ListCrosses DEF NoticeTypeOK
  <2>3. ASSUME Len(notices) <= Window, NEW t, Heard(t) PROVE t \in Listed
    <3>1. PICK i \in 1..Len(notices) : notices[i] = t
      BY <2>3 DEF Heard
    <3>2. i + Window > Len(notices)
      <4>1. Len(notices) \in Nat /\ Window \in Nat
        BY NoticeAssumption, LenProperties DEF NoticeTypeOK
      <4>. QED
        BY <2>3, <3>1, <4>1
    <3>. QED
      BY <3>1, <3>2 DEF Listed
  <2>4. \A t \in settle'[c].owed : t \notin Listed
    BY <2>1 DEF Settled
  <2>5. \A d \in Settles \ {c} : settle'[d] = settle[d]
    BY <2>1 DEF Settled
  <2>6. ~crossed' /\ Len(notices) <= Window => (\A d \in Settles : ~Sending(d)) /\ (\A t \in settle'[c].owed : ~Heard(t))
    BY <2>2, <2>3, <2>4
  <2>. QED
    BY <2>2, <2>5, <2>6, QuietSends
<1>5. ASSUME NEW c \in Settles, Send(c) PROVE SentOnce'
  <2>1. PICK t \in settle[c].owed, pc \in {"done", "send"} : notices' = Append(notices, t) /\ Settled(c, pc, settle[c].owed \ {t})
    BY <1>5, SendGoes
  <2>2. /\ Len(notices) \in Nat /\ Len(notices') = Len(notices) + 1 /\ notices'[Len(notices')] = t
        /\ \A i \in 1..Len(notices) : notices'[i] = notices[i]
        /\ \A x : Heard(x)' <=> Heard(x) \/ x = t
    BY <2>1, SettleFields, HeardMore
  <2>3. SUFFICES ASSUME ~crossed, Len(notices') <= Window
                 PROVE  /\ \A a, d \in Settles : Sending(a)' /\ Sending(d)' => a = d
                        /\ \A a \in Settles : Sending(a)' => \A x \in settle'[a].owed : ~Heard(x)'
                        /\ \A x \in COMPLETION_THRESHOLDS : \A m, n \in 1..Len(notices') : notices'[m] = x /\ notices'[n] = x => m = n
    BY <1>5, SendGoes DEF SentOnce
  <2>4. Len(notices) <= Window
    BY <2>2, <2>3, NoticeAssumption
  <2>5. /\ \A a, d \in Settles : Sending(a) /\ Sending(d) => a = d
        /\ \A a \in Settles : Sending(a) => \A x \in settle[a].owed : ~Heard(x)
        /\ \A x \in COMPLETION_THRESHOLDS : \A m, n \in 1..Len(notices) : notices[m] = x /\ notices[n] = x => m = n
    BY <2>3, <2>4 DEF SentOnce
  <2>6. Sending(c) /\ \A d \in Settles \ {c} : ~Sending(d) /\ ~Sending(d)'
    BY <1>5, <2>1, <2>5, SendGoes DEF Settled, Sending
  <2>7. \A x \in settle'[c].owed : ~Heard(x)'
    BY <2>1, <2>2, <2>5, <2>6 DEF Settled
  <2>8. \A i \in 1..Len(notices) : notices[i] # t
    BY <2>5, <2>6 DEF Heard
  <2>9. ASSUME NEW x \in COMPLETION_THRESHOLDS, NEW m \in 1..Len(notices'), NEW n \in 1..Len(notices'), notices'[m] = x, notices'[n] = x PROVE m = n
    <3>1. (m \in 1..Len(notices) \/ m = Len(notices')) /\ (n \in 1..Len(notices) \/ n = Len(notices'))
      BY <2>2
    <3>. QED
      BY <2>2, <2>5, <2>8, <2>9, <3>1
  <2>. QED
    BY <2>6, <2>7, <2>9
<1>6. ASSUME NEW c \in Settles, CheckBreaks(c) PROVE SentOnce'
  BY <1>6, NoticeBreaksGoes, QuietSends DEF Settled
<1>7. ASSUME NEW s \in Learners, Joins(s) PROVE SentOnce'
  BY <1>7 DEF Joins, SentOnce, Heard, Sending
<1>8. ASSUME OtherNotice PROVE SentOnce'
  <2>1. notices' = Append(notices, 0) /\ UNCHANGED <<settle, crossed>> /\ ~(0 \in COMPLETION_THRESHOLDS)
    BY <1>8 DEF OtherNotice, COMPLETION_THRESHOLDS
  <2>2. /\ Len(notices) \in Nat /\ Len(notices') = Len(notices) + 1 /\ notices'[Len(notices')] = 0
        /\ \A i \in 1..Len(notices) : notices'[i] = notices[i]
        /\ \A x : Heard(x)' <=> Heard(x) \/ x = 0
    BY <2>1, HeardMore
  <2>3. SUFFICES ASSUME ~crossed, Len(notices') <= Window
                 PROVE  /\ \A a, d \in Settles : Sending(a) /\ Sending(d) => a = d
                        /\ \A a \in Settles : Sending(a) => \A x \in settle[a].owed : ~Heard(x)'
                        /\ \A x \in COMPLETION_THRESHOLDS : \A m, n \in 1..Len(notices') : notices'[m] = x /\ notices'[n] = x => m = n
    BY <2>1 DEF SentOnce, Sending
  <2>4. Len(notices) <= Window
    BY <2>2, <2>3, NoticeAssumption
  <2>5. /\ \A a, d \in Settles : Sending(a) /\ Sending(d) => a = d
        /\ \A a \in Settles : Sending(a) => \A x \in settle[a].owed : ~Heard(x)
        /\ \A x \in COMPLETION_THRESHOLDS : \A m, n \in 1..Len(notices) : notices[m] = x /\ notices[n] = x => m = n
    BY <2>3, <2>4 DEF SentOnce
  <2>6. \A a \in Settles : Sending(a) => \A x \in settle[a].owed : ~Heard(x)'
    BY <2>1, <2>2, <2>5, SettleFields
  <2>7. ASSUME NEW x \in COMPLETION_THRESHOLDS, NEW m \in 1..Len(notices'), NEW n \in 1..Len(notices'), notices'[m] = x, notices'[n] = x PROVE m = n
    <3>1. m \in 1..Len(notices) /\ n \in 1..Len(notices)
      BY <2>1, <2>2, <2>7
    <3>. QED
      BY <2>2, <2>5, <2>7, <3>1
  <2>. QED
    BY <2>5, <2>6, <2>7
<1>. QED
  BY <1>1, <1>2, <1>3, <1>4, <1>5, <1>6, <1>7, <1>8 DEF NoticeNext

-----------------------------------------------------------------------------
(* Theorems *)

LEMMA InitNotices == NoticeInit => NoticeInv
<1>1. SUFFICES ASSUME NoticeInit PROVE NoticeInv
  OBVIOUS
<1>2. NoticeTypeOK
  <2>1. (CHOOSE s \in Learners : TRUE) \in Learners
    BY NoticeAssumption
  <2>2. <<>> \in Seq(COMPLETION_THRESHOLDS \cup {0})
    BY EmptySeq
  <2>. QED
    BY <1>1, <2>1, <2>2 DEF NoticeInit, NoticeTypeOK, SettleSteps
<1>3. Len(notices) = 0 /\ \A c \in Settles : ~Sending(c)
  BY <1>1, EmptySeq DEF NoticeInit, Sending
<1>4. SentOnce
  BY <1>3 DEF SentOnce
<1>5. Reached = {}
  <2>1. Completed = {}
    BY <1>1 DEF NoticeInit, Completed
  <2>2. ASSUME Roster # {} PROVE Percent = 0
    <3>1. IsFiniteSet(Roster)
      BY NoticeAssumption, FS_Subset DEF Roster
    <3>2. Cardinality(Roster) \in Nat /\ Cardinality(Roster) # 0
      BY <2>2, <3>1, FS_EmptySet, FS_CardinalityType
    <3>. QED
      BY <2>1, <3>2, FS_EmptySet DEF Percent
  <2>. QED
    BY <2>2 DEF Reached, COMPLETION_THRESHOLDS
<1>6. ReachedIsOwed
  BY <1>5 DEF ReachedIsOwed
<1>. QED
  BY <1>2, <1>4, <1>6 DEF NoticeInv

LEMMA NextKeepsNotices == NoticeInv /\ [NoticeNext]_noticeVars => NoticeInv'
<1>1. ASSUME NoticeInv, NoticeNext PROVE NoticeInv'
  BY <1>1, NoticeTypes, OwedStep, SendingStep DEF NoticeInv
<1>2. ASSUME NoticeInv, UNCHANGED noticeVars PROVE NoticeInv'
  <2>1. UNCHANGED <<seat, notices, settle, crossed>>
    BY <1>2 DEF noticeVars
  <2>2. Reached' = Reached
    BY <2>1, ReachedStays
  <2>. QED
    BY <1>2, <2>1, <2>2 DEF NoticeInv, NoticeTypeOK, ReachedIsOwed, SentOnce, Owes, Heard, Sending
<1>. QED
  BY <1>1, <1>2

LEMMA NoticeInvHolds == NoticeSpec => []NoticeInv
BY InitNotices, NextKeepsNotices, PTL DEF NoticeSpec

\* Seats, notices and checks stay well typed, for any students and requests.
THEOREM NoticeTypesHold == NoticeSpec => []NoticeTypeOK
<1>1. NoticeInv => NoticeTypeOK
  BY DEF NoticeInv
<1>. QED
  BY <1>1, NoticeInvHolds, PTL

\* However many students settle together and whoever joins: a threshold the
\* roster stands at has been told once every check has ended and none was cut
\* short, and it is told once unless two checks overlapped or the window hid
\* the first notice (checkCompletionThresholds).
THEOREM NoticesAreSound == NoticeSpec => []NoticesSound
<1>1. ASSUME NoticeInv PROVE NoticesSound
  <2>1. NoticeTypeOK
    BY <1>1 DEF NoticeInv
  <2>2. ReachedIsTold
    <3>1. SUFFICES ASSUME \A c \in Settles : settle[c].pc \in {"idle", "done"}, NEW t \in Reached PROVE Told(t) > 0
      BY DEF ReachedIsTold
    <3>2. Heard(t)
      BY <1>1, <3>1 DEF NoticeInv, ReachedIsOwed, Owes
    <3>. QED
      BY <2>1, <3>2, ToldHeard
  <2>3. ToldOnce
    <3>1. SUFFICES ASSUME ~crossed, ~(Len(notices) > Window), NEW t \in COMPLETION_THRESHOLDS PROVE Told(t) <= 1
      BY DEF ToldOnce
    <3>2. Len(notices) <= Window
      BY <2>1, <3>1, LenProperties, NoticeAssumption DEF NoticeTypeOK
    <3>. QED
      BY <1>1, <2>1, <3>1, <3>2, ToldHeard DEF NoticeInv, SentOnce
  <2>. QED
    BY <2>2, <2>3 DEF NoticesSound
<1>. QED
  BY <1>1, NoticeInvHolds, PTL

-----------------------------------------------------------------------------
(* The parts side by side *)

OfficeParts == {"contracts", "team", "import", "notices", "rating", "growth", "cycle", "redeem", "correction", "decision", "erasure"}

\* What happens in the office is a behaviour of every part: a step of one is a step
\* of it or leaves it as it is.
THEOREM PartsOfTheOffice ==
    OfficeSpec => /\ BillingSpec /\ TeamSpec /\ ImportSpec /\ NoticeSpec /\ RatingSpec /\ GrowthSpec
                  /\ CycleSpec /\ RedeemSpec /\ CorrectionSpec /\ DecisionSpec /\ ErasureSpec
<1>0. OfficeInit => /\ BillingInit /\ TeamInit /\ ImportInit /\ NoticeInit /\ RatingInit /\ GrowthInit
                    /\ CycleInit /\ RedeemInit /\ CorrectionInit /\ DecisionInit /\ ErasureInit
  BY DEF OfficeInit
<1>1. [OfficeNext]_officeVars => [BillingNext]_billingVars
  BY DEF OfficeNext, officeVars
<1>2. [OfficeNext]_officeVars => [TeamNext]_teamVars
  BY DEF OfficeNext, officeVars
<1>3. [OfficeNext]_officeVars => [ImportNext]_importVars
  BY DEF OfficeNext, officeVars
<1>4. [OfficeNext]_officeVars => [NoticeNext]_noticeVars
  BY DEF OfficeNext, officeVars
<1>5. [OfficeNext]_officeVars => [RatingNext]_ratingVars
  BY DEF OfficeNext, officeVars
<1>6. [OfficeNext]_officeVars => [GrowthNext]_growthVars
  BY DEF OfficeNext, officeVars
<1>7. [OfficeNext]_officeVars => [CycleNext]_cycleVars
  BY DEF OfficeNext, officeVars
<1>8. [OfficeNext]_officeVars => [RedeemNext]_redeemVars
  BY DEF OfficeNext, officeVars
<1>9. [OfficeNext]_officeVars => [CorrectionNext]_correctionVars
  BY DEF OfficeNext, officeVars
<1>10. [OfficeNext]_officeVars => [DecisionNext]_decisionVars
  BY DEF OfficeNext, officeVars
<1>11. [OfficeNext]_officeVars => [ErasureNext]_erasureVars
  BY DEF OfficeNext, officeVars
<1>. QED
  BY <1>0, <1>1, <1>2, <1>3, <1>4, <1>5, <1>6, <1>7, <1>8, <1>9, <1>10, <1>11, PTL
  DEF OfficeSpec, BillingSpec, TeamSpec, ImportSpec, NoticeSpec, RatingSpec, GrowthSpec, CycleSpec, RedeemSpec, CorrectionSpec, DecisionSpec, ErasureSpec

\* The variables of every part keep their types, for any number of requests of every kind.
THEOREM OfficeTypesHold ==
    ASSUME Chosen \subseteq OfficeParts, IsFiniteSet(Correctors)
    PROVE  OfficeSpec => []OfficeTypeOK
<1>1. GrowthSpec => []GrowthTypeOK
  <2>1. GrowthInv => GrowthTypeOK
    BY DEF GrowthInv
  <2>. QED
    BY <2>1, GrowthStarts, GrowthStep, PTL DEF GrowthSpec
<1>2. CycleSpec => []CycleTypeOK
  <2>1. CycleInv => CycleTypeOK
    BY DEF CycleInv
  <2>. QED
    BY <2>1, CycleStarts, CycleStep, PTL DEF CycleSpec
<1>3. RedeemSpec => []RedeemTypeOK
  <2>1. RedeemInv => RedeemTypeOK
    BY DEF RedeemInv
  <2>. QED
    BY <2>1, RedeemStarts, RedeemStep, PTL DEF RedeemSpec
<1>4. DecisionSpec => []DecisionTypeOK
  <2>1. DecisionInv => DecisionTypeOK
    BY DEF DecisionInv
  <2>. QED
    BY <2>1, DecisionStarts, DecisionStep, PTL DEF DecisionSpec
<1>5. ErasureSpec => []ErasureTypeOK
  <2>1. ErasureInv => ErasureTypeOK
    BY DEF ErasureInv
  <2>. QED
    BY <2>1, ErasureStarts, ErasureStep, PTL DEF ErasureSpec
<1>6. CorrectionSpec => []CorrectionTypeOK
  BY HistoryIsBounded
<1>7. OfficeSpec => [](part \in OfficeParts)
  <2>1. OfficeInit => part \in OfficeParts
    BY DEF OfficeInit
  <2>2. part \in OfficeParts /\ [OfficeNext]_officeVars => (part \in OfficeParts)'
    BY DEF OfficeNext, officeVars
  <2>. QED
    BY <2>1, <2>2, PTL DEF OfficeSpec
<1>8. /\ part \in OfficeParts
      /\ BillingTypeOK /\ TeamTypeOK /\ ImportTypeOK /\ NoticeTypeOK /\ RatingTypeOK /\ GrowthTypeOK
      /\ CycleTypeOK /\ RedeemTypeOK /\ CorrectionTypeOK /\ DecisionTypeOK /\ ErasureTypeOK
      => OfficeTypeOK
  BY DEF OfficeParts, OfficeTypeOK
<1>. QED
  BY <1>1, <1>2, <1>3, <1>4, <1>5, <1>6, <1>7, <1>8, PartsOfTheOffice, BillingTypeCorrect, TeamTypes, ImportTypes,
     NoticeTypesHold, RatingTypesHold, PTL

\* What was computed and shown once stays: the pair of raters an agreement was
\* computed on (validation/agreement.js) and a growth snapshot (growth/service.js).
THEOREM WhatWasShownStays == OfficeSpec => ShownStays
BY PartsOfTheOffice, AgreementPairsStay, SnapshotsStay, PTL DEF ShownStays

\* What the parts promise of every state; a closed contract has stopped its pool
\* where a close is not cut short.
OfficeSound ==
    /\ ActivationSound /\ TeamSound /\ ImportSound /\ NoticesSound /\ RatingSound
    /\ SnapshotsAreOfApprovedForms /\ CycleEndsWithItsAssignment /\ RedeemSound
    /\ CorrectionSound /\ DecisionSound /\ ErasureSound
    /\ "close" \notin MayFail => ClosedContractStopsItsPool

\* Every state invariant of a part, its types apart, holds of the office as a whole.
THEOREM OfficeIsSound == OfficeSpec => []OfficeSound
<1>1. OfficeSpec => [](/\ ActivationSound /\ TeamSound /\ ImportSound /\ NoticesSound /\ RatingSound
                       /\ SnapshotsAreOfApprovedForms /\ CycleEndsWithItsAssignment /\ RedeemSound
                       /\ CorrectionSound /\ DecisionSound /\ ErasureSound)
  BY PartsOfTheOffice, ActivationsAreSound, TeamIsSound, ImportIsSound, NoticesAreSound, QueueIsSound, SnapshotsAreComparable,
     CyclesEndOnceAssignmentsHave, RedemptionsAreSound, CorrectionsAreSound, DecisionsAreSound, ErasuresAreSound, PTL
<1>2. OfficeSpec => []("close" \notin MayFail => ClosedContractStopsItsPool)
  <2>1. CASE "close" \notin MayFail
    <3>1. BillingSpec => []ClosedContractStopsItsPool
      BY <2>1, ClosedContractsStop
    <3>2. ClosedContractStopsItsPool => ("close" \notin MayFail => ClosedContractStopsItsPool)
      OBVIOUS
    <3>. QED
      BY <3>1, <3>2, PartsOfTheOffice, PTL
  <2>2. CASE "close" \in MayFail
    <3>1. "close" \notin MayFail => ClosedContractStopsItsPool
      BY <2>2
    <3>. QED
      BY <3>1, PTL
  <2>. QED
    BY <2>1, <2>2
<1>. QED
  BY <1>1, <1>2, PTL DEF OfficeSound

==============================================================================
