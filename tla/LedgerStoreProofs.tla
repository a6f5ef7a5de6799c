-------------------------- MODULE LedgerStoreProofs --------------------------
(***************************************************************************)
(* Facts about the repository operations of LedgerStore, for every pool,   *)
(* quantity and session.  The modules that drive the repository prove their *)
(* own steps from these lemmas; what they have to bring is that the session *)
(* of a new reservation has no seat yet, which the repository itself does   *)
(* not check.                                                               *)
(***************************************************************************)
EXTENDS LedgerStore, FiniteSetTheorems, TLAPS

\* The repository never holds two rows under one idempotency key.
KeysAreUnique == \A r, q \in rows : r.key = q.key => r = q

\* Every reservation was keyed by its own user and an item.
ReservedKeyed == \A r \in rows : r.event = "RESERVED" => \E i \in Items : r.key = ReserveKey(r.user, i)

\* A closing row is keyed by its event and seat.
ClosingKeyed == \A r \in rows : r.event # "RESERVED" => r.key = CloseKey(r.event, r.pool, r.session)

StoreInv ==
    /\ StoreTypeOK
    /\ KeysAreUnique
    /\ ReservedKeyed
    /\ ClosingKeyed
    /\ OneOutcomePerSeat
    /\ HeldCountsSeats

-----------------------------------------------------------------------------
\* The seats a pool counts are finitely many, so their number is a natural.
LEMMA HeldSeatsFinite ==
    ASSUME NEW p \in Pools
    PROVE  IsFiniteSet(HeldSeats(p)) /\ Cardinality(HeldSeats(p)) \in Nat
<1>1. HeldSeats(p) \subseteq Sessions
  BY DEF HeldSeats
<1>2. IsFiniteSet(HeldSeats(p))
  BY <1>1, FS_Subset, StoreAssumption
<1> QED
  BY <1>2, FS_CardinalityType

\* An empty repository satisfies everything the store promises.
LEMMA StoreStarts ==
    ASSUME NEW st \in [Pools -> PoolStatuses], StoreInit(st)
    PROVE  StoreInv
<1>1. \A p \in Pools : HeldSeats(p) = {}
  BY DEF StoreInit, HeldSeats, Reserved
<1>2. HeldCountsSeats
  BY <1>1, FS_EmptySet, StoreAssumption DEF HeldCountsSeats, StoreInit
<1>3. StoreTypeOK /\ KeysAreUnique /\ ReservedKeyed /\ ClosingKeyed /\ OneOutcomePerSeat
  BY DEF StoreInit, StoreTypeOK, KeysAreUnique, ReservedKeyed, ClosingKeyed, OneOutcomePerSeat
<1> QED
  BY <1>2, <1>3 DEF StoreInv

\* A write of the status alone changes nothing the store promises.
LEMMA StatusOnly ==
    ASSUME StoreInv, UNCHANGED <<rows, held>>, poolStatus' \in [Pools -> PoolStatuses]
    PROVE  StoreInv'
<1>1. rows' = rows /\ held' = held
  OBVIOUS
<1>2. \A p \in Pools : HeldSeats(p)' = HeldSeats(p)
  BY <1>1 DEF HeldSeats, Reserved, IsReleased, Closing
<1>3. HeldCountsSeats'
  BY <1>1, <1>2 DEF StoreInv, HeldCountsSeats
<1>4. OneOutcomePerSeat'
  BY <1>1 DEF StoreInv, OneOutcomePerSeat, Reserved
<1> QED
  BY <1>1, <1>3, <1>4 DEF StoreInv, StoreTypeOK, KeysAreUnique, ReservedKeyed, ClosingKeyed

-----------------------------------------------------------------------------
\* A reservation of a seat that was never reserved takes exactly one more seat.
LEMMA ReservedKeepsStore ==
    ASSUME StoreInv, NEW p \in Pools, NEW u \in Users, NEW s \in Sessions, NEW i \in Items,
           AppendReserved(p, u, s, ReserveKey(u, i)), Reserved(p, s) = {}
    PROVE  /\ StoreInv'
           /\ HeldSeats(p)' = HeldSeats(p) \cup {s}
           /\ \A q \in Pools : q # p => HeldSeats(q)' = HeldSeats(q)
<1> DEFINE row == [pool |-> p, user |-> u, session |-> s, event |-> "RESERVED", key |-> ReserveKey(u, i)]
<1>1. rows' = rows \cup {row} /\ held' = [held EXCEPT ![p] = @ + 1] /\ UNCHANGED poolStatus /\ Remaining(p)
  BY DEF AppendReserved, Insert
<1>2. /\ row \in Rows /\ row.pool = p /\ row.user = u /\ row.session = s
      /\ row.event = "RESERVED" /\ row.key = ReserveKey(u, i)
  BY DEF Rows, Keys
<1> HIDE DEF row
<1>3. Closing(p, s) = {}
  BY DEF StoreInv, OneOutcomePerSeat, Closing
<1>4. \A q \in Pools, t \in Sessions :
        Reserved(q, t)' = IF q = p /\ t = s THEN Reserved(q, t) \cup {row} ELSE Reserved(q, t)
  BY <1>1, <1>2 DEF Reserved
<1>5. \A q \in Pools, t \in Sessions : Closing(q, t)' = Closing(q, t)
  BY <1>1, <1>2 DEF Closing
<1>6. HeldSeats(p)' = HeldSeats(p) \cup {s} /\ s \notin HeldSeats(p)
  BY <1>3, <1>4, <1>5 DEF HeldSeats, IsReleased
<1>7. \A q \in Pools : q # p => HeldSeats(q)' = HeldSeats(q)
  BY <1>4, <1>5 DEF HeldSeats, IsReleased
<1>8. Cardinality(HeldSeats(p)') = Cardinality(HeldSeats(p)) + 1
  BY <1>6, HeldSeatsFinite, FS_AddElement
<1>9. HeldCountsSeats'
  <2> SUFFICES ASSUME NEW q \in Pools
               PROVE  held'[q] = Cardinality(HeldSeats(q)') /\ held'[q] <= Quantity[q]
    BY DEF HeldCountsSeats
  <2>1. held \in [Pools -> Nat] /\ held[q] = Cardinality(HeldSeats(q)) /\ held[q] <= Quantity[q]
    BY DEF StoreInv, StoreTypeOK, HeldCountsSeats
  <2>2. CASE q = p
    BY <1>1, <1>8, <2>1, <2>2, StoreAssumption DEF Remaining
  <2>3. CASE q # p
    BY <1>1, <1>7, <2>1, <2>3
  <2> QED
    BY <2>2, <2>3
<1>10. StoreTypeOK'
  BY <1>1, <1>2 DEF StoreInv, StoreTypeOK
<1>11. KeysAreUnique'
  BY <1>1, <1>2 DEF StoreInv, KeysAreUnique, AppendReserved, Keyed
<1>12. ReservedKeyed' /\ ClosingKeyed'
  BY <1>1, <1>2 DEF StoreInv, ReservedKeyed, ClosingKeyed
<1>13. OneOutcomePerSeat'
  BY <1>1, <1>2 DEF StoreInv, OneOutcomePerSeat, Reserved
<1> QED
  BY <1>6, <1>7, <1>9, <1>10, <1>11, <1>12, <1>13 DEF StoreInv

\* Consuming an open seat changes no count: the seat is held before and after.
LEMMA ConsumedKeepsStore ==
    ASSUME StoreInv, NEW p \in Pools, NEW u \in Users, NEW s \in Sessions, AppendConsumed(p, u, s)
    PROVE  StoreInv' /\ \A q \in Pools : HeldSeats(q)' = HeldSeats(q)
<1> DEFINE row == [pool |-> p, user |-> u, session |-> s, event |-> "CONSUMED", key |-> CloseKey("CONSUMED", p, s)]
<1>1. rows' = rows \cup {row} /\ UNCHANGED <<held, poolStatus>> /\ MayClose(p, u, s)
  BY DEF AppendConsumed, Insert
<1>2. /\ row \in Rows /\ row.pool = p /\ row.user = u /\ row.session = s
      /\ row.event = "CONSUMED" /\ row.key = CloseKey("CONSUMED", p, s)
  BY DEF Rows, Keys
<1> HIDE DEF row
<1>3. \A q \in Pools, t \in Sessions : Reserved(q, t)' = Reserved(q, t) /\ IsReleased(q, t)' = IsReleased(q, t)
  BY <1>1, <1>2 DEF Reserved, IsReleased, Closing
<1>4. \A q \in Pools : HeldSeats(q)' = HeldSeats(q)
  BY <1>3 DEF HeldSeats
<1>5. HeldCountsSeats'
  BY <1>1, <1>4 DEF StoreInv, HeldCountsSeats
<1>6. StoreTypeOK'
  BY <1>1, <1>2 DEF StoreInv, StoreTypeOK
<1>7. KeysAreUnique'
  BY <1>1, <1>2 DEF StoreInv, KeysAreUnique, ReservedKeyed, ClosingKeyed, MayClose, Closing, CloseKey, ReserveKey, StoreTypeOK, Rows
<1>8. ReservedKeyed' /\ ClosingKeyed'
  BY <1>1, <1>2 DEF StoreInv, ReservedKeyed, ClosingKeyed
<1>9. OneOutcomePerSeat'
  BY <1>1, <1>2 DEF StoreInv, OneOutcomePerSeat, Reserved, MayClose, Closing
<1> QED
  BY <1>4, <1>5, <1>6, <1>7, <1>8, <1>9 DEF StoreInv

\* Releasing an open seat gives back exactly that seat, and the counter's floor
\* at zero never cuts in.
LEMMA ReleasedKeepsStore ==
    ASSUME StoreInv, NEW p \in Pools, NEW u \in Users, NEW s \in Sessions, AppendReleased(p, u, s)
    PROVE  /\ StoreInv'
           /\ HeldSeats(p)' = HeldSeats(p) \ {s}
           /\ \A q \in Pools : q # p => HeldSeats(q)' = HeldSeats(q)
<1> DEFINE row == [pool |-> p, user |-> u, session |-> s, event |-> "RELEASED", key |-> CloseKey("RELEASED", p, s)]
<1>1. /\ rows' = rows \cup {row} /\ UNCHANGED poolStatus /\ MayClose(p, u, s)
      /\ held' = [held EXCEPT ![p] = IF @ > 0 THEN @ - 1 ELSE 0]
  BY DEF AppendReleased, Insert
<1>2. /\ row \in Rows /\ row.pool = p /\ row.user = u /\ row.session = s
      /\ row.event = "RELEASED" /\ row.key = CloseKey("RELEASED", p, s)
  BY DEF Rows, Keys
<1> HIDE DEF row
<1>3. \A q \in Pools, t \in Sessions : Reserved(q, t)' = Reserved(q, t)
  BY <1>1, <1>2 DEF Reserved
<1>4. \A q \in Pools, t \in Sessions : IsReleased(q, t)' = (IsReleased(q, t) \/ (q = p /\ t = s))
  BY <1>1, <1>2 DEF IsReleased, Closing
<1>5. HeldSeats(p)' = HeldSeats(p) \ {s} /\ s \in HeldSeats(p)
  BY <1>1, <1>3, <1>4 DEF HeldSeats, MayClose, IsReleased
<1>6. \A q \in Pools : q # p => HeldSeats(q)' = HeldSeats(q)
  BY <1>3, <1>4 DEF HeldSeats
<1>7. Cardinality(HeldSeats(p)') = Cardinality(HeldSeats(p)) - 1 /\ Cardinality(HeldSeats(p)) > 0
  <2>1. Cardinality(HeldSeats(p)') = Cardinality(HeldSeats(p)) - 1
    BY <1>5, HeldSeatsFinite, FS_RemoveElement
  <2>2. IsFiniteSet(HeldSeats(p)') /\ Cardinality(HeldSeats(p)') \in Nat
    BY <1>5, HeldSeatsFinite, FS_RemoveElement, FS_CardinalityType
  <2> QED
    BY <2>1, <2>2, HeldSeatsFinite
<1>8. HeldCountsSeats'
  <2> SUFFICES ASSUME NEW q \in Pools
               PROVE  held'[q] = Cardinality(HeldSeats(q)') /\ held'[q] <= Quantity[q]
    BY DEF HeldCountsSeats
  <2>1. held \in [Pools -> Nat] /\ held[q] = Cardinality(HeldSeats(q)) /\ held[q] <= Quantity[q]
    BY DEF StoreInv, StoreTypeOK, HeldCountsSeats
  <2>2. CASE q = p
    BY <1>1, <1>7, <2>1, <2>2, StoreAssumption
  <2>3. CASE q # p
    BY <1>1, <1>6, <2>1, <2>3
  <2> QED
    BY <2>2, <2>3
<1>9. StoreTypeOK'
  BY <1>1, <1>2 DEF StoreInv, StoreTypeOK
<1>10. KeysAreUnique'
  BY <1>1, <1>2 DEF StoreInv, KeysAreUnique, ReservedKeyed, ClosingKeyed, MayClose, Closing, CloseKey, ReserveKey, StoreTypeOK, Rows
<1>11. ReservedKeyed' /\ ClosingKeyed'
  BY <1>1, <1>2 DEF StoreInv, ReservedKeyed, ClosingKeyed
<1>12. OneOutcomePerSeat'
  BY <1>1, <1>2 DEF StoreInv, OneOutcomePerSeat, Reserved, MayClose, Closing
<1> QED
  BY <1>5, <1>6, <1>8, <1>9, <1>10, <1>11, <1>12 DEF StoreInv

=============================================================================
