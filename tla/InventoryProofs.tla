------------------------- MODULE InventoryProofs -------------------------
(***************************************************************************)
(* Proofs about Inventory, for every set of variants, warehouses,          *)
(* reservations and transfers and every width of the quantity columns.     *)
(***************************************************************************)
EXTENDS Inventory, FiniteSetTheorems, TLAPS

-----------------------------------------------------------------------------
(***************************************************************************)
(* Units of a reservation table                                            *)
(***************************************************************************)

\* UnitsIn for an arbitrary reservation table rs: the lemmas speak of the table
\* before and after a step.
UnitsOf(rs, status, i) ==
    {u \in ReservationIds \X Quantity :
        /\ rs[u[1]].status = status
        /\ rs[u[1]].item = i
        /\ u[2] <= rs[u[1]].quantity}

\* The row counts towards the units of item i with this status.
Counts(row, status, i) == row.status = status /\ row.item = i

Settled == {"released", "committed"}
Stored == {"active"} \union Settled

\* What a stored row looks like, read off its type.
LEMMA StoredRow ==
    ASSUME NEW row \in ReservationRow, row.status # "none"
    PROVE  /\ row.item \in Items
           /\ row.quantity \in Quantity
           /\ row.status \in Stored
  BY DEF ReservationRow, Stored, Settled

LEMMA QuantityIsNat == Quantity \subseteq Nat /\ IsFiniteSet(Quantity)
  BY MaxIntAssumption, FS_Interval DEF Quantity

\* A row of quantity q has q units.
LEMMA UnitsOfOneRow ==
    ASSUME NEW r, NEW q \in Nat
    PROVE  /\ IsFiniteSet({r} \X (1..q))
           /\ Cardinality({r} \X (1..q)) = q
<1>1. IsFiniteSet({r}) /\ Cardinality({r}) = 1
  BY FS_Singleton
<1>2. IsFiniteSet(1..q) /\ Cardinality(1..q) = q
  BY FS_Interval
<1>3. /\ IsFiniteSet({r} \X (1..q))
      /\ Cardinality({r} \X (1..q)) = Cardinality({r}) * Cardinality(1..q)
  BY <1>1, <1>2, FS_Product, Zenon
<1>4. Cardinality({r} \X (1..q)) = 1 * q
  BY <1>1, <1>2, <1>3, Zenon
<1>5. 1 * q = q
  OBVIOUS
<1>6. QED
  BY <1>3, <1>4, <1>5, Zenon

LEMMA UnitsAreFinite ==
    ASSUME NEW rs, NEW status, NEW i
    PROVE  /\ IsFiniteSet(UnitsOf(rs, status, i))
           /\ Cardinality(UnitsOf(rs, status, i)) \in Nat
<1>1. IsFiniteSet(ReservationIds \X Quantity)
  BY RowsAssumption, QuantityIsNat, FS_Product
<1>2. UnitsOf(rs, status, i) \subseteq ReservationIds \X Quantity
  BY DEF UnitsOf
<1>3. QED
  BY <1>1, <1>2, FS_Subset, FS_CardinalityType

\* One row is part of the whole: its quantity is at most the sum.
LEMMA RowWithinSum ==
    ASSUME NEW rs \in [ReservationIds -> ReservationRow],
           NEW r \in ReservationIds,
           NEW status, NEW i, status # "none",
           Counts(rs[r], status, i)
    PROVE  rs[r].quantity <= Cardinality(UnitsOf(rs, status, i))
<1> DEFINE q == rs[r].quantity
<1>1. q \in Quantity
  BY StoredRow DEF Counts
<1>2. {r} \X (1..q) \subseteq UnitsOf(rs, status, i)
  <2>1. ASSUME NEW n \in 1..q
        PROVE  <<r, n>> \in UnitsOf(rs, status, i)
    BY <1>1, MaxIntAssumption DEF UnitsOf, Counts, Quantity
  <2>2. QED
    BY <2>1
<1>3. q \in Nat
  BY <1>1, QuantityIsNat
<1>4. IsFiniteSet(UnitsOf(rs, status, i))
  BY UnitsAreFinite
<1>5. Cardinality({r} \X (1..q)) <= Cardinality(UnitsOf(rs, status, i))
  <2> HIDE DEF q
  <2> QED
    BY <1>2, <1>4, FS_Subset
<1>6. Cardinality({r} \X (1..q)) = q
  <2> HIDE DEF q
  <2> QED
    BY <1>3, UnitsOfOneRow
<1>7. QED
  BY <1>5, <1>6

\* The tables before and after a step that writes at most row r.
Differ(rs, rs2, r) == \A s \in ReservationIds : s # r => rs2[s] = rs[s]

\* When row r starts to count, the sum grows by its new quantity.
LEMMA CountIn ==
    ASSUME NEW rs \in [ReservationIds -> ReservationRow],
           NEW rs2 \in [ReservationIds -> ReservationRow],
           NEW r \in ReservationIds, Differ(rs, rs2, r),
           NEW status, NEW i, status # "none",
           ~Counts(rs[r], status, i),
           Counts(rs2[r], status, i)
    PROVE  Cardinality(UnitsOf(rs2, status, i))
               = Cardinality(UnitsOf(rs, status, i)) + rs2[r].quantity
<1> DEFINE q == rs2[r].quantity
           old == UnitsOf(rs, status, i)
           new == {r} \X (1..q)
<1>1. q \in Quantity
  BY StoredRow DEF Counts
<1>2. UnitsOf(rs2, status, i) = old \union new
  <2>1. ASSUME NEW u \in ReservationIds \X Quantity
        PROVE  u \in UnitsOf(rs2, status, i) <=> u \in old \union new
    <3>1. PICK s \in ReservationIds, n \in Quantity : u = <<s, n>>
      OBVIOUS
    <3>2. CASE s = r
      BY <1>1, <3>1, <3>2 DEF UnitsOf, Counts, Quantity
    <3>3. CASE s # r
      BY <3>1, <3>3 DEF UnitsOf, Differ
    <3>4. QED
      BY <3>2, <3>3
  <2>2. UnitsOf(rs2, status, i) \subseteq ReservationIds \X Quantity
    BY DEF UnitsOf
  <2>3. old \union new \subseteq ReservationIds \X Quantity
    BY <1>1, MaxIntAssumption DEF UnitsOf, Quantity
  <2>4. QED
    BY <2>1, <2>2, <2>3, Zenon
<1>3. old \intersect new = {}
  BY Zenon DEF UnitsOf, Counts
<1>4. q \in Nat
  BY <1>1, QuantityIsNat
<1> HIDE DEF q
<1>5. IsFiniteSet(old) /\ Cardinality(old) \in Nat
  BY UnitsAreFinite
<1>6. IsFiniteSet(new) /\ Cardinality(new) = q
  BY <1>4, UnitsOfOneRow
<1> HIDE DEF old, new
<1>7. Cardinality(old \union new)
          = Cardinality(old) + Cardinality(new) - Cardinality({})
  BY <1>3, <1>5, <1>6, FS_Union
<1>8. Cardinality(old \union new) = Cardinality(old) + q
  BY <1>4, <1>5, <1>6, <1>7, FS_EmptySet
<1>9. QED
  BY <1>2, <1>8 DEF q, old

\* When row r stops counting, the sum shrinks by its old quantity.
LEMMA CountOut ==
    ASSUME NEW rs \in [ReservationIds -> ReservationRow],
           NEW rs2 \in [ReservationIds -> ReservationRow],
           NEW r \in ReservationIds, Differ(rs, rs2, r),
           NEW status, NEW i, status # "none",
           Counts(rs[r], status, i),
           ~Counts(rs2[r], status, i)
    PROVE  Cardinality(UnitsOf(rs2, status, i))
               = Cardinality(UnitsOf(rs, status, i)) - rs[r].quantity
<1>1. Differ(rs2, rs, r)
  BY DEF Differ
<1>2. Cardinality(UnitsOf(rs, status, i))
          = Cardinality(UnitsOf(rs2, status, i)) + rs[r].quantity
  BY <1>1, CountIn
<1>3. rs[r].quantity \in Nat
  BY StoredRow, QuantityIsNat DEF Counts
<1>4. Cardinality(UnitsOf(rs2, status, i)) \in Nat
  BY UnitsAreFinite
<1>5. QED
  BY <1>2, <1>3, <1>4

\* When row r counts neither before nor after, the units are the same.
LEMMA CountSame ==
    ASSUME NEW rs, NEW rs2,
           NEW r \in ReservationIds, Differ(rs, rs2, r),
           NEW status, NEW i,
           ~Counts(rs[r], status, i),
           ~Counts(rs2[r], status, i)
    PROVE  UnitsOf(rs2, status, i) = UnitsOf(rs, status, i)
<1>1. ASSUME NEW u \in ReservationIds \X Quantity
      PROVE  u \in UnitsOf(rs2, status, i) <=> u \in UnitsOf(rs, status, i)
  BY DEF UnitsOf, Counts, Differ
<1>2. QED
  BY <1>1, Zenon DEF UnitsOf

-----------------------------------------------------------------------------
(***************************************************************************)
(* The inductive invariant                                                 *)
(***************************************************************************)

\* The first half of ReservedStockIsOnHand; the second half follows from it
\* and ReservedIsSumOfActive.
ReservedWithinOnHand == \A i \in Items : reserved[i] <= onHand[i]

\* Create may set onHand and opening of a row it inserts because an item
\* without a row has neither.
NoRowNoStock == \A i \in Items \ rows : onHand[i] = 0 /\ opening[i] = 0

IInv ==
    /\ TypeOK
    /\ ReservedIsSumOfActive
    /\ ReservedWithinOnHand
    /\ OnHandReconciles
    /\ NoRowNoStock

LEMMA UnitsInIsUnitsOf ==
    ASSUME NEW status, NEW i
    PROVE  /\ UnitsIn(status, i) = UnitsOf(reservations, status, i)
           /\ UnitsIn(status, i)' = UnitsOf(reservations', status, i)
  BY DEF UnitsIn, UnitsOf

\* A step that leaves the reservations alone leaves both sums alone.
LEMMA SumsUnchanged ==
    ASSUME UNCHANGED reservations, NEW status, NEW i
    PROVE  Cardinality(UnitsIn(status, i))' = Cardinality(UnitsIn(status, i))
  BY DEF UnitsIn

LEMMA SumsAreNat ==
    ASSUME NEW status, NEW i
    PROVE  Cardinality(UnitsIn(status, i)) \in Nat
  BY UnitsInIsUnitsOf, UnitsAreFinite

\* What reserve, release and commit have in common: row r moves on, and each
\* sum over an item changes by what r adds to it and takes from it.
Contribution(row, status, i) ==
    IF Counts(row, status, i) THEN row.quantity ELSE 0

LEMMA SumsAfterRow ==
    ASSUME NEW r \in ReservationIds,
           reservations \in [ReservationIds -> ReservationRow],
           reservations' \in [ReservationIds -> ReservationRow],
           Differ(reservations, reservations', r),
           reservations'[r].status # reservations[r].status,
           NEW status \in Stored, NEW i
    PROVE  Cardinality(UnitsIn(status, i))'
               = Cardinality(UnitsIn(status, i))
                 + Contribution(reservations'[r], status, i)
                 - Contribution(reservations[r], status, i)
<1> DEFINE old == reservations[r]
           new == reservations'[r]
<1>1. status # "none"
  BY DEF Stored, Settled
<1>2. Cardinality(UnitsOf(reservations, status, i)) \in Nat
  BY UnitsAreFinite
<1>3. Counts(old, status, i) => old.quantity \in Nat
  BY <1>1, StoredRow, QuantityIsNat DEF Counts
<1>4. Counts(new, status, i) => new.quantity \in Nat
  BY <1>1, StoredRow, QuantityIsNat DEF Counts
<1>5. ~(Counts(old, status, i) /\ Counts(new, status, i))
  BY DEF Counts
<1>6. CASE Counts(old, status, i)
  <2>1. Cardinality(UnitsOf(reservations', status, i))
            = Cardinality(UnitsOf(reservations, status, i)) - old.quantity
    BY <1>1, <1>5, <1>6, CountOut
  <2>2. QED
    BY <2>1, <1>2, <1>3, <1>5, <1>6, UnitsInIsUnitsOf DEF Contribution
<1>7. CASE Counts(new, status, i)
  <2>1. Cardinality(UnitsOf(reservations', status, i))
            = Cardinality(UnitsOf(reservations, status, i)) + new.quantity
    BY <1>1, <1>5, <1>7, CountIn
  <2>2. QED
    BY <2>1, <1>2, <1>4, <1>5, <1>7, UnitsInIsUnitsOf DEF Contribution
<1>8. CASE ~Counts(old, status, i) /\ ~Counts(new, status, i)
  <2>1. UnitsOf(reservations', status, i) = UnitsOf(reservations, status, i)
    BY <1>8, CountSame
  <2>2. QED
    BY <2>1, <1>2, <1>8, UnitsInIsUnitsOf DEF Contribution
<1>9. QED
  BY <1>6, <1>7, <1>8

\* An active reservation's quantity is reserved, and on hand.
LEMMA ActiveWithinReserved ==
    ASSUME IInv, NEW r \in ReservationIds, reservations[r].status = "active"
    PROVE  /\ reservations[r].item \in Items
           /\ reservations[r].quantity \in 1..MaxInt
           /\ reservations[r].quantity <= reserved[reservations[r].item]
           /\ reservations[r].quantity <= onHand[reservations[r].item]
<1> DEFINE i == reservations[r].item
           q == reservations[r].quantity
<1>1. i \in Items /\ q \in Quantity
  BY StoredRow DEF IInv, TypeOK
<1>2. q <= Cardinality(UnitsIn("active", i))
  BY RowWithinSum, UnitsInIsUnitsOf DEF IInv, TypeOK, Counts
<1>3. reserved[i] = Cardinality(UnitsIn("active", i)) /\ reserved[i] <= onHand[i]
  BY <1>1 DEF IInv, ReservedIsSumOfActive, ReservedWithinOnHand
<1>4. q \in 1..MaxInt /\ reserved[i] \in 0..MaxInt /\ onHand[i] \in 0..MaxInt
  BY <1>1 DEF IInv, TypeOK, Quantity
<1>5. QED
  BY <1>1, <1>2, <1>3, <1>4, MaxIntAssumption

LEMMA StoredTransfer ==
    ASSUME TypeOK, NEW t \in TransferIds, transfers[t].status # "none"
    PROVE  /\ transfers[t].from \in Warehouses
           /\ transfers[t].to \in Warehouses
           /\ transfers[t].lines \in [Variants -> 0..MaxInt]
           /\ \A w \in Warehouses, i \in Items : Moves(t, w, i) \in 0..MaxInt
<1>1. transfers[t] \in TransferRow
  BY DEF TypeOK
<1>2. /\ transfers[t].from \in Warehouses
      /\ transfers[t].to \in Warehouses
      /\ transfers[t].lines \in [Variants -> 0..MaxInt]
  BY <1>1 DEF TransferRow
<1>3. \A w \in Warehouses, i \in Items : Moves(t, w, i) \in 0..MaxInt
  BY <1>2, MaxIntAssumption DEF Moves, Items
<1>4. QED
  BY <1>2, <1>3

-----------------------------------------------------------------------------
(***************************************************************************)
(* One lemma per action                                                    *)
(***************************************************************************)

LEMMA InitIInv == Init => IInv
<1> SUFFICES ASSUME Init PROVE IInv
  OBVIOUS
<1>1. TypeOK
  BY MaxIntAssumption DEF Init, TypeOK, ReservationRow, TransferRow
<1>2. ASSUME NEW status \in Stored, NEW i
      PROVE  Cardinality(UnitsIn(status, i)) = 0
  <2>1. UnitsIn(status, i) = {}
    BY DEF Init, UnitsIn, Stored, Settled
  <2>2. QED
    BY <2>1, FS_EmptySet
<1>3. ReservedIsSumOfActive
  BY <1>2 DEF Init, ReservedIsSumOfActive, Stored
<1>4. OnHandReconciles
  BY <1>2 DEF Init, OnHandReconciles, Stored, Settled
<1>5. ReservedWithinOnHand /\ NoRowNoStock
  BY DEF Init, ReservedWithinOnHand, NoRowNoStock
<1>6. QED
  BY <1>1, <1>3, <1>4, <1>5 DEF IInv

LEMMA CreateStep ==
    ASSUME IInv, NEW i \in Items, NEW q \in 0..MaxInt, Create(i, q)
    PROVE  IInv'
<1>1. TypeOK'
  BY DEF IInv, TypeOK, Create
<1>2. ReservedIsSumOfActive'
  BY SumsUnchanged DEF IInv, ReservedIsSumOfActive, Create
<1>3. onHand[i] = 0 /\ opening[i] = 0
  BY DEF IInv, NoRowNoStock, Create
<1>4. ReservedWithinOnHand'
  BY <1>3, MaxIntAssumption DEF IInv, TypeOK, ReservedWithinOnHand, Create
<1>5. OnHandReconciles'
  <2> SUFFICES ASSUME NEW j \in Items
               PROVE  onHand'[j] = opening'[j] + adjustments'[j].manual
                                   + adjustments'[j].transfer
                                   - Cardinality(UnitsIn("committed", j))'
    BY DEF OnHandReconciles
  <2>1. Cardinality(UnitsIn("committed", j))'
            = Cardinality(UnitsIn("committed", j))
    BY SumsUnchanged DEF Create
  <2>2. onHand[j] = opening[j] + adjustments[j].manual
                    + adjustments[j].transfer
                    - Cardinality(UnitsIn("committed", j))
    BY DEF IInv, OnHandReconciles
  <2>3. /\ adjustments' = adjustments
        /\ onHand'[j] - onHand[j] = opening'[j] - opening[j]
    BY <1>3, MaxIntAssumption DEF IInv, TypeOK, Create
  <2>4. /\ onHand[j] \in Int /\ onHand'[j] \in Int
        /\ opening[j] \in Int /\ opening'[j] \in Int
        /\ adjustments[j].manual \in Int /\ adjustments[j].transfer \in Int
    BY <1>1 DEF IInv, TypeOK
  <2>5. QED
    BY <2>1, <2>2, <2>3, <2>4, SumsAreNat
<1>6. NoRowNoStock'
  BY DEF IInv, TypeOK, NoRowNoStock, Create
<1>7. QED
  BY <1>1, <1>2, <1>4, <1>5, <1>6 DEF IInv

LEMMA AdjustStep ==
    ASSUME IInv, NEW i \in Items, NEW delta \in -MaxInt..MaxInt,
           Adjust(i, delta)
    PROVE  IInv'
<1>1. TypeOK'
  BY MaxIntAssumption DEF IInv, TypeOK, Adjust
<1>2. ReservedIsSumOfActive'
  BY SumsUnchanged DEF IInv, ReservedIsSumOfActive, Adjust
<1>3. ReservedWithinOnHand'
  BY DEF IInv, TypeOK, ReservedWithinOnHand, Adjust
<1>4. OnHandReconciles'
  <2> SUFFICES ASSUME NEW j \in Items
               PROVE  onHand'[j] = opening'[j] + adjustments'[j].manual
                                   + adjustments'[j].transfer
                                   - Cardinality(UnitsIn("committed", j))'
    BY DEF OnHandReconciles
  <2>1. Cardinality(UnitsIn("committed", j))'
            = Cardinality(UnitsIn("committed", j))
    BY SumsUnchanged DEF Adjust
  <2>2. onHand[j] = opening[j] + adjustments[j].manual
                    + adjustments[j].transfer
                    - Cardinality(UnitsIn("committed", j))
    BY DEF IInv, OnHandReconciles
  <2>3. /\ opening'[j] = opening[j]
        /\ adjustments'[j].transfer = adjustments[j].transfer
        /\ onHand'[j] - onHand[j]
               = adjustments'[j].manual - adjustments[j].manual
    BY MaxIntAssumption DEF IInv, TypeOK, Adjust
  <2>4. /\ onHand[j] \in Int /\ onHand'[j] \in Int /\ opening[j] \in Int
        /\ adjustments[j].manual \in Int /\ adjustments'[j].manual \in Int
        /\ adjustments[j].transfer \in Int
    BY <1>1 DEF IInv, TypeOK
  <2>5. QED
    BY <2>1, <2>2, <2>3, <2>4, SumsAreNat
<1>5. NoRowNoStock'
  BY DEF IInv, TypeOK, NoRowNoStock, Adjust
<1>6. QED
  BY <1>1, <1>2, <1>3, <1>4, <1>5 DEF IInv

LEMMA ReserveStep ==
    ASSUME IInv, NEW r \in ReservationIds, NEW i \in Items, NEW q \in Quantity,
           Reserve(r, i, q)
    PROVE  IInv'
<1> DEFINE row == [status |-> "active", item |-> i, quantity |-> q]
<1>1. row \in ReservationRow
  BY DEF ReservationRow
<1>2. /\ reservations \in [ReservationIds -> ReservationRow]
      /\ reservations' \in [ReservationIds -> ReservationRow]
      /\ reservations'[r] = row
      /\ Differ(reservations, reservations', r)
      /\ reservations[r].status = "none"
  BY <1>1 DEF IInv, TypeOK, Reserve, Differ
<1>3. ASSUME NEW status \in Stored, NEW j \in Items
      PROVE  Cardinality(UnitsIn(status, j))'
                 = Cardinality(UnitsIn(status, j))
                   + (IF status = "active" /\ j = i THEN q ELSE 0)
  <2>1. /\ Contribution(reservations[r], status, j) = 0
        /\ Contribution(reservations'[r], status, j)
               = IF status = "active" /\ j = i THEN q ELSE 0
    BY <1>2 DEF Contribution, Counts, Stored, Settled
  <2>2. q \in Nat
    BY QuantityIsNat
  <2>3. QED
    BY <1>2, <2>1, <2>2, SumsAfterRow, SumsAreNat
<1>4. /\ q \in 1..MaxInt
      /\ reserved[i] \in 0..MaxInt /\ onHand[i] \in 0..MaxInt
      /\ reserved[i] + q <= onHand[i]
  BY MaxIntAssumption DEF IInv, TypeOK, Reserve, Available, Quantity
<1>5. /\ reserved' = [reserved EXCEPT ![i] = @ + q]
      /\ UNCHANGED <<rows, onHand, transfers, adjustments, opening>>
  BY DEF Reserve
<1>6. TypeOK'
  BY <1>2, <1>4, <1>5, MaxIntAssumption DEF IInv, TypeOK
<1>7. ReservedIsSumOfActive'
  BY <1>3, <1>5 DEF IInv, TypeOK, ReservedIsSumOfActive, Stored
<1>8. ReservedWithinOnHand'
  BY <1>4, <1>5 DEF IInv, TypeOK, ReservedWithinOnHand
<1>9. ASSUME NEW j \in Items
      PROVE  Cardinality(UnitsIn("committed", j))'
                 = Cardinality(UnitsIn("committed", j))
  BY <1>3, SumsAreNat DEF Stored, Settled
<1>10. OnHandReconciles'
  BY <1>5, <1>9 DEF IInv, OnHandReconciles
<1>11. NoRowNoStock'
  BY <1>5 DEF IInv, NoRowNoStock
<1>12. QED
  BY <1>6, <1>7, <1>8, <1>10, <1>11 DEF IInv

\* Release and commit settle an active reservation: its quantity leaves the
\* active units of its item and joins those of its new status.
LEMMA SettleSums ==
    ASSUME IInv, NEW r \in ReservationIds, NEW s \in Settled,
           reservations[r].status = "active",
           reservations' = [reservations EXCEPT ![r].status = s],
           NEW i \in Items
    PROVE  /\ reservations' \in [ReservationIds -> ReservationRow]
           /\ \A status \in Stored :
                  Cardinality(UnitsIn(status, i))' =
                      Cardinality(UnitsIn(status, i))
                      + (IF i = reservations[r].item /\ status = s
                         THEN reservations[r].quantity ELSE 0)
                      - (IF i = reservations[r].item /\ status = "active"
                         THEN reservations[r].quantity ELSE 0)
<1> DEFINE old == reservations[r]
           new == reservations'[r]
<1>1. old \in ReservationRow /\ old.status = "active"
  BY DEF IInv, TypeOK
<1>2. /\ old.item \in Items /\ old.quantity \in Quantity
      /\ old = [status |-> "active", item |-> old.item,
                quantity |-> old.quantity]
  BY <1>1 DEF ReservationRow
<1>3. new = [status |-> s, item |-> old.item, quantity |-> old.quantity]
  BY <1>2 DEF IInv, TypeOK
<1>4. new \in ReservationRow
  BY <1>2, <1>3 DEF ReservationRow, Settled
<1>5. /\ reservations \in [ReservationIds -> ReservationRow]
      /\ reservations' \in [ReservationIds -> ReservationRow]
      /\ Differ(reservations, reservations', r)
  BY <1>4 DEF IInv, TypeOK, Differ
<1>6. new.status = s /\ new.item = old.item /\ new.quantity = old.quantity
  BY <1>3
<1>7. s # "active"
  BY DEF Settled
<1>8. ASSUME NEW status \in Stored
      PROVE  Cardinality(UnitsIn(status, i))' =
                 Cardinality(UnitsIn(status, i))
                 + (IF i = old.item /\ status = s THEN old.quantity ELSE 0)
                 - (IF i = old.item /\ status = "active"
                    THEN old.quantity ELSE 0)
  <2>1. Cardinality(UnitsIn(status, i))' =
            Cardinality(UnitsIn(status, i)) + Contribution(new, status, i)
            - Contribution(old, status, i)
    BY <1>1, <1>5, <1>6, <1>7, SumsAfterRow
  <2>2. Contribution(new, status, i)
            = IF i = old.item /\ status = s THEN old.quantity ELSE 0
    BY <1>6 DEF Contribution, Counts
  <2>3. Contribution(old, status, i)
            = IF i = old.item /\ status = "active" THEN old.quantity ELSE 0
    BY <1>1 DEF Contribution, Counts
  <2>4. QED
    BY <2>1, <2>2, <2>3
<1>9. QED
  BY <1>5, <1>8

LEMMA ReleaseStep ==
    ASSUME IInv, NEW r \in ReservationIds, Release(r)
    PROVE  IInv'
<1> DEFINE i == reservations[r].item
           q == reservations[r].quantity
<1>1. /\ i \in Items /\ q \in 1..MaxInt
      /\ q <= reserved[i] /\ q <= onHand[i]
  BY ActiveWithinReserved DEF Release
<1>2. /\ reserved[i] \in 0..MaxInt
      /\ reserved' = [reserved EXCEPT ![i] = @ - q]
      /\ UNCHANGED <<rows, onHand, transfers, adjustments, opening>>
  <2>1. reserved \in [Items -> 0..MaxInt]
    BY DEF IInv, TypeOK
  <2>2. AtLeastZero(reserved[i] - q) = reserved[i] - q
    BY <1>1, <2>1, MaxIntAssumption DEF AtLeastZero
  <2>3. QED
    BY <1>1, <2>1, <2>2 DEF Release
<1>3. "released" \in Settled /\ {"active", "committed"} \subseteq Stored
  BY DEF Stored, Settled
<1>4. ASSUME NEW j \in Items
      PROVE  /\ reservations' \in [ReservationIds -> ReservationRow]
             /\ Cardinality(UnitsIn("active", j))' =
                    Cardinality(UnitsIn("active", j))
                    - (IF j = i THEN q ELSE 0)
             /\ Cardinality(UnitsIn("committed", j))' =
                    Cardinality(UnitsIn("committed", j))
  <2>1. /\ reservations[r].status = "active"
        /\ reservations' = [reservations EXCEPT ![r].status = "released"]
    BY DEF Release
  <2>2. /\ reservations' \in [ReservationIds -> ReservationRow]
        /\ \A status \in Stored :
               Cardinality(UnitsIn(status, j))' =
                   Cardinality(UnitsIn(status, j))
                   + (IF j = i /\ status = "released" THEN q ELSE 0)
                   - (IF j = i /\ status = "active" THEN q ELSE 0)
    <3>1. "released" \in Settled
      BY <1>3
    <3>2. QED
      BY <2>1, <3>1, SettleSums, Zenon
  <2>3. q \in Nat
    BY <1>1
  <2>4. /\ Cardinality(UnitsIn("active", j)) \in Nat
        /\ Cardinality(UnitsIn("committed", j)) \in Nat
    BY SumsAreNat
  <2> HIDE DEF i, q
  <2>5. Cardinality(UnitsIn("active", j))' =
            Cardinality(UnitsIn("active", j)) - (IF j = i THEN q ELSE 0)
    <3>1. Cardinality(UnitsIn("active", j))' =
              Cardinality(UnitsIn("active", j)) + 0
              - (IF j = i THEN q ELSE 0)
      BY <1>3, <2>2
    <3>2. QED
      BY <2>3, <2>4, <3>1
  <2>6. Cardinality(UnitsIn("committed", j))' =
            Cardinality(UnitsIn("committed", j))
    <3>1. Cardinality(UnitsIn("committed", j))' =
              Cardinality(UnitsIn("committed", j)) + 0 - 0
      BY <1>3, <2>2
    <3>2. QED
      BY <2>3, <2>4, <3>1
  <2>7. QED
    BY <1>3, <2>2, <2>5, <2>6
<1>5. TypeOK'
  BY <1>1, <1>2, <1>4, MaxIntAssumption DEF IInv, TypeOK
<1>6. ReservedIsSumOfActive'
  BY <1>1, <1>2, <1>4, SumsAreNat DEF IInv, TypeOK, ReservedIsSumOfActive
<1>7. ReservedWithinOnHand'
  BY <1>1, <1>2, MaxIntAssumption DEF IInv, TypeOK, ReservedWithinOnHand
<1>8. OnHandReconciles'
  BY <1>2, <1>4 DEF IInv, OnHandReconciles
<1>9. NoRowNoStock'
  BY <1>2 DEF IInv, NoRowNoStock
<1>10. QED
  BY <1>5, <1>6, <1>7, <1>8, <1>9 DEF IInv

LEMMA CommitStep ==
    ASSUME IInv, NEW r \in ReservationIds, Commit(r)
    PROVE  IInv'
<1> DEFINE i == reservations[r].item
           q == reservations[r].quantity
<1>1. /\ i \in Items /\ q \in 1..MaxInt
      /\ q <= reserved[i] /\ q <= onHand[i]
  BY ActiveWithinReserved DEF Commit
<1>2. /\ reserved[i] \in 0..MaxInt /\ onHand[i] \in 0..MaxInt
      /\ reserved' = [reserved EXCEPT ![i] = @ - q]
      /\ onHand' = [onHand EXCEPT ![i] = @ - q]
      /\ UNCHANGED <<rows, transfers, adjustments, opening>>
  <2>1. reserved \in [Items -> 0..MaxInt] /\ onHand \in [Items -> 0..MaxInt]
    BY DEF IInv, TypeOK
  <2>2. AtLeastZero(reserved[i] - q) = reserved[i] - q
    BY <1>1, <2>1, MaxIntAssumption DEF AtLeastZero
  <2>3. QED
    BY <1>1, <2>1, <2>2 DEF Commit
<1>3. "committed" \in Settled /\ {"active", "committed"} \subseteq Stored
  BY DEF Stored, Settled
<1>4. ASSUME NEW j \in Items
      PROVE  /\ reservations' \in [ReservationIds -> ReservationRow]
             /\ Cardinality(UnitsIn("active", j))' =
                    Cardinality(UnitsIn("active", j))
                    - (IF j = i THEN q ELSE 0)
             /\ Cardinality(UnitsIn("committed", j))' =
                    Cardinality(UnitsIn("committed", j))
                    + (IF j = i THEN q ELSE 0)
  <2>1. /\ reservations[r].status = "active"
        /\ reservations' = [reservations EXCEPT ![r].status = "committed"]
    BY DEF Commit
  <2>2. /\ reservations' \in [ReservationIds -> ReservationRow]
        /\ \A status \in Stored :
               Cardinality(UnitsIn(status, j))' =
                   Cardinality(UnitsIn(status, j))
                   + (IF j = i /\ status = "committed" THEN q ELSE 0)
                   - (IF j = i /\ status = "active" THEN q ELSE 0)
    <3>1. "committed" \in Settled
      BY <1>3
    <3>2. QED
      BY <2>1, <3>1, SettleSums, Zenon
  <2>3. q \in Nat
    BY <1>1
  <2>4. /\ Cardinality(UnitsIn("active", j)) \in Nat
        /\ Cardinality(UnitsIn("committed", j)) \in Nat
    BY SumsAreNat
  <2> HIDE DEF i, q
  <2>5. Cardinality(UnitsIn("active", j))' =
            Cardinality(UnitsIn("active", j)) - (IF j = i THEN q ELSE 0)
    <3>1. Cardinality(UnitsIn("active", j))' =
              Cardinality(UnitsIn("active", j)) + 0
              - (IF j = i THEN q ELSE 0)
      BY <1>3, <2>2
    <3>2. QED
      BY <2>3, <2>4, <3>1
  <2>6. Cardinality(UnitsIn("committed", j))' =
            Cardinality(UnitsIn("committed", j))
            + (IF j = i THEN q ELSE 0)
    <3>1. Cardinality(UnitsIn("committed", j))' =
              Cardinality(UnitsIn("committed", j)) + (IF j = i THEN q ELSE 0) - 0
      BY <1>3, <2>2
    <3>2. QED
      BY <2>3, <2>4, <3>1
  <2>7. QED
    BY <1>3, <2>2, <2>5, <2>6
<1>5. TypeOK'
  BY <1>1, <1>2, <1>4, MaxIntAssumption DEF IInv, TypeOK
<1>6. ReservedIsSumOfActive'
  BY <1>1, <1>2, <1>4, SumsAreNat DEF IInv, TypeOK, ReservedIsSumOfActive
<1>7. ReservedWithinOnHand'
  BY <1>1, <1>2, MaxIntAssumption DEF IInv, TypeOK, ReservedWithinOnHand
<1>8. OnHandReconciles'
  BY <1>1, <1>2, <1>4, SumsAreNat, MaxIntAssumption
     DEF IInv, TypeOK, OnHandReconciles
<1>9. i \in rows
  BY <1>1 DEF IInv, NoRowNoStock
<1>10. NoRowNoStock'
  BY <1>2, <1>9 DEF IInv, TypeOK, NoRowNoStock
<1>11. QED
  BY <1>5, <1>6, <1>7, <1>8, <1>10 DEF IInv

LEMMA CreateTransferStep ==
    ASSUME IInv, NEW t \in TransferIds, NEW from \in Warehouses,
           NEW to \in Warehouses, NEW lines \in [Variants -> 0..MaxInt],
           CreateTransfer(t, from, to, lines)
    PROVE  IInv'
<1>1. [status |-> "draft", from |-> from, to |-> to, lines |-> lines]
          \in TransferRow
  BY DEF TransferRow
<1>2. UNCHANGED <<rows, onHand, reserved, reservations, adjustments, opening>>
  BY DEF CreateTransfer
<1>3. TypeOK'
  BY <1>1, <1>2 DEF IInv, TypeOK, CreateTransfer
<1>4. ReservedIsSumOfActive' /\ OnHandReconciles'
  BY <1>2, SumsUnchanged DEF IInv, ReservedIsSumOfActive, OnHandReconciles
<1>5. ReservedWithinOnHand' /\ NoRowNoStock'
  BY <1>2 DEF IInv, ReservedWithinOnHand, NoRowNoStock
<1>6. QED
  BY <1>3, <1>4, <1>5 DEF IInv

\* A status change keeps a stored transfer well typed.
LEMMA TransferStatusType ==
    ASSUME TypeOK, NEW t \in TransferIds, transfers[t].status # "none",
           NEW s \in {"in_transit", "received", "cancelled"},
           transfers' = [transfers EXCEPT ![t].status = s]
    PROVE  transfers' \in [TransferIds -> TransferRow]
<1>1. transfers[t] \in TransferRow
  BY DEF TypeOK
<1>2. [transfers[t] EXCEPT !.status = s] \in TransferRow
  BY <1>1 DEF TransferRow
<1>3. QED
  BY <1>2 DEF TypeOK

LEMMA CancelTransferStep ==
    ASSUME IInv, NEW t \in TransferIds, CancelTransfer(t)
    PROVE  IInv'
<1>1. UNCHANGED <<rows, onHand, reserved, reservations, adjustments, opening>>
  BY DEF CancelTransfer
<1>2. transfers' \in [TransferIds -> TransferRow]
  BY TransferStatusType DEF IInv, CancelTransfer
<1>3. TypeOK'
  BY <1>1, <1>2 DEF IInv, TypeOK
<1>4. ReservedIsSumOfActive' /\ OnHandReconciles'
  BY <1>1, SumsUnchanged DEF IInv, ReservedIsSumOfActive, OnHandReconciles
<1>5. ReservedWithinOnHand' /\ NoRowNoStock'
  BY <1>1 DEF IInv, ReservedWithinOnHand, NoRowNoStock
<1>6. QED
  BY <1>3, <1>4, <1>5 DEF IInv

\* Ship and receive move stock: each item gains d[i] (negative when shipping)
\* and its transfer adjustments gain as much.
LEMMA MoveReconciles ==
    ASSUME IInv, NEW d \in [Items -> Int],
           \A i \in Items : onHand'[i] = onHand[i] + d[i],
           adjustments' = [i \in Items |->
               [adjustments[i] EXCEPT !.transfer = @ + d[i]]],
           UNCHANGED <<reservations, opening>>
    PROVE  /\ adjustments' \in [Items -> [manual : Int, transfer : Int]]
           /\ OnHandReconciles'
<1>1. adjustments \in [Items -> [manual : Int, transfer : Int]]
  BY DEF IInv, TypeOK
<1>2. adjustments' \in [Items -> [manual : Int, transfer : Int]]
  BY <1>1
<1>3. ASSUME NEW i \in Items
      PROVE  onHand'[i] = opening'[i] + adjustments'[i].manual
                          + adjustments'[i].transfer
                          - Cardinality(UnitsIn("committed", i))'
  <2>1. Cardinality(UnitsIn("committed", i))'
            = Cardinality(UnitsIn("committed", i))
    BY SumsUnchanged
  <2>2. onHand[i] = opening[i] + adjustments[i].manual
                    + adjustments[i].transfer
                    - Cardinality(UnitsIn("committed", i))
    BY DEF IInv, OnHandReconciles
  <2>3. /\ adjustments'[i].manual = adjustments[i].manual
        /\ adjustments'[i].transfer = adjustments[i].transfer + d[i]
    BY <1>1
  <2>4. /\ onHand[i] \in Int /\ opening[i] \in Int /\ d[i] \in Int
        /\ adjustments[i].manual \in Int /\ adjustments[i].transfer \in Int
    BY <1>1 DEF IInv, TypeOK
  <2>5. QED
    BY <2>1, <2>2, <2>3, <2>4, SumsAreNat
<1>4. QED
  BY <1>2, <1>3 DEF OnHandReconciles

LEMMA ShipTransferStep ==
    ASSUME IInv, NEW t \in TransferIds, ShipTransfer(t)
    PROVE  IInv'
<1> DEFINE sent(i) == Moves(t, transfers[t].from, i)
           d == [i \in Items |-> 0 - sent(i)]
<1>1. \A i \in Items : sent(i) \in 0..MaxInt
  BY StoredTransfer DEF IInv, ShipTransfer
<1>2. \A i \in Items : onHand[i] \in 0..MaxInt /\ reserved[i] \in 0..MaxInt
  BY DEF IInv, TypeOK
<1>3. ASSUME NEW i \in Items
      PROVE  /\ sent(i) > 0 => i \in rows
             /\ reserved[i] <= onHand[i] - sent(i)
             /\ onHand'[i] = onHand[i] - sent(i)
  <2>1. sent(i) > 0 => i \in rows /\ sent(i) <= onHand[i] - reserved[i]
    BY DEF ShipTransfer, Available
  <2>2. onHand'[i] = onHand[i] - sent(i)
    BY DEF ShipTransfer
  <2>3. reserved[i] <= onHand[i]
    BY DEF IInv, ReservedWithinOnHand
  <2> HIDE DEF sent
  <2>4. QED
    BY <1>1, <1>2, <2>1, <2>2, <2>3, MaxIntAssumption
<1>4. /\ onHand' = [i \in Items |-> onHand[i] - sent(i)]
      /\ UNCHANGED <<rows, reserved, reservations, opening>>
      /\ transfers[t].status = "draft"
      /\ transfers' = [transfers EXCEPT ![t].status = "in_transit"]
      /\ adjustments' = [i \in Items |->
             [adjustments[i] EXCEPT !.transfer = @ - sent(i)]]
  BY DEF ShipTransfer
<1>5. adjustments' = [i \in Items |->
          [adjustments[i] EXCEPT !.transfer = @ + d[i]]]
  <2>1. \A i \in Items :
            adjustments[i].transfer - sent(i) = adjustments[i].transfer + d[i]
    <3> HIDE DEF sent
    <3> QED
      BY <1>1 DEF IInv, TypeOK
  <2>2. QED
    BY <1>4, <2>1
<1>6. d \in [Items -> Int] /\ \A i \in Items : onHand'[i] = onHand[i] + d[i]
  <2> HIDE DEF sent
  <2> QED
    BY <1>1, <1>2, <1>3
<1> HIDE DEF sent, d
<1>7. /\ adjustments' \in [Items -> [manual : Int, transfer : Int]]
      /\ OnHandReconciles'
  BY <1>4, <1>5, <1>6, MoveReconciles
<1>8. onHand' \in [Items -> 0..MaxInt]
  BY <1>1, <1>2, <1>3, <1>4, MaxIntAssumption
<1>9. TypeOK'
  BY <1>4, <1>7, <1>8, TransferStatusType DEF IInv, TypeOK
<1>10. ReservedIsSumOfActive'
  BY <1>4, SumsUnchanged DEF IInv, ReservedIsSumOfActive
<1>11. ReservedWithinOnHand'
  BY <1>3, <1>4 DEF ReservedWithinOnHand
<1>12. NoRowNoStock'
  BY <1>1, <1>2, <1>3, <1>4 DEF IInv, NoRowNoStock
<1>13. QED
  BY <1>7, <1>9, <1>10, <1>11, <1>12 DEF IInv

LEMMA ReceiveTransferStep ==
    ASSUME IInv, NEW t \in TransferIds, ReceiveTransfer(t)
    PROVE  IInv'
<1> DEFINE got(i) == Moves(t, transfers[t].to, i)
           d == [i \in Items |-> got(i)]
<1>1. \A i \in Items : got(i) \in 0..MaxInt
  BY StoredTransfer DEF IInv, ReceiveTransfer
<1>2. \A i \in Items : onHand[i] \in 0..MaxInt /\ reserved[i] \in 0..MaxInt
  BY DEF IInv, TypeOK
<1>3. /\ onHand' = [i \in Items |-> onHand[i] + got(i)]
      /\ rows' = rows \union {i \in Items : got(i) > 0}
      /\ UNCHANGED <<reserved, reservations, opening>>
      /\ transfers[t].status = "in_transit"
      /\ transfers' = [transfers EXCEPT ![t].status = "received"]
      /\ adjustments' = [i \in Items |->
             [adjustments[i] EXCEPT !.transfer = @ + d[i]]]
      /\ \A i \in Items : onHand[i] + got(i) <= MaxInt
  BY DEF ReceiveTransfer
<1>4. d \in [Items -> Int] /\ \A i \in Items : onHand'[i] = onHand[i] + d[i]
  <2> HIDE DEF got
  <2> QED
    BY <1>1, <1>3
<1> HIDE DEF got, d
<1>5. /\ adjustments' \in [Items -> [manual : Int, transfer : Int]]
      /\ OnHandReconciles'
  BY <1>3, <1>4, MoveReconciles
<1>6. onHand' \in [Items -> 0..MaxInt]
  BY <1>1, <1>2, <1>3, MaxIntAssumption
<1>7. TypeOK'
  BY <1>3, <1>5, <1>6, TransferStatusType DEF IInv, TypeOK
<1>8. ReservedIsSumOfActive'
  BY <1>3, SumsUnchanged DEF IInv, ReservedIsSumOfActive
<1>9. ReservedWithinOnHand'
  BY <1>1, <1>2, <1>3 DEF IInv, ReservedWithinOnHand
<1>10. NoRowNoStock'
  BY <1>1, <1>2, <1>3 DEF IInv, NoRowNoStock
<1>11. QED
  BY <1>5, <1>7, <1>8, <1>9, <1>10 DEF IInv

-----------------------------------------------------------------------------
(***************************************************************************)
(* Transfers: a sum over rows counted unit by unit                         *)
(***************************************************************************)

\* The units of a quantity q[s] for each row s of S.
Box(S, q) == {u \in S \X Quantity : u[2] <= q[u[1]]}

LEMMA BoxIsFinite ==
    ASSUME NEW S, IsFiniteSet(S), NEW q
    PROVE  IsFiniteSet(Box(S, q)) /\ Cardinality(Box(S, q)) \in Nat
<1>1. IsFiniteSet(S \X Quantity)
  BY QuantityIsNat, FS_Product
<1>2. Box(S, q) \subseteq S \X Quantity
  BY DEF Box
<1>3. QED
  BY <1>1, <1>2, FS_Subset, FS_CardinalityType

\* A row's units are set apart from those of the others.
LEMMA BoxWithoutRow ==
    ASSUME NEW S, IsFiniteSet(S), NEW s \in S, NEW q \in [S -> 0..MaxInt]
    PROVE  Cardinality(Box(S, q)) = Cardinality(Box(S \ {s}, q)) + q[s]
<1> DEFINE others == Box(S \ {s}, q)
           own == {s} \X (1..q[s])
<1>1. q[s] \in 0..MaxInt
  OBVIOUS
<1>2. Box(S, q) = others \union own
  <2>1. ASSUME NEW u \in S \X Quantity
        PROVE  u \in Box(S, q) <=> u \in others \union own
    <3>1. PICK r \in S, n \in Quantity : u = <<r, n>>
      OBVIOUS
    <3>2. CASE r = s
      BY <1>1, <3>1, <3>2 DEF Box, Quantity
    <3>3. CASE r # s
      BY <3>1, <3>3 DEF Box
    <3>4. QED
      BY <3>2, <3>3
  <2>2. Box(S, q) \subseteq S \X Quantity
    BY DEF Box
  <2>3. others \union own \subseteq S \X Quantity
    BY <1>1, MaxIntAssumption DEF Box, Quantity
  <2>4. QED
    BY <2>1, <2>2, <2>3, Zenon
<1>3. others \intersect own = {}
  BY Zenon DEF Box
<1>4. q[s] \in Nat
  BY <1>1, MaxIntAssumption
<1>5. IsFiniteSet(own) /\ Cardinality(own) = q[s]
  BY <1>4, UnitsOfOneRow
<1>6. IsFiniteSet(S \ {s})
  BY FS_Difference
<1>7. IsFiniteSet(others) /\ Cardinality(others) \in Nat
  BY <1>6, BoxIsFinite
<1> HIDE DEF others, own
<1>8. Cardinality(others \union own)
          = Cardinality(others) + Cardinality(own) - Cardinality({})
  BY <1>3, <1>5, <1>7, FS_Union
<1>9. Cardinality(others \union own) = Cardinality(others) + q[s]
  BY <1>4, <1>5, <1>7, <1>8, FS_EmptySet
<1>10. QED
  BY <1>2, <1>9 DEF others

\* When one row changes, the sum changes by as much.
LEMMA BoxAfterRow ==
    ASSUME NEW S, IsFiniteSet(S), NEW s \in S,
           NEW q \in [S -> 0..MaxInt], NEW p \in [S -> 0..MaxInt],
           \A r \in S \ {s} : p[r] = q[r]
    PROVE  Cardinality(Box(S, p)) = Cardinality(Box(S, q)) + p[s] - q[s]
<1>1. Box(S \ {s}, p) = Box(S \ {s}, q)
  <2>1. ASSUME NEW u \in (S \ {s}) \X Quantity PROVE p[u[1]] = q[u[1]]
    OBVIOUS
  <2>2. QED
    BY <2>1 DEF Box
<1>2. Cardinality(Box(S \ {s}, q)) \in Nat
  BY FS_Difference, BoxIsFinite
<1>3. p[s] \in Nat /\ q[s] \in Nat
  BY MaxIntAssumption
<1>4. Cardinality(Box(S, p)) = Cardinality(Box(S \ {s}, q)) + p[s]
  BY <1>1, BoxWithoutRow
<1>5. Cardinality(Box(S, q)) = Cardinality(Box(S \ {s}, q)) + q[s]
  BY BoxWithoutRow
<1>6. QED
  BY <1>2, <1>3, <1>4, <1>5

\* What a transfer has taken out of item i, and brought into it.
Out(row, i) ==
    IF row.status \in {"in_transit", "received"} /\ i[2] = row.from
    THEN row.lines[i[1]] ELSE 0
In(row, i) ==
    IF row.status = "received" /\ i[2] = row.to THEN row.lines[i[1]] ELSE 0

LEMMA TransferQuantities ==
    ASSUME NEW row \in TransferRow, NEW i \in Items
    PROVE  Out(row, i) \in 0..MaxInt /\ In(row, i) \in 0..MaxInt
<1>1. CASE row.status \in {"in_transit", "received"}
  <2>1. row.lines \in [Variants -> 0..MaxInt] /\ i[1] \in Variants
    BY <1>1 DEF TransferRow, Items
  <2>2. QED
    BY <2>1, MaxIntAssumption DEF Out, In
<1>2. CASE row.status \notin {"in_transit", "received"}
  BY <1>2, MaxIntAssumption DEF Out, In
<1>3. QED
  BY <1>1, <1>2

LEMMA TransferUnits ==
    ASSUME NEW i \in Items
    PROVE  /\ SentUnits(i) = Box(TransferIds, [t \in TransferIds |-> Out(transfers[t], i)])
           /\ ReceivedUnits(i) = Box(TransferIds, [t \in TransferIds |-> In(transfers[t], i)])
           /\ SentUnits(i)' = Box(TransferIds, [t \in TransferIds |-> Out(transfers'[t], i)])
           /\ ReceivedUnits(i)' = Box(TransferIds, [t \in TransferIds |-> In(transfers'[t], i)])
<1>1. \A n \in Quantity : n \in Nat /\ n > 0
  BY DEF Quantity
<1>2. ASSUME NEW u \in TransferIds \X Quantity
      PROVE  /\ u \in SentUnits(i) <=> u[2] <= Out(transfers[u[1]], i)
             /\ u \in ReceivedUnits(i) <=> u[2] <= In(transfers[u[1]], i)
             /\ u \in SentUnits(i)' <=> u[2] <= Out(transfers'[u[1]], i)
             /\ u \in ReceivedUnits(i)' <=> u[2] <= In(transfers'[u[1]], i)
  BY <1>1 DEF SentUnits, ReceivedUnits, Moves, Out, In
<1>3. /\ SentUnits(i) \subseteq TransferIds \X Quantity
      /\ ReceivedUnits(i) \subseteq TransferIds \X Quantity
      /\ SentUnits(i)' \subseteq TransferIds \X Quantity
      /\ ReceivedUnits(i)' \subseteq TransferIds \X Quantity
  BY DEF SentUnits, ReceivedUnits
<1>4. QED
  BY <1>2, <1>3 DEF Box

\* A step of transfer t changes the two sums by what t moves.
LEMMA TransferMoves ==
    ASSUME NEW t \in TransferIds, NEW i \in Items,
           transfers \in [TransferIds -> TransferRow],
           transfers' \in [TransferIds -> TransferRow],
           \A s \in TransferIds \ {t} : transfers'[s] = transfers[s]
    PROVE  /\ Cardinality(SentUnits(i))' =
                  Cardinality(SentUnits(i)) + Out(transfers'[t], i) - Out(transfers[t], i)
           /\ Cardinality(ReceivedUnits(i))' =
                  Cardinality(ReceivedUnits(i)) + In(transfers'[t], i) - In(transfers[t], i)
           /\ Cardinality(SentUnits(i)) \in Nat
           /\ Cardinality(ReceivedUnits(i)) \in Nat
<1>1. PICK out : out = [s \in TransferIds |-> Out(transfers[s], i)]
  OBVIOUS
<1>2. PICK out2 : out2 = [s \in TransferIds |-> Out(transfers'[s], i)]
  OBVIOUS
<1>3. PICK in : in = [s \in TransferIds |-> In(transfers[s], i)]
  OBVIOUS
<1>4. PICK in2 : in2 = [s \in TransferIds |-> In(transfers'[s], i)]
  OBVIOUS
<1>5. /\ out \in [TransferIds -> 0..MaxInt] /\ out2 \in [TransferIds -> 0..MaxInt]
      /\ in \in [TransferIds -> 0..MaxInt] /\ in2 \in [TransferIds -> 0..MaxInt]
  BY <1>1, <1>2, <1>3, <1>4, TransferQuantities
<1>6. \A s \in TransferIds \ {t} : out2[s] = out[s] /\ in2[s] = in[s]
  BY <1>1, <1>2, <1>3, <1>4
<1>7. IsFiniteSet(TransferIds)
  BY RowsAssumption
<1>8. /\ Cardinality(Box(TransferIds, out2)) =
             Cardinality(Box(TransferIds, out)) + out2[t] - out[t]
      /\ Cardinality(Box(TransferIds, in2)) =
             Cardinality(Box(TransferIds, in)) + in2[t] - in[t]
  BY <1>5, <1>6, <1>7, BoxAfterRow
<1>9. /\ out2[t] = Out(transfers'[t], i) /\ out[t] = Out(transfers[t], i)
      /\ in2[t] = In(transfers'[t], i) /\ in[t] = In(transfers[t], i)
  BY <1>1, <1>2, <1>3, <1>4
<1>10. /\ Cardinality(Box(TransferIds, out)) \in Nat
       /\ Cardinality(Box(TransferIds, in)) \in Nat
  BY <1>7, BoxIsFinite
<1>11. /\ SentUnits(i) = Box(TransferIds, out) /\ SentUnits(i)' = Box(TransferIds, out2)
       /\ ReceivedUnits(i) = Box(TransferIds, in) /\ ReceivedUnits(i)' = Box(TransferIds, in2)
  BY <1>1, <1>2, <1>3, <1>4, TransferUnits
<1>12. QED
  BY <1>8, <1>9, <1>10, <1>11

\* A step that leaves transfers and adjustments alone.
LEMMA NothingMoves ==
    ASSUME TransfersConserveStock, UNCHANGED transfers,
           \A i \in Items : adjustments'[i].transfer = adjustments[i].transfer
    PROVE  TransfersConserveStock'
<1>1. ASSUME NEW i \in Items
      PROVE  SentUnits(i)' = SentUnits(i) /\ ReceivedUnits(i)' = ReceivedUnits(i)
  BY DEF SentUnits, ReceivedUnits, Moves
<1>2. QED
  BY <1>1 DEF TransfersConserveStock

\* A step of transfer t that adds to an item's transfer adjustments what t now
\* brings into it, less what t now takes out of it.
LEMMA TransferAdjusts ==
    ASSUME TransfersConserveStock, NEW t \in TransferIds,
           transfers \in [TransferIds -> TransferRow],
           transfers' \in [TransferIds -> TransferRow],
           \A s \in TransferIds \ {t} : transfers'[s] = transfers[s],
           \A i \in Items :
               adjustments'[i].transfer =
                   adjustments[i].transfer
                   + (In(transfers'[t], i) - In(transfers[t], i))
                   - (Out(transfers'[t], i) - Out(transfers[t], i))
    PROVE  TransfersConserveStock'
<1> SUFFICES ASSUME NEW i \in Items
             PROVE  adjustments'[i].transfer =
                        Cardinality(ReceivedUnits(i))' - Cardinality(SentUnits(i))'
  BY DEF TransfersConserveStock
<1>1. adjustments[i].transfer = Cardinality(ReceivedUnits(i)) - Cardinality(SentUnits(i))
  BY DEF TransfersConserveStock
<1>2. /\ Out(transfers[t], i) \in Int /\ Out(transfers'[t], i) \in Int
      /\ In(transfers[t], i) \in Int /\ In(transfers'[t], i) \in Int
  BY TransferQuantities
<1>3. QED
  BY <1>1, <1>2, TransferMoves

LEMMA TransferStepConserves ==
    ASSUME IInv, TransfersConserveStock, TransferNext
    PROVE  TransfersConserveStock'
<1>1. PICK t \in TransferIds :
          \/ \E from, to \in Warehouses, lines \in [Variants -> 0..MaxInt] :
                 CreateTransfer(t, from, to, lines)
          \/ ShipTransfer(t)
          \/ ReceiveTransfer(t)
          \/ CancelTransfer(t)
  BY DEF TransferNext
<1>2. transfers \in [TransferIds -> TransferRow] /\ transfers' \in [TransferIds -> TransferRow]
  <2>1. IInv'
    BY <1>1, CreateTransferStep, ShipTransferStep, ReceiveTransferStep, CancelTransferStep
  <2>2. QED
    BY <2>1 DEF IInv, TypeOK
<1>3. \A s \in TransferIds \ {t} : transfers'[s] = transfers[s]
  BY <1>1, <1>2 DEF CreateTransfer, ShipTransfer, ReceiveTransfer, CancelTransfer
<1>4. adjustments \in [Items -> [manual : Int, transfer : Int]]
  BY DEF IInv, TypeOK
<1>5. PICK old : old = transfers[t]
  OBVIOUS
<1>6. PICK new : new = transfers'[t]
  OBVIOUS
<1>7. ASSUME UNCHANGED adjustments,
             old.status \in {"none", "draft"}, new.status \in {"draft", "cancelled"}
      PROVE  TransfersConserveStock'
  <2>1. ASSUME NEW i \in Items
        PROVE  /\ In(old, i) = 0 /\ In(new, i) = 0
               /\ Out(old, i) = 0 /\ Out(new, i) = 0
    BY <1>7 DEF In, Out
  <2>2. ASSUME NEW i \in Items
        PROVE  adjustments'[i].transfer =
                   adjustments[i].transfer + (In(new, i) - In(old, i))
                   - (Out(new, i) - Out(old, i))
    BY <1>4, <1>7, <2>1
  <2>3. QED
    BY <1>2, <1>3, <1>5, <1>6, <2>2, TransferAdjusts
<1>8. CASE \E from, to \in Warehouses, lines \in [Variants -> 0..MaxInt] :
               CreateTransfer(t, from, to, lines)
  BY <1>2, <1>5, <1>6, <1>7, <1>8 DEF CreateTransfer
<1>9. CASE CancelTransfer(t)
  <2>1. new.status = "cancelled"
    BY <1>2, <1>6, <1>9 DEF CancelTransfer, TransferRow
  <2>2. QED
    BY <1>5, <1>7, <1>9, <2>1 DEF CancelTransfer
<1>10. CASE ShipTransfer(t)
  <2>1. /\ old.status = "draft" /\ old \in TransferRow
        /\ new = [old EXCEPT !.status = "in_transit"]
        /\ adjustments' = [i \in Items |->
               [adjustments[i] EXCEPT !.transfer = @ - Moves(t, old.from, i)]]
    BY <1>2, <1>5, <1>6, <1>10 DEF ShipTransfer
  <2>2. new.status = "in_transit" /\ new.from = old.from /\ new.lines = old.lines
    BY <2>1 DEF TransferRow
  <2>3. ASSUME NEW i \in Items
        PROVE  /\ In(old, i) = 0 /\ In(new, i) = 0 /\ Out(old, i) = 0
               /\ Out(new, i) = Moves(t, old.from, i)
               /\ Moves(t, old.from, i) \in Int
    <3>1. Out(new, i) \in Int
      BY <1>2, <1>6, TransferQuantities
    <3>2. QED
      BY <1>5, <2>1, <2>2, <3>1 DEF In, Out, Moves
  <2>4. ASSUME NEW i \in Items
        PROVE  adjustments'[i].transfer = adjustments[i].transfer - Moves(t, old.from, i)
    BY <1>4, <2>1
  <2>5. ASSUME NEW i \in Items
        PROVE  adjustments'[i].transfer =
                   adjustments[i].transfer + (In(new, i) - In(old, i))
                   - (Out(new, i) - Out(old, i))
    BY <1>4, <2>3, <2>4
  <2>6. QED
    BY <1>2, <1>3, <1>5, <1>6, <2>5, TransferAdjusts
<1>11. CASE ReceiveTransfer(t)
  <2>1. /\ old.status = "in_transit" /\ old \in TransferRow
        /\ new = [old EXCEPT !.status = "received"]
        /\ adjustments' = [i \in Items |->
               [adjustments[i] EXCEPT !.transfer = @ + Moves(t, old.to, i)]]
    BY <1>2, <1>5, <1>6, <1>11 DEF ReceiveTransfer
  <2>2. /\ new.status = "received" /\ new.from = old.from /\ new.to = old.to
        /\ new.lines = old.lines
    BY <2>1 DEF TransferRow
  <2>3. ASSUME NEW i \in Items
        PROVE  /\ In(old, i) = 0 /\ Out(new, i) = Out(old, i) /\ Out(old, i) \in Int
               /\ In(new, i) = Moves(t, old.to, i)
               /\ Moves(t, old.to, i) \in Int
    <3>1. In(new, i) \in Int /\ Out(old, i) \in Int
      BY <1>2, <1>5, <1>6, TransferQuantities
    <3>2. QED
      BY <1>5, <2>1, <2>2, <3>1 DEF In, Out, Moves
  <2>4. ASSUME NEW i \in Items
        PROVE  adjustments'[i].transfer = adjustments[i].transfer + Moves(t, old.to, i)
    BY <1>4, <2>1
  <2>5. ASSUME NEW i \in Items
        PROVE  adjustments'[i].transfer =
                   adjustments[i].transfer + (In(new, i) - In(old, i))
                   - (Out(new, i) - Out(old, i))
    BY <1>4, <2>3, <2>4
  <2>6. QED
    BY <1>2, <1>3, <1>5, <1>6, <2>5, TransferAdjusts
<1>12. QED
  BY <1>1, <1>8, <1>9, <1>10, <1>11

-----------------------------------------------------------------------------
(***************************************************************************)
(* Theorems                                                                *)
(***************************************************************************)

LEMMA NextIInv == IInv /\ [Next]_inventoryVars => IInv'
<1> SUFFICES ASSUME IInv, [Next]_inventoryVars PROVE IInv'
  OBVIOUS
<1>1. CASE ItemNext
  BY <1>1, CreateStep, AdjustStep DEF ItemNext
<1>2. CASE ReservationNext
  BY <1>2, ReserveStep, ReleaseStep, CommitStep DEF ReservationNext
<1>3. CASE TransferNext
  BY <1>3, CreateTransferStep, ShipTransferStep, ReceiveTransferStep,
     CancelTransferStep DEF TransferNext
<1>4. CASE UNCHANGED inventoryVars
  BY <1>4, SumsUnchanged
     DEF inventoryVars, IInv, TypeOK, ReservedIsSumOfActive,
         ReservedWithinOnHand, OnHandReconciles, NoRowNoStock
<1>5. QED
  BY <1>1, <1>2, <1>3, <1>4 DEF Next

LEMMA InductiveInvariant == Spec => []IInv
<1>1. QED
  BY InitIInv, NextIInv, PTL DEF Spec

\* Every column keeps its type: no quantity is ever negative or out of range,
\* whatever sequence of calls is made.
THEOREM TypeCorrect == Spec => []TypeOK
<1>1. IInv => TypeOK
  BY DEF IInv
<1>2. QED
  BY <1>1, InductiveInvariant, PTL

\* The counter quantity_reserved is always the sum of the active reservations.
THEOREM ReservedIsSum == Spec => []ReservedIsSumOfActive
<1>1. IInv => ReservedIsSumOfActive
  BY DEF IInv
<1>2. QED
  BY <1>1, InductiveInvariant, PTL

LEMMA ReservedWithinStock == IInv => ReservedStockIsOnHand
<1> SUFFICES ASSUME IInv PROVE ReservedStockIsOnHand
  OBVIOUS
<1>1. \A i \in Items : reserved[i] <= onHand[i]
  BY DEF IInv, ReservedWithinOnHand
<1>2. ASSUME NEW r \in ReservationIds, reservations[r].status = "active"
      PROVE  reservations[r].quantity <= onHand[reservations[r].item]
  BY <1>2, ActiveWithinReserved
<1>3. QED
  BY <1>1, <1>2 DEF ReservedStockIsOnHand

\* Reserved stock is on hand, in total and for each active reservation: commit
\* never fails for want of stock.
THEOREM ReservedIsOnHand == Spec => []ReservedStockIsOnHand
<1>1. QED
  BY ReservedWithinStock, InductiveInvariant, PTL

\* The quantity on hand is explained by its opening, the adjustment rows and
\* the committed reservations.
THEOREM BooksBalance == Spec => []OnHandReconciles
<1>1. IInv => OnHandReconciles
  BY DEF IInv
<1>2. QED
  BY <1>1, InductiveInvariant, PTL

\* No step touches a reservation that is released or committed.
THEOREM SettledForGood == Spec => SettledOnce
<1>1. IInv /\ [Next]_inventoryVars =>
          [\A r \in ReservationIds :
              reservations[r].status \in {"released", "committed"} =>
                  reservations'[r] = reservations[r]]_reservations
  <2> SUFFICES ASSUME IInv, Next, NEW r \in ReservationIds,
                      reservations[r].status \in {"released", "committed"}
               PROVE  reservations'[r] = reservations[r]
    BY DEF inventoryVars
  <2>1. reservations \in [ReservationIds -> ReservationRow]
    BY DEF IInv, TypeOK
  <2>2. CASE ItemNext
    BY <2>2 DEF ItemNext, Create, Adjust
  <2>3. CASE TransferNext
    BY <2>3 DEF TransferNext, CreateTransfer, ShipTransfer, ReceiveTransfer,
                CancelTransfer
  <2>4. CASE ReservationNext
    <3>1. PICK s \in ReservationIds :
              \/ \E i \in Items, q \in Quantity : Reserve(s, i, q)
              \/ Release(s)
              \/ Commit(s)
      BY <2>4 DEF ReservationNext
    <3>2. s # r
      BY <3>1 DEF Reserve, Release, Commit
    <3>3. QED
      BY <2>1, <3>1, <3>2 DEF Reserve, Release, Commit
  <2>5. QED
    BY <2>2, <2>3, <2>4 DEF Next
<1>2. QED
  BY <1>1, InductiveInvariant, PTL DEF Spec, SettledOnce

\* StockTransferService.ship and .receive write one adjustment row per line
\* with the status of the transfer, in one transaction: what an item's transfer
\* adjustments add up to is what was received there less what was shipped from
\* there, and a cancelled transfer has moved nothing.
THEOREM TransfersMoveStock == Spec => []TransfersConserveStock
<1>1. Init => TransfersConserveStock
  <2> SUFFICES ASSUME Init, NEW i \in Items
               PROVE  adjustments[i].transfer =
                          Cardinality(ReceivedUnits(i)) - Cardinality(SentUnits(i))
    BY DEF TransfersConserveStock
  <2>1. ReceivedUnits(i) = {} /\ SentUnits(i) = {}
    BY DEF Init, ReceivedUnits, SentUnits
  <2>2. QED
    BY <2>1, FS_EmptySet DEF Init
<1>2. IInv /\ TransfersConserveStock /\ [Next]_inventoryVars => TransfersConserveStock'
  <2> SUFFICES ASSUME IInv, TransfersConserveStock, [Next]_inventoryVars
               PROVE  TransfersConserveStock'
    OBVIOUS
  <2>1. adjustments \in [Items -> [manual : Int, transfer : Int]]
    BY DEF IInv, TypeOK
  <2>2. CASE ItemNext
    BY <2>1, <2>2, NothingMoves DEF ItemNext, Create, Adjust
  <2>3. CASE ReservationNext
    BY <2>3, NothingMoves DEF ReservationNext, Reserve, Release, Commit
  <2>4. CASE TransferNext
    BY <2>4, TransferStepConserves
  <2>5. CASE UNCHANGED inventoryVars
    BY <2>5, NothingMoves DEF inventoryVars
  <2>6. QED
    BY <2>2, <2>3, <2>4, <2>5 DEF Next
<1>3. QED
  BY <1>1, <1>2, InductiveInvariant, PTL DEF Spec
=============================================================================
