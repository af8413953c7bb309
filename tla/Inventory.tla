----------------------------- MODULE Inventory -----------------------------
(***************************************************************************)
(* What the inventory module promises: stock per (variant, warehouse),     *)
(* reservations against it and transfers between warehouses.               *)
(*                                                                         *)
(* InventoryService and StockTransferService do every write inside a       *)
(* database transaction that takes a pessimistic_write lock on each row it *)
(* reads.  Here such a transaction is one atomic action, whose failing     *)
(* checks (an exception, hence a rollback) are its guard.  InventoryTx     *)
(* takes the transactions apart, lock by lock, and shows that they         *)
(* implement this module.                                                  *)
(*                                                                         *)
(* Warehouses are the ones resolveWarehouseId accepts; that check runs     *)
(* before the transaction and is not repeated under the lock.              *)
(***************************************************************************)
EXTENDS Integers, FiniteSets

CONSTANTS
    Variants,           \* product variants
    Warehouses,         \* stock locations
    ReservationIds,     \* primary keys of inventory_reservations
    TransferIds,        \* primary keys of stock_transfers
    MaxInt              \* largest value of the integer quantity columns

ASSUME MaxIntAssumption == MaxInt \in Nat \ {0}

\* Finitely many rows are ever inserted; only the sums over rows need it.
ASSUME RowsAssumption == IsFiniteSet(ReservationIds) /\ IsFiniteSet(TransferIds)

Items == Variants \X Warehouses

VARIABLES
    rows,               \* items that have a row in inventory_items
    onHand,             \* quantity_on_hand (0 where there is no row)
    reserved,           \* quantity_reserved
    reservations,       \* inventory_reservations
    transfers,          \* stock_transfers with their lines
    adjustments,        \* per item, the sum of inventory_adjustments.delta by
                        \* reason: an operator's adjustment, or a transfer
    opening             \* history: the quantity the row was created with

stockVars == <<rows, onHand, reserved>>
inventoryVars == <<rows, onHand, reserved, reservations, transfers,
                   adjustments, opening>>

Quantity == 1..MaxInt

ReservationRow ==
    [status : {"none"}] \union
    [status : {"active", "released", "committed"},
     item : Items, quantity : Quantity]

TransferRow ==
    [status : {"none"}] \union
    [status : {"draft", "in_transit", "received", "cancelled"},
     from : Warehouses, to : Warehouses, lines : [Variants -> 0..MaxInt]]

TypeOK ==
    /\ rows \subseteq Items
    /\ onHand \in [Items -> 0..MaxInt]
    /\ reserved \in [Items -> 0..MaxInt]
    /\ reservations \in [ReservationIds -> ReservationRow]
    /\ transfers \in [TransferIds -> TransferRow]
    /\ adjustments \in [Items -> [manual : Int, transfer : Int]]
    /\ opening \in [Items -> 0..MaxInt]

Init ==
    /\ rows = {}
    /\ onHand = [i \in Items |-> 0]
    /\ reserved = [i \in Items |-> 0]
    /\ reservations = [r \in ReservationIds |-> [status |-> "none"]]
    /\ transfers = [t \in TransferIds |-> [status |-> "none"]]
    /\ adjustments = [i \in Items |-> [manual |-> 0, transfer |-> 0]]
    /\ opening = [i \in Items |-> 0]

-----------------------------------------------------------------------------

Available(i) == onHand[i] - reserved[i]

\* Math.max(0, q): the clamp release and commit put on quantity_reserved.
AtLeastZero(q) == IF q < 0 THEN 0 ELSE q

\* InventoryService.create: the unique (variant, warehouse) key rejects a
\* second row for the item.  No adjustment row is written.
Create(i, q) ==
    /\ i \notin rows
    /\ rows' = rows \union {i}
    /\ onHand' = [onHand EXCEPT ![i] = q]
    /\ opening' = [opening EXCEPT ![i] = q]
    /\ UNCHANGED <<reserved, reservations, transfers, adjustments>>

\* Wrong on purpose: adjust without its two range checks.
AdjustUnchecked(i, delta) ==
    /\ delta # 0
    /\ rows' = rows \union {i}
    /\ onHand' = [onHand EXCEPT ![i] = @ + delta]
    /\ adjustments' = [adjustments EXCEPT ![i].manual = @ + delta]
    /\ UNCHANGED <<reserved, reservations, transfers, opening>>

\* Wrong on purpose: an adjustment that inserts the row writes no history.
AdjustUnrecorded(i, delta) ==
    /\ delta # 0
    /\ onHand[i] + delta \in reserved[i]..MaxInt
    /\ rows' = rows \union {i}
    /\ onHand' = [onHand EXCEPT ![i] = @ + delta]
    /\ adjustments' = IF i \in rows
                      THEN [adjustments EXCEPT ![i].manual = @ + delta]
                      ELSE adjustments
    /\ UNCHANGED <<reserved, reservations, transfers, opening>>

\* InventoryService.adjust: a missing row is inserted with zeros first; a
\* result above MaxInt is out of range for the column and rolls back.
Adjust(i, delta) ==
    /\ delta # 0
    /\ onHand[i] + delta \in 0..MaxInt
    /\ onHand[i] + delta >= reserved[i]
    /\ rows' = rows \union {i}
    /\ onHand' = [onHand EXCEPT ![i] = @ + delta]
    /\ adjustments' = [adjustments EXCEPT ![i].manual = @ + delta]
    /\ UNCHANGED <<reserved, reservations, transfers, opening>>

\* InventoryService.reserve.  Without a row the item is inserted with zeros,
\* nothing is available and the insert is rolled back with the rest.
Reserve(r, i, q) ==
    /\ reservations[r].status = "none"
    /\ i \in rows
    /\ q <= Available(i)
    /\ reserved' = [reserved EXCEPT ![i] = @ + q]
    /\ reservations' = [reservations EXCEPT
           ![r] = [status |-> "active", item |-> i, quantity |-> q]]
    /\ UNCHANGED <<rows, onHand, transfers, adjustments, opening>>

\* Wrong on purpose: release without its status check.
ReleaseAnyStatus(r) ==
    /\ reservations[r].status # "none"
    /\ LET i == reservations[r].item
           q == reservations[r].quantity
       IN  reserved' = [reserved EXCEPT ![i] = AtLeastZero(@ - q)]
    /\ reservations' = [reservations EXCEPT ![r].status = "released"]
    /\ UNCHANGED <<rows, onHand, transfers, adjustments, opening>>

\* InventoryService.release.
Release(r) ==
    /\ reservations[r].status = "active"
    /\ LET i == reservations[r].item
           q == reservations[r].quantity
       IN  reserved' = [reserved EXCEPT ![i] = AtLeastZero(@ - q)]
    /\ reservations' = [reservations EXCEPT ![r].status = "released"]
    /\ UNCHANGED <<rows, onHand, transfers, adjustments, opening>>

\* Wrong on purpose: commit deducts the stock but leaves it reserved.
CommitKeepsReserved(r) ==
    /\ reservations[r].status = "active"
    /\ onHand[reservations[r].item] >= reservations[r].quantity
    /\ onHand' = [onHand EXCEPT ![reservations[r].item] =
                      @ - reservations[r].quantity]
    /\ reservations' = [reservations EXCEPT ![r].status = "committed"]
    /\ UNCHANGED <<rows, reserved, transfers, adjustments, opening>>

\* InventoryService.commit.  It writes no adjustment row: the committed
\* reservation is the record of the stock that left.
Commit(r) ==
    /\ reservations[r].status = "active"
    /\ LET i == reservations[r].item
           q == reservations[r].quantity
       IN  /\ onHand[i] >= q
           /\ onHand' = [onHand EXCEPT ![i] = @ - q]
           /\ reserved' = [reserved EXCEPT ![i] = AtLeastZero(@ - q)]
    /\ reservations' = [reservations EXCEPT ![r].status = "committed"]
    /\ UNCHANGED <<rows, transfers, adjustments, opening>>

-----------------------------------------------------------------------------

\* The quantity a transfer moves of item i at warehouse w, 0 elsewhere.
Moves(t, w, i) == IF i[2] = w THEN transfers[t].lines[i[1]] ELSE 0

\* StockTransferService.create.
CreateTransfer(t, from, to, lines) ==
    /\ transfers[t].status = "none"
    /\ from # to
    /\ \E v \in Variants : lines[v] > 0
    /\ transfers' = [transfers EXCEPT
           ![t] = [status |-> "draft", from |-> from, to |-> to,
                   lines |-> lines]]
    /\ UNCHANGED <<rows, onHand, reserved, reservations, adjustments, opening>>

\* Wrong on purpose: ship compares with the quantity on hand, not available.
ShipReserved(t) ==
    LET sent == [i \in Items |-> Moves(t, transfers[t].from, i)]
    IN  /\ transfers[t].status = "draft"
        /\ \A i \in Items : sent[i] > 0 => i \in rows /\ sent[i] <= onHand[i]
        /\ onHand' = [i \in Items |-> onHand[i] - sent[i]]
        /\ adjustments' = [i \in Items |->
               [adjustments[i] EXCEPT !.transfer = @ - sent[i]]]
        /\ transfers' = [transfers EXCEPT ![t].status = "in_transit"]
        /\ UNCHANGED <<rows, reserved, reservations, opening>>

\* StockTransferService.ship: every line must be available at the source.
ShipTransfer(t) ==
    LET sent == [i \in Items |-> Moves(t, transfers[t].from, i)]
    IN  /\ transfers[t].status = "draft"
        /\ \A i \in Items :
               sent[i] > 0 => i \in rows /\ sent[i] <= Available(i)
        /\ onHand' = [i \in Items |-> onHand[i] - sent[i]]
        /\ adjustments' = [i \in Items |->
               [adjustments[i] EXCEPT !.transfer = @ - sent[i]]]
        /\ transfers' = [transfers EXCEPT ![t].status = "in_transit"]
        /\ UNCHANGED <<rows, reserved, reservations, opening>>

\* StockTransferService.receive: a missing destination row is inserted.
ReceiveTransfer(t) ==
    LET got == [i \in Items |-> Moves(t, transfers[t].to, i)]
    IN  /\ transfers[t].status = "in_transit"
        /\ \A i \in Items : onHand[i] + got[i] <= MaxInt
        /\ rows' = rows \union {i \in Items : got[i] > 0}
        /\ onHand' = [i \in Items |-> onHand[i] + got[i]]
        /\ adjustments' = [i \in Items |->
               [adjustments[i] EXCEPT !.transfer = @ + got[i]]]
        /\ transfers' = [transfers EXCEPT ![t].status = "received"]
        /\ UNCHANGED <<reserved, reservations, opening>>

\* Wrong on purpose: a shipped transfer can be cancelled too.
CancelShipped(t) ==
    /\ transfers[t].status \in {"draft", "in_transit"}
    /\ transfers' = [transfers EXCEPT ![t].status = "cancelled"]
    /\ UNCHANGED <<rows, onHand, reserved, reservations, adjustments, opening>>

\* StockTransferService.cancel: only a draft, which has moved nothing.
CancelTransfer(t) ==
    /\ transfers[t].status = "draft"
    /\ transfers' = [transfers EXCEPT ![t].status = "cancelled"]
    /\ UNCHANGED <<rows, onHand, reserved, reservations, adjustments, opening>>

-----------------------------------------------------------------------------

ItemNext ==
    \E i \in Items :
        \/ \E q \in 0..MaxInt : Create(i, q)
        \/ \E delta \in -MaxInt..MaxInt : Adjust(i, delta)

ReservationNext ==
    \E r \in ReservationIds :
        \/ \E i \in Items, q \in Quantity : Reserve(r, i, q)
        \/ Release(r)
        \/ Commit(r)

TransferNext ==
    \E t \in TransferIds :
        \/ \E from, to \in Warehouses, lines \in [Variants -> 0..MaxInt] :
               CreateTransfer(t, from, to, lines)
        \/ ShipTransfer(t)
        \/ ReceiveTransfer(t)
        \/ CancelTransfer(t)

Next == ItemNext \/ ReservationNext \/ TransferNext

Spec == Init /\ [][Next]_inventoryVars

-----------------------------------------------------------------------------
(***************************************************************************)
(* Properties                                                              *)
(***************************************************************************)

\* The units of item i that the reservations with this status stand for, one
\* element per unit: their number is the sum of the reservations' quantities.
UnitsIn(status, i) ==
    {u \in ReservationIds \X Quantity :
        /\ reservations[u[1]].status = status
        /\ reservations[u[1]].item = i
        /\ u[2] <= reservations[u[1]].quantity}

\* quantity_reserved, a counter updated by reserve, release and commit, is the
\* sum of the active reservations of the item: the counter never drifts from
\* the rows it summarises, and the Math.max(0, ...) clamp never hides a drift.
ReservedIsSumOfActive ==
    \A i \in Items : reserved[i] = Cardinality(UnitsIn("active", i))

\* No adjustment, transfer or commit takes stock that is promised elsewhere:
\* what is reserved is on hand, so the "on-hand < quantity" conflict of commit
\* is unreachable and a reservation made at checkout can be honoured at
\* placeOrder, whichever of the others are settled first.
ReservedStockIsOnHand ==
    /\ \A i \in Items : reserved[i] <= onHand[i]
    /\ \A r \in ReservationIds : reservations[r].status = "active" =>
           reservations[r].quantity <= onHand[reservations[r].item]

\* The books balance: the opening quantity, the adjustment rows and the
\* committed reservations together explain the quantity on hand, although no
\* single table does (commit writes no adjustment row).
OnHandReconciles ==
    \A i \in Items :
        onHand[i] = opening[i] + adjustments[i].manual + adjustments[i].transfer
                    - Cardinality(UnitsIn("committed", i))

\* The units of item i that transfers have taken out of its warehouse, and
\* those that transfers have brought there.
SentUnits(i) ==
    {u \in TransferIds \X Quantity :
        /\ transfers[u[1]].status \in {"in_transit", "received"}
        /\ u[2] <= Moves(u[1], transfers[u[1]].from, i)}
ReceivedUnits(i) ==
    {u \in TransferIds \X Quantity :
        /\ transfers[u[1]].status = "received"
        /\ u[2] <= Moves(u[1], transfers[u[1]].to, i)}

\* Transfers move stock and never make or lose any: the transfer adjustments of
\* an item are what was received into its warehouse less what was shipped out of
\* it, so that over all warehouses they take away exactly what is in transit.
TransfersConserveStock ==
    \A i \in Items :
        adjustments[i].transfer =
            Cardinality(ReceivedUnits(i)) - Cardinality(SentUnits(i))

\* A reservation is settled once: released or committed, it is never settled
\* again nor made active, so stock is neither freed nor deducted twice.
SettledOnce ==
    [][\A r \in ReservationIds :
          reservations[r].status \in {"released", "committed"} =>
              reservations'[r] = reservations[r]]_reservations
=============================================================================
