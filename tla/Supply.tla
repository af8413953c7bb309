------------------------------- MODULE Supply -------------------------------
(***************************************************************************)
(* SupplierService and PurchaseOrderService: suppliers, and the orders     *)
(* whose receipt credits stock at one warehouse.                           *)
(*                                                                         *)
(* receive is one transaction over many rows and is taken apart: it locks  *)
(* the purchase order, then one inventory item after another in the order  *)
(* of their variants, and everything it wrote shows when it commits.  Each *)
(* line is for one unit.                                                   *)
(***************************************************************************)
EXTENDS Integers, FiniteSetsExt

CONSTANTS
    Suppliers, PurchaseOrders,
    VariantCount,       \* variants are 1 .. VariantCount, in the order of their ids
    PoCalls,            \* transactions of receive under way at a time
    MaxSupplyEdits      \* bound: other requests

ASSUME VariantCountAssumption == VariantCount \in Nat

Variants == 1 .. VariantCount

VARIABLES
    supplier,           \* the rows of suppliers: the code is the model value itself
    po,                 \* the rows of purchase_orders with their lines
    item,               \* inventory_items.quantity_on_hand, NoItem without a row
    credited,           \* inventory_adjustments: rows po_receive:<order> by variant
    adjusted,           \* external: the sum of all other rows, by variant
    poCall,             \* transactions of receive
    supplyEdits

supplyVars == <<supplier, po, item, credited, adjusted, poCall, supplyEdits>>

NoItem == -1
NoPo == [at |-> "none"]
PoStatuses == {"draft", "received", "cancelled"}
IdlePoCall == [at |-> "idle"]

SupplyInit ==
    /\ supplier = [s \in Suppliers |-> "none"]
    /\ po = [o \in PurchaseOrders |-> NoPo]
    /\ item = [v \in Variants |-> NoItem]
    /\ credited = {}
    /\ adjusted = [v \in Variants |-> 0]
    /\ poCall = [k \in PoCalls |-> IdlePoCall]
    /\ supplyEdits = 0

stockRows == <<item, credited, adjusted>>

\* Row locks held until the end of the transaction.
PoLocked(o) == \E k \in PoCalls : poCall[k] # IdlePoCall /\ poCall[k].id = o
ItemLocked(v) == \E k \in PoCalls : poCall[k] # IdlePoCall /\ v \in poCall[k].holds

SupplyEdit ==
    /\ supplyEdits < MaxSupplyEdits
    /\ supplyEdits' = supplyEdits + 1
    /\ UNCHANGED poCall

GoPo(k, call) ==
    /\ poCall' = [poCall EXCEPT ![k] = call]
    /\ UNCHANGED supplyEdits

-----------------------------------------------------------------------------
CreateSupplier(s) ==
    /\ supplier[s] = "none"
    /\ SupplyEdit
    /\ \E at \in {"active", "inactive"} : supplier' = [supplier EXCEPT ![s] = at]
    /\ UNCHANGED <<po, stockRows>>

UpdateSupplier(s) ==
    /\ supplier[s] # "none"
    /\ SupplyEdit
    /\ \E at \in {"active", "inactive"} : supplier' = [supplier EXCEPT ![s] = at]
    /\ UNCHANGED <<po, stockRows>>

\* purchase_orders restricts the deletion, whatever the status of its rows.
RemoveSupplier(s) ==
    /\ supplier[s] # "none"
    /\ \A o \in PurchaseOrders : po[o] # NoPo => po[o].supplier # s
    /\ SupplyEdit
    /\ supplier' = [supplier EXCEPT ![s] = "none"]
    /\ UNCHANGED <<po, stockRows>>

CreatePo(o) ==
    /\ po[o] = NoPo
    /\ SupplyEdit
    /\ \E s \in Suppliers, lines \in (SUBSET Variants) \ {{}} :
           /\ supplier[s] = "active"
           /\ po' = [po EXCEPT ![o] = [at |-> "draft", supplier |-> s, lines |-> lines]]
    /\ UNCHANGED <<supplier, stockRows>>

CancelPo(o) ==
    /\ po[o].at = "draft"
    /\ ~PoLocked(o)
    /\ SupplyEdit
    /\ po' = [po EXCEPT ![o].at = "cancelled"]
    /\ UNCHANGED <<supplier, stockRows>>

\* External: InventoryService changes an item, or opens one with a quantity.
AdjustItem(v) ==
    /\ ~ItemLocked(v)
    /\ SupplyEdit
    /\ item' = [item EXCEPT ![v] = IF @ = NoItem THEN 1 ELSE @ + 1]
    /\ adjusted' = [adjusted EXCEPT ![v] = @ + 1]
    /\ UNCHANGED <<supplier, po, credited>>

-----------------------------------------------------------------------------
(***************************************************************************)
(* receive: todo are the lines left, holds the items locked, read what     *)
(* their rows said when they were.                                         *)
(***************************************************************************)
ReceiveLockPo(k, o) ==
    /\ poCall[k] = IdlePoCall
    /\ po[o].at = "draft"
    /\ ~PoLocked(o)
    /\ GoPo(k, [at |-> "item", id |-> o, todo |-> po[o].lines, holds |-> {},
                read |-> [v \in Variants |-> 0]])
    /\ UNCHANGED <<supplier, po, stockRows>>

NextLine(k) == Min(poCall[k].todo)

\* Wrong on purpose: the item is read without a lock on its row.
ReceiveReadItem(k) ==
    /\ poCall[k].at = "item" /\ poCall[k].todo # {}
    /\ LET v == NextLine(k)
       IN  IF item[v] = NoItem
           THEN GoPo(k, [poCall[k] EXCEPT !.at = "insert"])
           ELSE GoPo(k, [poCall[k] EXCEPT !.todo = @ \ {v}, !.holds = @ \cup {v},
                                          !.read[v] = item[v]])
    /\ UNCHANGED <<supplier, po, stockRows>>

\* The row of the next line: it waits for whoever has locked it.
ReceiveLockItem(k) ==
    /\ poCall[k].at = "item" /\ poCall[k].todo # {}
    /\ LET v == NextLine(k)
       IN  \/ item[v] = NoItem /\ GoPo(k, [poCall[k] EXCEPT !.at = "insert"])
           \/ /\ item[v] # NoItem /\ ~ItemLocked(v)
              /\ GoPo(k, [poCall[k] EXCEPT !.todo = @ \ {v}, !.holds = @ \cup {v},
                                           !.read[v] = item[v]])
    /\ UNCHANGED <<supplier, po, stockRows>>

\* No row was found: one is inserted.  When another transaction has done so and
\* commits first, the insert and the whole receipt fail.
ReceiveInsertItem(k) ==
    /\ poCall[k].at = "insert"
    /\ ~ItemLocked(NextLine(k))
    /\ LET v == NextLine(k)
       IN  GoPo(k, IF item[v] # NoItem THEN IdlePoCall
                   ELSE [poCall[k] EXCEPT !.at = "item", !.todo = @ \ {v},
                                          !.holds = @ \cup {v}])
    /\ UNCHANGED <<supplier, po, stockRows>>

\* The new quantities, one adjustment for each line, the status: all at once.
ReceiveCommit(k) ==
    /\ poCall[k].at = "item" /\ poCall[k].todo = {}
    /\ LET o == poCall[k].id
       IN  /\ item' = [v \in Variants |->
                  IF v \in poCall[k].holds THEN poCall[k].read[v] + 1 ELSE item[v]]
           /\ credited' = credited \cup ({o} \X poCall[k].holds)
           /\ po' = [po EXCEPT ![o].at = "received"]
    /\ GoPo(k, IdlePoCall)
    /\ UNCHANGED <<supplier, adjusted>>

\* A crash or an exception before the commit: nothing of the transaction stays.
ReceiveRollback(k) ==
    /\ poCall[k] # IdlePoCall
    /\ GoPo(k, IdlePoCall)
    /\ UNCHANGED <<supplier, po, stockRows>>

SupplierRequest(s) == CreateSupplier(s) \/ UpdateSupplier(s) \/ RemoveSupplier(s)

PoRequest(o) ==
    CreatePo(o) \/ CancelPo(o) \/ \E k \in PoCalls : ReceiveLockPo(k, o)

SupplyNext ==
    \/ \E s \in Suppliers : SupplierRequest(s)
    \/ \E o \in PurchaseOrders : PoRequest(o)
    \/ \E v \in Variants : AdjustItem(v)
    \/ \E k \in PoCalls :
           \/ ReceiveLockItem(k) \/ ReceiveInsertItem(k)
           \/ ReceiveCommit(k) \/ ReceiveRollback(k)

SupplySpec == SupplyInit /\ [][SupplyNext]_supplyVars

-----------------------------------------------------------------------------
OnHand(v) == IF item[v] = NoItem THEN 0 ELSE item[v]

(***************************************************************************)
(* The stock of every variant is what its adjustments add up to, and a     *)
(* purchase order has an adjustment for each of its lines exactly when it  *)
(* is received: receipts that overlap each other, cancellations and        *)
(* adjustments, fail or die, neither lose nor repeat a delivery.           *)
(***************************************************************************)
StockIsExplained ==
    /\ \A v \in Variants :
           OnHand(v) = adjusted[v] + Cardinality({c \in credited : c[2] = v})
    /\ \A o \in PurchaseOrders :
           {c \in credited : c[1] = o}
               = IF po[o].at = "received" THEN {o} \X po[o].lines ELSE {}
=============================================================================
