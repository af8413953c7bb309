---------------------------- MODULE InventoryTx ----------------------------
(***************************************************************************)
(* The transactions of InventoryService and StockTransferService, lock by  *)
(* lock, and the row locks FulfillmentService.ship takes between them.     *)
(*                                                                         *)
(* A call reads each row with SELECT ... FOR UPDATE, checks and computes   *)
(* on the copy it read, and writes the copies back when it commits.  Two   *)
(* calls interleave between any two statements.  A missing item row cannot *)
(* be locked: the call inserts it, and loses if another call inserted it   *)
(* first.  A call may lose its connection (or the process may crash) at    *)
(* any point before its COMMIT; PostgreSQL then rolls it back.             *)
(*                                                                         *)
(* The tables are the variables of Inventory, in their committed state;    *)
(* ImplementsInventory says that these transactions behave like the atomic *)
(* actions there.                                                          *)
(***************************************************************************)
EXTENDS Inventory, Sequences

CONSTANTS
    Calls,              \* calls in progress at a time
    Requests,           \* what a call may ask for
    VariantId,          \* the ids of the variants, as numbers that order alike
    NoCall

VARIABLES
    call,               \* what each call in progress has done so far
    lock                \* row locks: the call that holds the row, or NoCall

vars == <<inventoryVars, call, lock>>

Rows == Items \union ReservationIds \union TransferIds

\* The three tables have no row in common.
ASSUME KeysAssumption ==
    /\ Items \intersect ReservationIds = {}
    /\ Items \intersect TransferIds = {}
    /\ ReservationIds \intersect TransferIds = {}

\* The catalog is finite and a variant's id is its own.
ASSUME VariantsAssumption ==
    /\ IsFiniteSet(Variants)
    /\ VariantId \in [Variants -> Nat]
    /\ \A u, v \in Variants : VariantId[u] = VariantId[v] => u = v

ASSUME CallsAssumption == NoCall \notin Calls

\* A call's requests, one per service method.  A shipment is what
\* FulfillmentService.ship does to the inventory: it locks the item of every
\* line at the fulfillment's warehouse, in the order of the order lines.
RequestType ==
    [op : {"adjust"}, item : Items, delta : Int \ {0}] \union
    [op : {"reserve"}, reservation : ReservationIds, item : Items,
     quantity : Quantity] \union
    [op : {"release", "commit"}, reservation : ReservationIds] \union
    [op : {"ship", "receive", "cancel"}, transfer : TransferIds] \union
    [op : {"shipment"}, items : Seq(Items)] \union
    [op : {"create"}, item : Items, quantity : 0..MaxInt] \union
    [op : {"createTransfer"}, transfer : TransferIds, from : Warehouses,
     to : Warehouses, lines : [Variants -> 0..MaxInt]]

ASSUME RequestsAssumption == Requests \subseteq RequestType

\* No transaction is open.
Idle == [state |-> "idle"]

\* A transaction is open.
\*   todo     the rows it has yet to lock, in order
\*   copies   the item rows it has locked, with the values it will write
\*   inserts  the items it inserts
Running(c) == call[c].state = "running"
InTransaction(c) == call[c].state \in {"running", "inserting"}

TxInit ==
    /\ Init
    /\ call = [c \in Calls |-> Idle]
    /\ lock = [row \in Rows |-> NoCall]

-----------------------------------------------------------------------------
(***************************************************************************)
(* What each method reads, checks and computes                             *)
(***************************************************************************)

\* The row a method locks first.
FirstRow(req) ==
    CASE req.op \in {"release", "commit"} -> req.reservation
      [] req.op \in {"ship", "receive", "cancel"} -> req.transfer
      [] OTHER -> req.item

\* Wrong on purpose: release locks its item before its reservation.
FirstRowsItemFirst(req) ==
    IF req.op = "release" /\ reservations[req.reservation].status = "active"
    THEN <<reservations[req.reservation].item, req.reservation>>
    ELSE IF req.op = "shipment" THEN req.items ELSE <<FirstRow(req)>>

FirstRows(req) ==
    IF req.op = "shipment" THEN req.items ELSE <<FirstRow(req)>>

\* The item rows of a transfer's lines at one of its warehouses.
LineItems(t, w) == {i \in Items : Moves(t, w, i) > 0}

\* The item rows a method locks once it holds its reservation or transfer.
ItemsAfter(req) ==
    CASE req.op \in {"release", "commit"} ->
             {reservations[req.reservation].item}
      [] req.op = "ship" -> LineItems(req.transfer, transfers[req.transfer].from)
      [] req.op = "receive" -> LineItems(req.transfer, transfers[req.transfer].to)
      [] OTHER -> {}

\* The item rows of S one by one, in ascending order of the variant's id.  (The
\* items of one warehouse have one such order.)
Ascending(S) ==
    {s \in [1..Cardinality(S) -> S] :
        /\ \A i \in S : \E n \in DOMAIN s : s[n] = i
        /\ \A m, n \in DOMAIN s :
               m < n => VariantId[s[m][1]] < VariantId[s[n][1]]}

\* The status a method requires of its reservation or transfer.
StatusExpected(req) ==
    CASE req.op \in {"release", "commit"} -> "active"
      [] req.op \in {"ship", "cancel"} -> "draft"
      [] req.op = "receive" -> "in_transit"

\* What a method adds to quantity_on_hand and quantity_reserved of item i.
Change(req, i) ==
    CASE req.op = "adjust" -> [onHand |-> req.delta, reserved |-> 0]
      [] req.op = "reserve" -> [onHand |-> 0, reserved |-> req.quantity]
      [] req.op = "release" ->
             [onHand |-> 0,
              reserved |-> - reservations[req.reservation].quantity]
      [] req.op = "commit" ->
             [onHand |-> - reservations[req.reservation].quantity,
              reserved |-> - reservations[req.reservation].quantity]
      [] req.op = "ship" ->
             [onHand |-> - transfers[req.transfer].lines[i[1]], reserved |-> 0]
      [] req.op = "receive" ->
             [onHand |-> transfers[req.transfer].lines[i[1]], reserved |-> 0]
      [] req.op = "shipment" -> [onHand |-> 0, reserved |-> 0]

\* The item row as the method will write it, computed on the copy it read.
Written(req, i, copy) ==
    [onHand |-> copy.onHand + Change(req, i).onHand,
     reserved |-> AtLeastZero(copy.reserved + Change(req, i).reserved)]

\* The checks a method makes on the copy, and the range of the column.
Accepts(req, i, copy) ==
    LET new == Written(req, i, copy)
    IN  /\ new.onHand \in 0..MaxInt
        /\ req.op \in {"adjust", "reserve", "ship"} =>
               new.reserved <= new.onHand

\* The methods that insert a missing item row rather than fail.
InsertsMissing(req) == req.op \in {"adjust", "reserve", "receive"}

-----------------------------------------------------------------------------
(***************************************************************************)
(* Steps of a call                                                         *)
(***************************************************************************)

\* BEGIN.  A reserve inserts its reservation under a fresh id.
Start(c, req) ==
    /\ call[c] = Idle
    /\ req.op \notin {"create", "createTransfer"}
    /\ req.op = "reserve" =>
           /\ reservations[req.reservation].status = "none"
           /\ \A d \in Calls :
                  InTransaction(d) /\ call[d].request.op = "reserve" =>
                      call[d].request.reservation # req.reservation
    /\ call' = [call EXCEPT ![c] =
           [state |-> "running", request |-> req, todo |-> FirstRows(req),
            copies |-> [i \in {} |-> 0], inserts |-> {}]]
    /\ UNCHANGED <<inventoryVars, lock>>

\* The transaction ends, committed or rolled back, and its locks with it.
End(c) ==
    /\ call' = [call EXCEPT ![c] = Idle]
    /\ lock' = [row \in Rows |-> IF lock[row] = c THEN NoCall ELSE lock[row]]

\* Wrong on purpose: the transaction stays open after an exception.
RefuseWithoutRollback(c) ==
    /\ call' = [call EXCEPT ![c].todo = << >>, ![c].state = "inserting"]
    /\ UNCHANGED lock

\* An exception inside the transaction: it rolls back.
Refuse(c) == End(c)

\* Wrong on purpose: rows are read without a lock.
GrantableAlways(c, row) == TRUE

\* A row lock is granted once nobody else holds it.
Grantable(c, row) == lock[row] \in {NoCall, c}

\* The reservation or transfer row is locked and its status checked.
LockOwnRow(c) ==
    /\ Running(c) /\ call[c].todo # << >>
    /\ LET row == Head(call[c].todo)
           req == call[c].request
           status == IF row \in ReservationIds THEN reservations[row].status
                                               ELSE transfers[row].status
       IN  /\ row \notin Items
           /\ Grantable(c, row)
           /\ IF status = StatusExpected(req)
              THEN /\ lock' = [lock EXCEPT ![row] = c]
                   /\ \E items \in Ascending(ItemsAfter(req)) :
                          call' = [call EXCEPT ![c].todo = items]
              ELSE Refuse(c)
    /\ UNCHANGED inventoryVars

\* Item row i is read (or just inserted) and held: check the copy and keep
\* what will be written.
Use(c, i, copy, inserted) ==
    LET req == call[c].request
    IN  IF Accepts(req, i, copy)
        THEN /\ lock' = [lock EXCEPT ![i] = c]
             /\ call' = [call EXCEPT
                    ![c].state = "running",
                    ![c].todo = Tail(@),
                    ![c].copies = [j \in DOMAIN @ \union {i} |->
                        IF j = i THEN Written(req, i, copy) ELSE @[j]],
                    ![c].inserts = @ \union inserted]
        ELSE Refuse(c)

NextItem(c) == Head(call[c].todo)

\* SELECT ... FOR UPDATE on an item: it waits for the row's holder and reads
\* what that one committed.
LockItem(c) ==
    /\ Running(c) /\ call[c].todo # << >>
    /\ NextItem(c) \in rows
    /\ Grantable(c, NextItem(c))
    /\ LET i == NextItem(c)
       IN  Use(c, i, [onHand |-> onHand[i], reserved |-> reserved[i]], {})
    /\ UNCHANGED inventoryVars

\* The SELECT finds no row, committed or its own.  The method fails, or goes on
\* to insert one.
MissItem(c) ==
    /\ Running(c) /\ call[c].todo # << >>
    /\ NextItem(c) \in Items \ rows
    /\ IF InsertsMissing(call[c].request)
       THEN /\ call' = [call EXCEPT ![c].state = "inserting"]
            /\ UNCHANGED lock
       ELSE Refuse(c)
    /\ UNCHANGED inventoryVars

\* INSERT of the missing item: it waits for an uncommitted insert of the same
\* unique key, and fails when the row is there by now.
InsertItem(c) ==
    /\ call[c].state = "inserting" /\ call[c].todo # << >>
    /\ Grantable(c, NextItem(c))
    /\ LET i == NextItem(c)
       IN  IF i \in rows
           THEN Refuse(c)
           ELSE Use(c, i, [onHand |-> 0, reserved |-> 0], {i})
    /\ UNCHANGED inventoryVars

\* COMMIT: the copies become the rows, with the adjustment rows that ship,
\* receive and adjust wrote, and the new status.
WriteItems(c) ==
    LET req == call[c].request
        copies == call[c].copies
        reason == IF req.op = "adjust" THEN "manual" ELSE "transfer"
    IN  /\ rows' = rows \union call[c].inserts
        /\ onHand' = [i \in Items |->
               IF i \in DOMAIN copies THEN copies[i].onHand ELSE onHand[i]]
        /\ reserved' = [i \in Items |->
               IF i \in DOMAIN copies THEN copies[i].reserved ELSE reserved[i]]
        /\ adjustments' =
               IF req.op \in {"adjust", "ship", "receive"}
               THEN [i \in Items |->
                        IF i \in DOMAIN copies
                        THEN [adjustments[i] EXCEPT
                                 ![reason] = @ + Change(req, i).onHand]
                        ELSE adjustments[i]]
               ELSE adjustments

StatusWritten(op) ==
    CASE op = "release" -> "released"
      [] op = "commit" -> "committed"
      [] op = "ship" -> "in_transit"
      [] op = "receive" -> "received"
      [] op = "cancel" -> "cancelled"

WriteOwnRow(req) ==
    CASE req.op = "reserve" ->
             /\ reservations' = [reservations EXCEPT ![req.reservation] =
                    [status |-> "active", item |-> req.item,
                     quantity |-> req.quantity]]
             /\ UNCHANGED transfers
      [] req.op \in {"release", "commit"} ->
             /\ reservations' = [reservations EXCEPT
                    ![req.reservation].status = StatusWritten(req.op)]
             /\ UNCHANGED transfers
      [] req.op \in {"ship", "receive", "cancel"} ->
             /\ transfers' = [transfers EXCEPT
                    ![req.transfer].status = StatusWritten(req.op)]
             /\ UNCHANGED reservations
      [] OTHER -> UNCHANGED <<reservations, transfers>>

Finish(c) ==
    /\ Running(c) /\ call[c].todo = << >>
    /\ WriteItems(c)
    /\ WriteOwnRow(call[c].request)
    /\ End(c)
    /\ UNCHANGED opening

\* The connection is lost, or the process crashes.
LoseConnection(c) ==
    /\ InTransaction(c)
    /\ Refuse(c)
    /\ UNCHANGED inventoryVars

-----------------------------------------------------------------------------
(***************************************************************************)
(* Deadlock                                                                *)
(***************************************************************************)

\* The call that holds the row c waits for; NoCall if c can go on.
Blocker(c) ==
    IF /\ InTransaction(c) /\ call[c].todo # << >>
       /\ NextItem(c) \in Items \ rows => call[c].state = "inserting"
       /\ ~Grantable(c, NextItem(c))
    THEN lock[NextItem(c)]
    ELSE NoCall

\* The sets of calls that wait for each other in a circle.
WaitCircles ==
    {D \in (SUBSET Calls) \ {{}} : {Blocker(c) : c \in D} = D}

\* PostgreSQL's deadlock detector makes one call of the circle fail.
BreakDeadlock(c) ==
    /\ \E D \in WaitCircles : c \in D
    /\ Refuse(c)
    /\ UNCHANGED inventoryVars

-----------------------------------------------------------------------------

\* Create and CreateTransfer only insert: they are one step.  The insert of an
\* item waits for an uncommitted insert of the same key.
Insert(req) ==
    /\ \/ /\ req.op = "create"
          /\ lock[req.item] = NoCall
          /\ Create(req.item, req.quantity)
       \/ /\ req.op = "createTransfer"
          /\ CreateTransfer(req.transfer, req.from, req.to, req.lines)
    /\ UNCHANGED <<call, lock>>

Advance(c) ==
    \/ LockOwnRow(c)
    \/ LockItem(c)
    \/ MissItem(c)
    \/ InsertItem(c)
    \/ Finish(c)
    \/ BreakDeadlock(c)

TxNext ==
    \/ \E req \in Requests : Insert(req)
    \/ \E c \in Calls :
           \/ \E req \in Requests : Start(c, req)
           \/ Advance(c)
           \/ LoseConnection(c)

\* A call inside its transaction goes on: Node resumes it when PostgreSQL
\* answers, and PostgreSQL grants a row lock to its waiters in order of arrival,
\* so that a waiter is not overtaken for ever (strong fairness).  Nothing makes
\* a call start or a connection fail.
TxSpec == TxInit /\ [][TxNext]_vars /\ \A c \in Calls : SF_vars(Advance(c))

-----------------------------------------------------------------------------
(***************************************************************************)
(* Properties                                                              *)
(***************************************************************************)

\* The tables are well formed whenever a transaction commits, and what a call
\* means to insert is among the copies of rows that it holds.
TxTypeOK ==
    /\ TypeOK
    /\ lock \in [Rows -> Calls \union {NoCall}]
    /\ \A c \in Calls :
           \/ call[c] = Idle
           \/ /\ InTransaction(c)
              /\ call[c].request \in Requests
              /\ call[c].inserts \subseteq DOMAIN call[c].copies
              /\ call[c].copies \in [DOMAIN call[c].copies ->
                     [onHand : 0..MaxInt, reserved : 0..MaxInt]]

\* The interleaved transactions implement the atomic actions of Inventory: no
\* update is lost, no check is made on a value that is stale when it is used,
\* and a failed or interrupted call leaves no trace.
ImplementsInventory == Spec

\* The inventory's own methods lock in one order (transfer, reservation, items
\* by variant id), so they never wait for each other in a circle.  Only the
\* shipment of a fulfillment, which locks its items in the order of the order
\* lines, can close one.
OnlyShipmentsCloseCircles ==
    \A D \in WaitCircles : \E c \in D : call[c].request.op = "shipment"

\* Every call that enters its transaction leaves it, committed or rolled back,
\* whatever rows the others hold.
CallsEnd == \A c \in Calls : InTransaction(c) ~> call[c] = Idle
=============================================================================
