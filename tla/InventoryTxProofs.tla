-------------------------- MODULE InventoryTxProofs --------------------------
(***************************************************************************)
(* Proofs about InventoryTx, for any number of concurrent calls, any       *)
(* requests and any tables: the transactions, taken apart lock by lock,    *)
(* implement the atomic actions of Inventory, and the inventory's own      *)
(* methods never wait for each other in a circle.                          *)
(***************************************************************************)
EXTENDS InventoryTx, InventoryProofs, SequenceTheorems, WellFoundedInduction

-----------------------------------------------------------------------------
(***************************************************************************)
(* The inductive invariant                                                 *)
(***************************************************************************)

\* The methods that lock a reservation or a transfer before any item.
OwnRowOps == {"release", "commit", "ship", "receive", "cancel"}

ItemRow == [onHand : 0..MaxInt, reserved : 0..MaxInt]

\* A call in its transaction.
CallRow ==
    [state : {"running", "inserting"},
     request : {req \in Requests : req.op \notin {"create", "createTransfer"}},
     todo : Seq(Rows),
     copies : UNION {[D -> ItemRow] : D \in SUBSET Items},
     inserts : SUBSET Items]

TxTables ==
    /\ call \in [Calls -> {Idle} \union CallRow]
    /\ lock \in [Rows -> Calls \union {NoCall}]

\* A call that is in no transaction holds no row.
IdleHoldsNothing ==
    \A c \in Calls : call[c] = Idle => \A row \in Rows : lock[row] # c

\* The item row as a SELECT ... FOR UPDATE of its holder shows it.
Committed(i) == [onHand |-> onHand[i], reserved |-> reserved[i]]

\* What call c will write is still what its request makes of the rows as they
\* are: it holds them, so that nobody has changed them since it read them.
CopiesAreFresh(c) ==
    /\ call[c].inserts \subseteq DOMAIN call[c].copies
    /\ \A i \in DOMAIN call[c].copies :
           /\ lock[i] = c
           /\ Accepts(call[c].request, i, Committed(i))
           /\ call[c].copies[i] = Written(call[c].request, i, Committed(i))
           /\ i \in call[c].inserts <=> i \notin rows
           /\ i \in call[c].inserts => InsertsMissing(call[c].request)

StatusOf(row) == IF row \in ReservationIds THEN reservations[row].status
                                           ELSE transfers[row].status

\* Call c holds the reservation or transfer it is about, with the status its
\* method requires.
HoldsOwnRow(c) ==
    call[c].request.op \in OwnRowOps =>
        /\ lock[FirstRow(call[c].request)] = c
        /\ StatusOf(FirstRow(call[c].request)) = StatusExpected(call[c].request)

Left(c) == {call[c].todo[n] : n \in DOMAIN call[c].todo}

\* The item rows a request has to change.
Needed(req) ==
    IF req.op \in {"adjust", "reserve"} THEN {req.item} ELSE ItemsAfter(req)

\* Call c has its reservation or transfer still to lock.
AtOwnRow(c) ==
    /\ call[c].request.op \in OwnRowOps
    /\ call[c].todo = <<FirstRow(call[c].request)>>
    /\ DOMAIN call[c].copies = {}

\* Call c is at its items: those it has locked and those it has yet to lock are
\* the ones its request has to change.
AtItems(c) ==
    /\ HoldsOwnRow(c)
    /\ Left(c) \subseteq Items
    /\ call[c].request.op # "shipment" =>
           Left(c) \union DOMAIN call[c].copies = Needed(call[c].request)

InsertsAnItem(c) ==
    call[c].state = "inserting" =>
        /\ call[c].todo # << >>
        /\ Head(call[c].todo) \in Items
        /\ InsertsMissing(call[c].request)

\* Rows are locked in ascending order of this number.
Rank(row) == IF row \in Items THEN 1 + VariantId[row[1]] ELSE 0

\* The rows call c has yet to lock come after those it holds, in their order.
LocksInOrder(c) ==
    call[c].request.op # "shipment" =>
        /\ \A m, n \in DOMAIN call[c].todo :
               m < n => Rank(call[c].todo[m]) < Rank(call[c].todo[n])
        /\ \A row \in Rows, n \in DOMAIN call[c].todo :
               lock[row] = c => Rank(row) < Rank(call[c].todo[n])

CallOK(c) ==
    /\ CopiesAreFresh(c)
    /\ AtOwnRow(c) \/ AtItems(c)
    /\ InsertsAnItem(c)
    /\ LocksInOrder(c)

Reserves(c) == InTransaction(c) /\ call[c].request.op = "reserve"

\* A reservation about to be inserted is not there, and no other call is about
\* to insert it.
ReservationsAreNew ==
    \A c \in Calls : Reserves(c) =>
        /\ reservations[call[c].request.reservation].status = "none"
        /\ \A d \in Calls : Reserves(d)
               /\ call[d].request.reservation = call[c].request.reservation
                   => d = c

TxInv ==
    /\ IInv
    /\ TxTables
    /\ IdleHoldsNothing
    /\ \A c \in Calls : InTransaction(c) => CallOK(c)
    /\ ReservationsAreNew

-----------------------------------------------------------------------------
(***************************************************************************)
(* Requests, rows and calls                                                *)
(***************************************************************************)

LEMMA RequestFields ==
    ASSUME NEW req \in Requests, req.op \notin {"create", "createTransfer"}
    PROVE  /\ req.op \in {"adjust", "reserve", "shipment"} \union OwnRowOps
           /\ req.op = "adjust" => req.item \in Items /\ req.delta \in Int \ {0}
           /\ req.op = "reserve" =>
                  /\ req.reservation \in ReservationIds
                  /\ req.item \in Items
                  /\ req.quantity \in Quantity
           /\ req.op \in {"release", "commit"} =>
                  req.reservation \in ReservationIds
           /\ req.op \in {"ship", "receive", "cancel"} =>
                  req.transfer \in TransferIds
           /\ req.op = "shipment" => req.items \in Seq(Items)
<1>1. req \in RequestType
  BY RequestsAssumption
<1>2. QED
  BY <1>1, Zenon DEF RequestType, OwnRowOps

LEMMA InsertFields ==
    ASSUME NEW req \in Requests
    PROVE  /\ req.op = "create" => req.item \in Items /\ req.quantity \in 0..MaxInt
           /\ req.op = "createTransfer" =>
                  /\ req.transfer \in TransferIds
                  /\ req.from \in Warehouses
                  /\ req.to \in Warehouses
                  /\ req.lines \in [Variants -> 0..MaxInt]
<1>1. req \in RequestType
  BY RequestsAssumption
<1>2. QED
  BY <1>1, Zenon DEF RequestType

\* The row a method locks first: its reservation or transfer, or its item.
LEMMA FirstRowFacts ==
    ASSUME NEW req \in Requests, req.op \notin {"create", "createTransfer"}
    PROVE  /\ req.op \in OwnRowOps =>
                  /\ FirstRow(req) \in ReservationIds \union TransferIds
                  /\ FirstRow(req) \notin Items
           /\ req.op \in {"release", "commit"} =>
                  /\ FirstRow(req) = req.reservation
                  /\ FirstRow(req) \in ReservationIds
           /\ req.op \in {"ship", "receive", "cancel"} =>
                  /\ FirstRow(req) = req.transfer
                  /\ FirstRow(req) \in TransferIds
                  /\ FirstRow(req) \notin ReservationIds
           /\ req.op \in {"adjust", "reserve"} =>
                  FirstRow(req) = req.item /\ FirstRow(req) \in Items
<1>1. CASE req.op \in {"release", "commit"}
  BY <1>1, RequestFields, KeysAssumption DEF FirstRow, OwnRowOps
<1>2. CASE req.op \in {"ship", "receive", "cancel"}
  BY <1>2, RequestFields, KeysAssumption DEF FirstRow, OwnRowOps
<1>3. CASE req.op \in {"adjust", "reserve"}
  BY <1>3, RequestFields DEF FirstRow, OwnRowOps
<1>4. CASE req.op = "shipment"
  BY <1>4 DEF OwnRowOps
<1>5. QED
  BY <1>1, <1>2, <1>3, <1>4, RequestFields DEF OwnRowOps

LEMMA CallFields ==
    ASSUME TxTables, NEW c \in Calls, InTransaction(c)
    PROVE  /\ call[c] \in CallRow
           /\ call[c].state \in {"running", "inserting"}
           /\ call[c].request \in Requests
           /\ call[c].request.op \notin {"create", "createTransfer"}
           /\ call[c].todo \in Seq(Rows)
           /\ call[c].copies \in [DOMAIN call[c].copies -> ItemRow]
           /\ DOMAIN call[c].copies \subseteq Items
           /\ call[c].inserts \subseteq Items
<1>1. call[c] # Idle
  BY DEF InTransaction, Idle
<1>2. call[c] \in CallRow
  BY <1>1 DEF TxTables
<1>3. QED
  BY <1>2 DEF CallRow

LEMMA CallEnds ==
    ASSUME TxTables, NEW c \in Calls
    PROVE  call[c] = Idle \/ InTransaction(c)
  BY DEF TxTables, CallRow, InTransaction, Idle

-----------------------------------------------------------------------------
(***************************************************************************)
(* What a step of one call leaves the others                               *)
(***************************************************************************)

\* What a request makes of an item depends on nothing but the request, the item
\* and the reservation or transfer that the request names.
LEMMA SameArithmetic ==
    ASSUME NEW req \in Requests, req.op \notin {"create", "createTransfer"},
           req.op \in {"release", "commit"} =>
               reservations'[req.reservation] = reservations[req.reservation],
           req.op \in {"ship", "receive", "cancel"} =>
               transfers'[req.transfer] = transfers[req.transfer]
    PROVE  /\ \A i : Change(req, i)' = Change(req, i)
           /\ ItemsAfter(req)' = ItemsAfter(req)
           /\ req.op \in OwnRowOps =>
                  StatusOf(FirstRow(req))' = StatusOf(FirstRow(req))
<1>1. \A i : Change(req, i)' = Change(req, i)
  BY RequestFields DEF Change, OwnRowOps
<1>2. ItemsAfter(req)' = ItemsAfter(req)
  <2>1. ASSUME NEW t, NEW w, transfers'[t] = transfers[t]
        PROVE  LineItems(t, w)' = LineItems(t, w)
    BY <2>1, Zenon DEF LineItems, Moves
  <2>2. CASE req.op \in {"ship", "receive"}
    BY <2>1, <2>2 DEF ItemsAfter
  <2>3. CASE req.op \notin {"ship", "receive"}
    BY <2>3 DEF ItemsAfter
  <2>4. QED
    BY <2>2, <2>3
<1>3. req.op \in OwnRowOps =>
          StatusOf(FirstRow(req))' = StatusOf(FirstRow(req))
  BY FirstRowFacts DEF StatusOf, OwnRowOps
<1>4. QED
  BY <1>1, <1>2, <1>3

\* A call stays in order as long as the rows it holds stay as they are and its
\* locks its own.
LEMMA CallKept ==
    ASSUME TxTables, NEW d \in Calls, InTransaction(d), CallOK(d),
           call'[d] = call[d],
           \A row \in Rows : lock'[row] = d <=> lock[row] = d,
           \A i \in Items : lock[i] = d =>
               /\ i \in rows' <=> i \in rows
               /\ onHand'[i] = onHand[i]
               /\ reserved'[i] = reserved[i],
           \A r \in ReservationIds :
               lock[r] = d /\ reservations[r].status # "none" =>
                   reservations'[r] = reservations[r],
           \A t \in TransferIds :
               lock[t] = d /\ transfers[t].status # "none" =>
                   transfers'[t] = transfers[t]
    PROVE  CallOK(d)'
<1>1. PICK k : k = call[d]
  OBVIOUS
<1>2. PICK req : req = k.request
  OBVIOUS
<1>3. /\ req \in Requests
      /\ req.op \notin {"create", "createTransfer"}
      /\ k.todo \in Seq(Rows)
      /\ DOMAIN k.copies \subseteq Items
  BY <1>1, <1>2, CallFields
<1>4. InsertsAnItem(d)'
  BY <1>1 DEF CallOK, InsertsAnItem
<1>5. LocksInOrder(d)'
  <2>1. ASSUME req.op # "shipment", NEW row \in Rows, NEW n \in DOMAIN k.todo,
               lock'[row] = d
        PROVE  Rank(row) < Rank(k.todo[n])
    BY <1>1, <1>2, <2>1 DEF CallOK, LocksInOrder
  <2>2. ASSUME req.op # "shipment", NEW m \in DOMAIN k.todo,
               NEW n \in DOMAIN k.todo, m < n
        PROVE  Rank(k.todo[m]) < Rank(k.todo[n])
    BY <1>1, <1>2, <2>2 DEF CallOK, LocksInOrder
  <2>3. QED
    BY <1>1, <1>2, <2>1, <2>2 DEF LocksInOrder
<1>6. CASE AtOwnRow(d)
  <2>1. AtOwnRow(d)'
    BY <1>1, <1>6 DEF AtOwnRow, FirstRow
  <2>2. CopiesAreFresh(d)'
    BY <1>1, <1>6 DEF CallOK, CopiesAreFresh, AtOwnRow
  <2>3. QED
    BY <1>4, <1>5, <2>1, <2>2 DEF CallOK
<1>7. CASE AtItems(d)
  <2>1. req.op \in OwnRowOps =>
            /\ lock[FirstRow(req)] = d
            /\ StatusOf(FirstRow(req)) # "none"
    BY <1>1, <1>2, <1>7 DEF AtItems, HoldsOwnRow, StatusExpected, OwnRowOps
  <2>2. /\ \A i : Change(req, i)' = Change(req, i)
        /\ ItemsAfter(req)' = ItemsAfter(req)
        /\ req.op \in OwnRowOps =>
               StatusOf(FirstRow(req))' = StatusOf(FirstRow(req))
    <3>1. req.op \in {"release", "commit"} =>
              reservations'[req.reservation] = reservations[req.reservation]
      BY <1>3, <2>1, FirstRowFacts DEF OwnRowOps, StatusOf
    <3>2. req.op \in {"ship", "receive", "cancel"} =>
              transfers'[req.transfer] = transfers[req.transfer]
      BY <1>3, <2>1, FirstRowFacts DEF OwnRowOps, StatusOf
    <3>3. QED
      BY <1>3, <3>1, <3>2, SameArithmetic
  <2>3. CopiesAreFresh(d)'
    <3>1. ASSUME NEW i \in DOMAIN k.copies
          PROVE  /\ lock'[i] = d
                 /\ Accepts(req, i, Committed(i))'
                 /\ k.copies[i] = Written(req, i, Committed(i))'
                 /\ i \in k.inserts <=> i \notin rows'
                 /\ i \in k.inserts => InsertsMissing(req)
      <4>1. /\ lock[i] = d
            /\ Accepts(req, i, Committed(i))
            /\ k.copies[i] = Written(req, i, Committed(i))
            /\ i \in k.inserts <=> i \notin rows
            /\ i \in k.inserts => InsertsMissing(req)
        BY <1>1, <1>2 DEF CallOK, CopiesAreFresh
      <4>2. i \in Items /\ i \in Rows
        BY <1>3 DEF Rows
      <4>3. Committed(i)' = Committed(i)
        BY <4>1, <4>2 DEF Committed
      <4>4. Written(req, i, Committed(i))' = Written(req, i, Committed(i))
        BY <2>2, <4>3 DEF Written, AtLeastZero
      <4>5. Accepts(req, i, Committed(i))' <=> Accepts(req, i, Committed(i))
        BY <4>4, Zenon DEF Accepts
      <4>6. QED
        BY <4>1, <4>2, <4>4, <4>5
    <3>2. k.inserts \subseteq DOMAIN k.copies
      BY <1>1 DEF CallOK, CopiesAreFresh
    <3>3. QED
      BY <1>1, <1>2, <3>1, <3>2 DEF CopiesAreFresh, InsertsMissing
  <2>4. AtItems(d)'
    <3>1. HoldsOwnRow(d)'
      <4>1. CASE req.op \in OwnRowOps
        <5>1. FirstRow(req) \in Rows
          BY <1>3, <4>1, FirstRowFacts DEF Rows
        <5>2. lock'[FirstRow(req)] = d
          BY <2>1, <4>1, <5>1
        <5>3. StatusOf(FirstRow(req))' = StatusExpected(req)
          BY <1>1, <1>2, <1>7, <2>2, <4>1 DEF AtItems, HoldsOwnRow
        <5>4. QED
          BY <1>1, <1>2, <5>2, <5>3 DEF HoldsOwnRow
      <4>2. CASE req.op \notin OwnRowOps
        BY <1>1, <1>2, <4>2 DEF HoldsOwnRow
      <4>3. QED
        BY <4>1, <4>2
    <3>2. Left(d)' = Left(d) /\ Left(d) \subseteq Items
      BY <1>1, <1>7 DEF Left, AtItems
    <3>3. Needed(req)' = Needed(req)
      BY <2>2, Zenon DEF Needed
    <3>4. req.op # "shipment" => Left(d) \union DOMAIN k.copies = Needed(req)
      BY <1>1, <1>2, <1>7 DEF AtItems
    <3>5. QED
      BY <1>1, <1>2, <3>1, <3>2, <3>3, <3>4, Zenon DEF AtItems
  <2>5. QED
    BY <1>4, <1>5, <2>3, <2>4 DEF CallOK
<1>8. QED
  BY <1>6, <1>7 DEF CallOK

\* A step of call c that leaves the locks of the others to them, and the rows
\* they hold as they are (a reservation or transfer that is not there yet is
\* nobody's), leaves the others in order.
LEMMA OthersKept ==
    ASSUME TxInv, NEW c \in Calls,
           \A d \in Calls \ {c} : call'[d] = call[d],
           \A d \in Calls \ {c}, row \in Rows : lock'[row] = d <=> lock[row] = d,
           \A i \in Items : lock[i] \in Calls \ {c} =>
               /\ i \in rows' <=> i \in rows
               /\ onHand'[i] = onHand[i]
               /\ reserved'[i] = reserved[i],
           \A r \in ReservationIds :
               lock[r] \in Calls \ {c} /\ reservations[r].status # "none" =>
                   reservations'[r] = reservations[r],
           \A t \in TransferIds :
               lock[t] \in Calls \ {c} /\ transfers[t].status # "none" =>
                   transfers'[t] = transfers[t],
           NEW d \in Calls \ {c}
    PROVE  /\ InTransaction(d)' => CallOK(d)'
           /\ call'[d] = Idle => \A row \in Rows : lock'[row] # d
<1>1. TxTables /\ (InTransaction(d) => CallOK(d))
      /\ (call[d] = Idle => \A row \in Rows : lock[row] # d)
  BY DEF TxInv, IdleHoldsNothing
<1>2. call'[d] = call[d] /\ (InTransaction(d)' <=> InTransaction(d))
  BY DEF InTransaction
<1>3. \A row \in Rows : lock'[row] = d <=> lock[row] = d
  OBVIOUS
<1>4. ASSUME InTransaction(d) PROVE CallOK(d)'
  BY <1>1, <1>2, <1>3, <1>4, CallKept
<1>5. QED
  BY <1>1, <1>2, <1>3, <1>4

\* A step of call c that commits nothing.
LEMMA CallStep ==
    ASSUME TxInv, UNCHANGED inventoryVars, NEW c \in Calls,
           NEW x \in {Idle} \union CallRow, call' = [call EXCEPT ![c] = x],
           lock' \in [Rows -> Calls \union {NoCall}],
           \A d \in Calls \ {c}, row \in Rows : lock'[row] = d <=> lock[row] = d,
           x = Idle => \A row \in Rows : lock'[row] # c,
           x # Idle => CallOK(c)',
           x # Idle /\ x.request.op = "reserve" =>
               \/ Reserves(c) /\ x.request = call[c].request
               \/ /\ reservations[x.request.reservation].status = "none"
                  /\ \A d \in Calls : Reserves(d) =>
                         call[d].request.reservation # x.request.reservation
    PROVE  TxInv'
<1>1. TxTables'
  BY DEF TxInv, TxTables
<1>2. call'[c] = x /\ \A d \in Calls \ {c} : call'[d] = call[d]
  BY DEF TxInv, TxTables
<1>3. IInv'
  BY NextIInv DEF TxInv
<1>4. UNCHANGED <<rows, onHand, reserved, reservations, transfers>>
  BY DEF inventoryVars
<1>5. ASSUME NEW d \in Calls \ {c}
      PROVE  /\ InTransaction(d)' => CallOK(d)'
             /\ call'[d] = Idle => \A row \in Rows : lock'[row] # d
  BY <1>2, <1>4, OthersKept
<1>6. IdleHoldsNothing'
  BY <1>2, <1>5 DEF IdleHoldsNothing
<1>7. ASSUME NEW d \in Calls, InTransaction(d)' PROVE CallOK(d)'
  <2>1. CASE d = c
    BY <1>2, <1>7, <2>1 DEF InTransaction, Idle
  <2>2. CASE d # c
    BY <1>5, <1>7, <2>2
  <2>3. QED
    BY <2>1, <2>2
<1>8. ReservationsAreNew'
  <2>1. \A d \in Calls \ {c} : Reserves(d)' <=> Reserves(d)
    BY <1>2 DEF Reserves, InTransaction
  <2>2. Reserves(c)' => x # Idle /\ x.request.op = "reserve"
    BY <1>2 DEF Reserves, InTransaction, Idle
  <2>3. \A d \in Calls : Reserves(d) =>
            /\ reservations[call[d].request.reservation].status = "none"
            /\ \A e \in Calls : Reserves(e)
                   /\ call[e].request.reservation = call[d].request.reservation
                       => e = d
    BY DEF TxInv, ReservationsAreNew
  <2>4. ASSUME NEW d \in Calls, Reserves(d)'
        PROVE  reservations'[call'[d].request.reservation].status = "none"
    <3>1. CASE d = c
      BY <1>2, <1>4, <2>2, <2>3, <2>4, <3>1
    <3>2. CASE d # c
      BY <1>2, <1>4, <2>1, <2>3, <2>4, <3>2
    <3>3. QED
      BY <3>1, <3>2
  <2>5. ASSUME NEW d \in Calls, Reserves(d)', NEW e \in Calls, Reserves(e)',
               call'[e].request.reservation = call'[d].request.reservation
        PROVE  e = d
    <3>1. CASE d # c /\ e # c
      BY <1>2, <2>1, <2>3, <2>5, <3>1
    <3>2. CASE d = c /\ e # c
      BY <1>2, <2>1, <2>2, <2>3, <2>5, <3>2
    <3>3. CASE d # c /\ e = c
      BY <1>2, <2>1, <2>2, <2>3, <2>5, <3>3
    <3>4. QED
      BY <3>1, <3>2, <3>3
  <2>6. QED
    BY <2>4, <2>5 DEF ReservationsAreNew
<1>9. QED
  BY <1>1, <1>3, <1>6, <1>7, <1>8 DEF TxInv

-----------------------------------------------------------------------------
(***************************************************************************)
(* One lemma per action that commits nothing                               *)
(***************************************************************************)

\* A call that ends lets go of its rows and of nobody else's.
LEMMA EndFacts ==
    ASSUME TxTables, NEW c \in Calls, End(c)
    PROVE  /\ call' = [call EXCEPT ![c] = Idle]
           /\ lock' \in [Rows -> Calls \union {NoCall}]
           /\ \A d \in Calls \ {c}, row \in Rows :
                  lock'[row] = d <=> lock[row] = d
           /\ \A row \in Rows : lock'[row] # c
  BY CallsAssumption DEF TxTables, End

LEMMA EndKeepsInv ==
    ASSUME TxInv, UNCHANGED inventoryVars, NEW c \in Calls, End(c)
    PROVE  TxInv'
<1>1. PICK x : x = Idle
  OBVIOUS
<1>2. call' = [call EXCEPT ![c] = x] /\ x \in {Idle} \union CallRow
  BY <1>1 DEF End
<1>3. /\ lock' \in [Rows -> Calls \union {NoCall}]
      /\ \A d \in Calls \ {c}, row \in Rows : lock'[row] = d <=> lock[row] = d
      /\ \A row \in Rows : lock'[row] # c
  BY EndFacts DEF TxInv
<1>4. QED
  BY <1>1, <1>2, <1>3, CallStep

\* A row is locked only if it is free or the call's own.
LEMMA LockFacts ==
    ASSUME TxTables, NEW c \in Calls, NEW row \in Rows, Grantable(c, row),
           lock' = [lock EXCEPT ![row] = c]
    PROVE  /\ lock' \in [Rows -> Calls \union {NoCall}]
           /\ \A d \in Calls \ {c}, r \in Rows : lock'[r] = d <=> lock[r] = d
           /\ \A r \in Rows : lock'[r] = c <=> lock[r] = c \/ r = row
  BY CallsAssumption DEF TxTables, Grantable

\* The todo list of a call that has just begun.
LEMMA FirstRowsFacts ==
    ASSUME NEW req \in Requests, req.op \notin {"create", "createTransfer"}
    PROVE  /\ FirstRows(req) \in Seq(Rows)
           /\ req.op # "shipment" => FirstRows(req) = <<FirstRow(req)>>
           /\ req.op = "shipment" => FirstRows(req) \in Seq(Items)
<1>1. CASE req.op = "shipment"
  <2>1. FirstRows(req) \in Seq(Items) /\ Items \subseteq Rows
    BY <1>1, RequestFields DEF FirstRows, Rows
  <2>2. QED
    BY <1>1, <2>1, SeqMonotonic
<1>2. CASE req.op # "shipment"
  <2>1. FirstRow(req) \in Rows
    BY <1>2, RequestFields, FirstRowFacts DEF OwnRowOps, Rows
  <2>2. QED
    BY <1>2, <2>1 DEF FirstRows
<1>3. QED
  BY <1>1, <1>2

LEMMA StartKeepsInv ==
    ASSUME TxInv, NEW c \in Calls, NEW req \in Requests, Start(c, req)
    PROVE  TxInv'
<1>1. req.op \notin {"create", "createTransfer"} /\ call[c] = Idle
  BY DEF Start
<1>2. PICK todo \in Seq(Rows) : todo = FirstRows(req)
  BY <1>1, FirstRowsFacts
<1>3. PICK copies : copies = [i \in {} |-> 0]
  OBVIOUS
<1>4. DOMAIN copies = {} /\ copies \in [{} -> ItemRow]
  BY <1>3
<1>5. PICK x : x = [state |-> "running", request |-> req, todo |-> todo,
                    copies |-> copies, inserts |-> {}]
  OBVIOUS
<1>6. /\ call' = [call EXCEPT ![c] = x]
      /\ UNCHANGED <<inventoryVars, lock>>
  BY <1>2, <1>3, <1>5 DEF Start
<1>7. /\ x.state = "running" /\ x.request = req /\ x.todo = todo
      /\ x.copies = copies /\ x.inserts = {}
  BY <1>5
<1>8. copies \in UNION {[D -> ItemRow] : D \in SUBSET Items}
  BY <1>4
<1>9. x \in CallRow
  BY <1>1, <1>5, <1>8 DEF CallRow
<1>10. call'[c] = x /\ x # Idle
  BY <1>6, <1>7 DEF TxInv, TxTables, Idle
<1>11. \A row \in Rows : lock'[row] # c
  BY <1>1, <1>6 DEF TxInv, IdleHoldsNothing
<1>12. CallOK(c)'
  <2>1. CopiesAreFresh(c)'
    BY <1>4, <1>7, <1>10 DEF CopiesAreFresh
  <2>2. InsertsAnItem(c)'
    BY <1>7, <1>10 DEF InsertsAnItem
  <2>3. CASE req.op = "shipment"
    <3>1. todo \in Seq(Items) /\ req.op \notin OwnRowOps
      BY <1>1, <1>2, <2>3, FirstRowsFacts DEF OwnRowOps
    <3>2. {todo[n] : n \in DOMAIN todo} \subseteq Items
      BY <3>1
    <3>3. AtItems(c)'
      BY <1>7, <1>10, <2>3, <3>1, <3>2 DEF AtItems, HoldsOwnRow, Left
    <3>4. LocksInOrder(c)'
      BY <1>7, <1>10, <2>3 DEF LocksInOrder
    <3>5. QED
      BY <2>1, <2>2, <3>3, <3>4 DEF CallOK
  <2>4. CASE req.op # "shipment"
    <3>1. todo = <<FirstRow(req)>>
      BY <1>1, <1>2, <2>4, FirstRowsFacts
    <3>2. LocksInOrder(c)'
      BY <1>7, <1>10, <1>11, <3>1 DEF LocksInOrder
    <3>3. CASE req.op \in OwnRowOps
      <4>1. AtOwnRow(c)'
        BY <1>4, <1>7, <1>10, <3>1, <3>3 DEF AtOwnRow, FirstRow
      <4>2. QED
        BY <2>1, <2>2, <3>2, <4>1 DEF CallOK
    <3>4. CASE req.op \notin OwnRowOps
      <4>1. req.op \in {"adjust", "reserve"}
        BY <1>1, <2>4, <3>4, RequestFields
      <4>2. FirstRow(req) = req.item /\ req.item \in Items
        BY <1>1, <4>1, FirstRowFacts
      <4>3. Left(c)' = {req.item}
        BY <1>7, <1>10, <3>1, <4>2 DEF Left
      <4>4. AtItems(c)'
        BY <1>4, <1>7, <1>10, <3>4, <4>1, <4>2, <4>3
           DEF AtItems, HoldsOwnRow, Needed
      <4>5. QED
        BY <2>1, <2>2, <3>2, <4>4 DEF CallOK
    <3>5. QED
      BY <3>3, <3>4
  <2>5. QED
    BY <2>3, <2>4
<1>13. lock' \in [Rows -> Calls \union {NoCall}]
  BY <1>6 DEF TxInv, TxTables
<1>14. \A d \in Calls \ {c}, row \in Rows : lock'[row] = d <=> lock[row] = d
  BY <1>6
<1>15. x.request.op = "reserve" =>
           /\ reservations[x.request.reservation].status = "none"
           /\ \A d \in Calls : Reserves(d) =>
                  call[d].request.reservation # x.request.reservation
  BY <1>7 DEF Start, Reserves
<1>16. QED
  BY <1>6, <1>9, <1>10, <1>12, <1>13, <1>14, <1>15, CallStep

LEMMA RankFacts ==
    ASSUME NEW row \in Rows
    PROVE  /\ Rank(row) \in Nat
           /\ row \in Items => Rank(row) = 1 + VariantId[row[1]] /\ Rank(row) > 0
           /\ row \notin Items => Rank(row) = 0
<1>1. CASE row \in Items
  <2>1. VariantId[row[1]] \in Nat
    BY <1>1, VariantsAssumption DEF Items
  <2>2. QED
    BY <1>1, <2>1 DEF Rank
<1>2. CASE row \notin Items
  BY <1>2 DEF Rank
<1>3. QED
  BY <1>1, <1>2

\* The items of a reservation or a transfer are finitely many item rows.
LEMMA ItemsAfterFacts ==
    ASSUME TypeOK, NEW req \in Requests, req.op \in OwnRowOps,
           StatusOf(FirstRow(req)) = StatusExpected(req)
    PROVE  ItemsAfter(req) \subseteq Items /\ IsFiniteSet(ItemsAfter(req))
<1>1. CASE req.op \in {"release", "commit"}
  <2>1. PICK r \in ReservationIds : r = req.reservation
    BY <1>1, RequestFields
  <2>2. reservations[r].status = "active"
    BY <1>1, <2>1, FirstRowFacts DEF StatusOf, StatusExpected
  <2>3. reservations[r].item \in Items
    BY <2>2, StoredRow DEF TypeOK
  <2>4. ItemsAfter(req) = {reservations[r].item}
    BY <1>1, <2>1 DEF ItemsAfter
  <2>5. QED
    BY <2>3, <2>4, FS_Singleton
<1>2. CASE req.op \in {"ship", "receive"}
  <2>1. PICK w : ItemsAfter(req) = LineItems(req.transfer, w)
    BY <1>2 DEF ItemsAfter
  <2>2. LineItems(req.transfer, w) \subseteq Variants \X {w}
    BY DEF LineItems, Moves, Items
  <2>3. IsFiniteSet(Variants) /\ IsFiniteSet({w})
    BY VariantsAssumption, FS_Singleton
  <2>4. IsFiniteSet(Variants \X {w})
    BY <2>3, FS_Product
  <2>5. IsFiniteSet(LineItems(req.transfer, w))
    BY <2>2, <2>4, FS_Subset
  <2>6. LineItems(req.transfer, w) \subseteq Items
    BY DEF LineItems
  <2>7. QED
    BY <2>1, <2>5, <2>6
<1>3. CASE req.op = "cancel"
  BY <1>3, FS_EmptySet DEF ItemsAfter
<1>4. QED
  BY <1>1, <1>2, <1>3 DEF OwnRowOps

LEMMA AscendingFacts ==
    ASSUME NEW S, S \subseteq Items, IsFiniteSet(S), NEW s \in Ascending(S)
    PROVE  /\ s \in Seq(Rows)
           /\ {s[n] : n \in DOMAIN s} = S
           /\ \A m, n \in DOMAIN s : m < n => Rank(s[m]) < Rank(s[n])
           /\ \A n \in DOMAIN s : Rank(s[n]) > 0
<1>1. PICK k \in Nat : k = Cardinality(S)
  BY FS_CardinalityType
<1>2. /\ s \in [1..k -> S]
      /\ \A i \in S : \E n \in DOMAIN s : s[n] = i
      /\ \A m, n \in DOMAIN s : m < n => VariantId[s[m][1]] < VariantId[s[n][1]]
  BY <1>1 DEF Ascending
<1>3. s \in Seq(S) /\ S \subseteq Rows
  BY <1>1, <1>2, SeqDef DEF Rows
<1>4. s \in Seq(Rows)
  BY <1>3, SeqMonotonic
<1>5. {s[n] : n \in DOMAIN s} = S
  BY <1>2
<1>6. ASSUME NEW n \in DOMAIN s
      PROVE  /\ s[n] \in Items
             /\ Rank(s[n]) = 1 + VariantId[s[n][1]]
             /\ Rank(s[n]) > 0
             /\ VariantId[s[n][1]] \in Nat
  <2>1. s[n] \in Items
    BY <1>2
  <2>2. s[n] \in Rows
    BY <2>1 DEF Rows
  <2>3. VariantId[s[n][1]] \in Nat
    BY <2>1, VariantsAssumption DEF Items
  <2>4. QED
    BY <2>1, <2>2, <2>3, RankFacts
<1>7. ASSUME NEW m \in DOMAIN s, NEW n \in DOMAIN s, m < n
      PROVE  Rank(s[m]) < Rank(s[n])
  <2>1. VariantId[s[m][1]] < VariantId[s[n][1]]
    BY <1>2, <1>7
  <2>2. QED
    BY <1>6, <2>1
<1>8. QED
  BY <1>4, <1>5, <1>6, <1>7

LEMMA LockOwnRowKeepsInv ==
    ASSUME TxInv, NEW c \in Calls, LockOwnRow(c)
    PROVE  TxInv'
<1>1. PICK k : k = call[c]
  OBVIOUS
<1>2. PICK req : req = k.request
  OBVIOUS
<1>3. PICK row : row = Head(k.todo)
  OBVIOUS
<1>4. InTransaction(c) /\ CallOK(c) /\ k.todo # << >> /\ k.state = "running"
  BY <1>1 DEF TxInv, LockOwnRow, Running, InTransaction
<1>5. /\ k \in CallRow
      /\ req \in Requests
      /\ req.op \notin {"create", "createTransfer"}
      /\ k.todo \in Seq(Rows)
  BY <1>1, <1>2, <1>4, CallFields DEF TxInv
<1>6. row \notin Items /\ Grantable(c, row) /\ UNCHANGED inventoryVars
  BY <1>1, <1>3 DEF LockOwnRow
<1>7. AtOwnRow(c)
  <2>1. row \in Left(c)
    <3>1. row = k.todo[1] /\ 1 \in DOMAIN k.todo
      BY <1>3, <1>4, <1>5
    <3>2. QED
      BY <1>1, <3>1 DEF Left
  <2>2. ~AtItems(c)
    BY <1>6, <2>1 DEF AtItems
  <2>3. QED
    BY <1>4, <2>2 DEF CallOK
<1>8. /\ req.op \in OwnRowOps
      /\ k.todo = <<FirstRow(req)>>
      /\ DOMAIN k.copies = {}
      /\ row = FirstRow(req)
  BY <1>1, <1>2, <1>3, <1>7 DEF AtOwnRow
<1>9. row \in Rows
  BY <1>5, <1>8, FirstRowFacts DEF Rows
<1>10. CASE StatusOf(row) # StatusExpected(req)
  <2>1. End(c)
    BY <1>1, <1>2, <1>3, <1>10 DEF LockOwnRow, StatusOf, Refuse
  <2>2. QED
    BY <1>6, <2>1, EndKeepsInv
<1>11. CASE StatusOf(row) = StatusExpected(req)
  <2>1. PICK items \in Ascending(ItemsAfter(req)) :
            /\ lock' = [lock EXCEPT ![row] = c]
            /\ call' = [call EXCEPT ![c].todo = items]
    BY <1>1, <1>2, <1>3, <1>11 DEF LockOwnRow, StatusOf
  <2>2. PICK S : S = ItemsAfter(req)
    OBVIOUS
  <2>3. S \subseteq Items /\ IsFiniteSet(S)
    BY <1>5, <1>8, <1>11, <2>2, ItemsAfterFacts DEF TxInv, IInv
  <2>4. /\ items \in Seq(Rows)
        /\ {items[n] : n \in DOMAIN items} = S
        /\ \A m, n \in DOMAIN items : m < n => Rank(items[m]) < Rank(items[n])
        /\ \A n \in DOMAIN items : Rank(items[n]) > 0
    BY <2>1, <2>2, <2>3, AscendingFacts
  <2>5. PICK x : x = [k EXCEPT !.todo = items]
    OBVIOUS
  <2>6. /\ x \in CallRow /\ x.state = "running" /\ x.request = req
        /\ x.todo = items /\ x.copies = k.copies /\ x.inserts = k.inserts
    BY <1>2, <1>4, <1>5, <2>4, <2>5 DEF CallRow
  <2>7. call' = [call EXCEPT ![c] = x] /\ call'[c] = x
    BY <1>1, <2>1, <2>5 DEF TxInv, TxTables
  <2>8. /\ lock' \in [Rows -> Calls \union {NoCall}]
        /\ \A d \in Calls \ {c}, r \in Rows : lock'[r] = d <=> lock[r] = d
        /\ \A r \in Rows : lock'[r] = c <=> lock[r] = c \/ r = row
    BY <1>6, <1>9, <2>1, LockFacts DEF TxInv
  <2>9. \A r \in Rows : lock'[r] = c => r = row
    <3>1. ASSUME NEW r \in Rows, lock[r] = c PROVE FALSE
      <4>1. Rank(r) < Rank(row)
        <5>1. req.op # "shipment"
          BY <1>8 DEF OwnRowOps
        <5>2. 1 \in DOMAIN k.todo /\ k.todo[1] = row
          BY <1>8
        <5>3. QED
          BY <1>1, <1>2, <1>4, <3>1, <5>1, <5>2 DEF CallOK, LocksInOrder
      <4>2. QED
        BY <1>6, <1>9, <4>1, RankFacts
    <3>2. QED
      BY <2>8, <3>1
  <2>10. UNCHANGED <<reservations, transfers>>
    BY <1>6 DEF inventoryVars
  <2>11. CallOK(c)'
    <3>1. CopiesAreFresh(c)'
      BY <1>1, <1>4, <1>8, <2>6, <2>7 DEF CallOK, CopiesAreFresh
    <3>2. InsertsAnItem(c)'
      BY <2>6, <2>7 DEF InsertsAnItem
    <3>3. LocksInOrder(c)'
      <4>1. Rank(row) = 0
        BY <1>6, <1>9, RankFacts
      <4>2. QED
        BY <2>4, <2>6, <2>7, <2>9, <4>1 DEF LocksInOrder
    <3>4. AtItems(c)'
      <4>1. StatusOf(row)' = StatusOf(row)
        BY <2>10 DEF StatusOf
      <4>2. lock'[row] = c
        BY <1>9, <2>8
      <4>3. FirstRow(req) = row /\ StatusExpected(req)' = StatusExpected(req)
        BY <1>8 DEF StatusExpected
      <4>4. HoldsOwnRow(c)'
        BY <1>11, <2>6, <2>7, <4>1, <4>2, <4>3 DEF HoldsOwnRow
      <4>5. Left(c)' = S
        BY <2>4, <2>6, <2>7 DEF Left
      <4>6. ItemsAfter(req)' = ItemsAfter(req)
        BY <1>5, <2>10, SameArithmetic
      <4>7. Needed(req)' = S
        BY <1>8, <2>2, <4>6 DEF Needed, OwnRowOps
      <4>8. DOMAIN call'[c].copies = {}
        BY <1>8, <2>6, <2>7
      <4>9. QED
        BY <2>3, <2>6, <2>7, <4>4, <4>5, <4>7, <4>8 DEF AtItems
    <3>5. QED
      BY <3>1, <3>2, <3>3, <3>4 DEF CallOK
  <2>12. x # Idle /\ (x.request.op = "reserve" => FALSE)
    BY <1>8, <2>6 DEF Idle, OwnRowOps
  <2>13. QED
    BY <1>6, <2>6, <2>7, <2>8, <2>11, <2>12, CallStep
<1>12. QED
  BY <1>10, <1>11

LEMMA TailFacts ==
    ASSUME NEW s \in Seq(Rows), s # << >>
    PROVE  /\ Head(s) = s[1] /\ 1 \in DOMAIN s
           /\ Tail(s) \in Seq(Rows)
           /\ \A n \in DOMAIN Tail(s) :
                  n \in Nat /\ n >= 1 /\ n + 1 \in DOMAIN s /\ Tail(s)[n] = s[n + 1]
           /\ {s[n] : n \in DOMAIN s} = {Head(s)} \union {Tail(s)[n] : n \in DOMAIN Tail(s)}
<1>1. Len(s) \in Nat \ {0} /\ DOMAIN s = 1..Len(s)
  BY EmptySeq, LenProperties
<1>2. PICK t \in Seq(Rows) :
          t = Tail(s) /\ Len(t) = Len(s) - 1
          /\ \A n \in 1..Len(t) : t[n] = s[n + 1]
  BY HeadTailProperties
<1>3. DOMAIN t = 1..Len(t)
  BY LenProperties
<1>4. Head(s) = s[1] /\ 1 \in DOMAIN s
  BY <1>1
<1>5. \A n \in DOMAIN t :
          n \in Nat /\ n >= 1 /\ n + 1 \in DOMAIN s /\ t[n] = s[n + 1]
  BY <1>1, <1>2, <1>3
<1>6. ASSUME NEW n \in DOMAIN s, n # 1 PROVE n - 1 \in DOMAIN t /\ t[n - 1] = s[n]
  BY <1>1, <1>2, <1>3, <1>6
<1>7. {s[n] : n \in DOMAIN s} = {Head(s)} \union {t[n] : n \in DOMAIN t}
  <2>1. ASSUME NEW n \in DOMAIN s
        PROVE  s[n] \in {Head(s)} \union {t[m] : m \in DOMAIN t}
    BY <1>4, <1>6
  <2>2. ASSUME NEW n \in DOMAIN t PROVE t[n] \in {s[m] : m \in DOMAIN s}
    BY <1>5
  <2>3. QED
    BY <1>4, <2>1, <2>2, Zenon
<1>8. QED
  BY <1>2, <1>4, <1>5, <1>7

\* What a request adds to an item it has to change.
LEMMA ChangeFacts ==
    ASSUME TypeOK, NEW req \in Requests,
           req.op \notin {"create", "createTransfer", "cancel"},
           req.op \in OwnRowOps =>
               StatusOf(FirstRow(req)) = StatusExpected(req),
           NEW i \in Items
    PROVE  /\ Change(req, i).onHand \in Int
           /\ Change(req, i).reserved \in Int
           /\ req.op \notin {"adjust", "reserve", "ship"} =>
                  Change(req, i).reserved <= 0
<1>1. CASE req.op \in {"release", "commit"}
  <2>1. PICK r \in ReservationIds : r = req.reservation
    BY <1>1, RequestFields
  <2>2. reservations[r].status = "active"
    BY <1>1, <2>1, FirstRowFacts DEF StatusOf, StatusExpected, OwnRowOps
  <2>3. reservations[r].quantity \in 1..MaxInt
    BY <2>2, StoredRow DEF TypeOK, Quantity
  <2>4. PICK q \in 1..MaxInt : q = reservations[r].quantity
    BY <2>3
  <2>5. Change(req, i).onHand \in {0, -q} /\ Change(req, i).reserved = -q
    BY <1>1, <2>1, <2>4 DEF Change
  <2>6. QED
    BY <2>4, <2>5, MaxIntAssumption
<1>2. CASE req.op \in {"ship", "receive"}
  <2>1. PICK t \in TransferIds : t = req.transfer
    BY <1>2, RequestFields
  <2>2. transfers[t].status # "none"
    BY <1>2, <2>1, FirstRowFacts DEF StatusOf, StatusExpected, OwnRowOps
  <2>3. transfers[t].lines \in [Variants -> 0..MaxInt]
    BY <2>2, StoredTransfer
  <2>4. PICK q \in 0..MaxInt : q = transfers[t].lines[i[1]]
    BY <2>3 DEF Items
  <2>5. Change(req, i).onHand \in {q, -q} /\ Change(req, i).reserved = 0
    BY <1>2, <2>1, <2>4 DEF Change
  <2>6. QED
    BY <2>4, <2>5, MaxIntAssumption
<1>3. CASE req.op = "adjust"
  BY <1>3, RequestFields DEF Change
<1>4. CASE req.op = "reserve"
  BY <1>4, RequestFields, QuantityIsNat DEF Change
<1>5. CASE req.op = "shipment"
  BY <1>5 DEF Change
<1>6. QED
  BY <1>1, <1>2, <1>3, <1>4, <1>5, RequestFields DEF OwnRowOps

\* What a call accepts to write fits the columns.
LEMMA WrittenFits ==
    ASSUME TypeOK, NEW req \in Requests,
           req.op \notin {"create", "createTransfer", "cancel"},
           req.op \in OwnRowOps =>
               StatusOf(FirstRow(req)) = StatusExpected(req),
           NEW i \in Items, Accepts(req, i, Committed(i))
    PROVE  Written(req, i, Committed(i)) \in ItemRow
<1>1. PICK change : change = Change(req, i)
  OBVIOUS
<1>2. PICK w : w = Written(req, i, Committed(i))
  OBVIOUS
<1>3. /\ change.onHand \in Int /\ change.reserved \in Int
      /\ req.op \notin {"adjust", "reserve", "ship"} => change.reserved <= 0
  BY <1>1, ChangeFacts
<1>4. /\ w.onHand \in 0..MaxInt
      /\ req.op \in {"adjust", "reserve", "ship"} => w.reserved <= w.onHand
  BY <1>2 DEF Accepts
<1>5. PICK n \in 0..MaxInt : n = reserved[i]
  BY DEF TypeOK
<1>6. /\ w = [onHand |-> w.onHand, reserved |-> w.reserved]
      /\ w.reserved = AtLeastZero(n + change.reserved)
  BY <1>1, <1>2, <1>5 DEF Written, Committed
<1>7. w.reserved \in 0..MaxInt
  <2>1. CASE req.op \in {"adjust", "reserve", "ship"}
    BY <1>3, <1>4, <1>5, <1>6, <2>1, MaxIntAssumption DEF AtLeastZero
  <2>2. CASE req.op \notin {"adjust", "reserve", "ship"}
    BY <1>3, <1>5, <1>6, <2>2, MaxIntAssumption DEF AtLeastZero
  <2>3. QED
    BY <2>1, <2>2
<1>8. QED
  BY <1>2, <1>4, <1>6, <1>7 DEF ItemRow

\* As long as nothing is committed a request makes the same of every row.
LEMMA SameTables ==
    ASSUME UNCHANGED inventoryVars, NEW req
    PROVE  /\ \A i : Committed(i)' = Committed(i)
           /\ \A i : Written(req, i, Committed(i))' = Written(req, i, Committed(i))
           /\ \A i : Accepts(req, i, Committed(i))' <=> Accepts(req, i, Committed(i))
           /\ ItemsAfter(req)' = ItemsAfter(req)
           /\ Needed(req)' = Needed(req)
           /\ StatusOf(FirstRow(req))' = StatusOf(FirstRow(req))
           /\ UNCHANGED <<rows, onHand, reserved, reservations, transfers>>
<1>1. UNCHANGED <<rows, onHand, reserved, reservations, transfers>>
  BY DEF inventoryVars
<1>2. ASSUME NEW i
      PROVE  /\ Committed(i)' = Committed(i)
             /\ Written(req, i, Committed(i))' = Written(req, i, Committed(i))
             /\ Accepts(req, i, Committed(i))' <=> Accepts(req, i, Committed(i))
  <2>1. Committed(i)' = Committed(i)
    BY <1>1 DEF Committed
  <2>2. Change(req, i)' = Change(req, i)
    BY <1>1 DEF Change
  <2>3. Written(req, i, Committed(i))' = Written(req, i, Committed(i))
    BY <2>1, <2>2 DEF Written, AtLeastZero
  <2>4. Accepts(req, i, Committed(i))' <=> Accepts(req, i, Committed(i))
    BY <2>3, Zenon DEF Accepts
  <2>5. QED
    BY <2>1, <2>3, <2>4
<1>3. ItemsAfter(req)' = ItemsAfter(req)
  <2>1. \A t, w : LineItems(t, w)' = LineItems(t, w)
    BY <1>1, Zenon DEF LineItems, Moves
  <2>2. QED
    BY <1>1, <2>1 DEF ItemsAfter
<1>4. Needed(req)' = Needed(req)
  BY <1>3 DEF Needed
<1>5. StatusOf(FirstRow(req))' = StatusOf(FirstRow(req))
  BY <1>1 DEF StatusOf, FirstRow
<1>6. QED
  BY <1>1, <1>2, <1>3, <1>4, <1>5

LEMMA MissItemKeepsInv ==
    ASSUME TxInv, NEW c \in Calls, MissItem(c)
    PROVE  TxInv'
<1>1. PICK k : k = call[c]
  OBVIOUS
<1>2. /\ InTransaction(c) /\ CallOK(c) /\ k.todo # << >>
      /\ Head(k.todo) \in Items /\ UNCHANGED inventoryVars
  BY <1>1 DEF TxInv, MissItem, Running, InTransaction, NextItem
<1>3. k \in CallRow
  BY <1>1, <1>2, CallFields DEF TxInv
<1>4. CASE ~InsertsMissing(k.request)
  BY <1>1, <1>2, <1>4, EndKeepsInv DEF MissItem, Refuse
<1>5. CASE InsertsMissing(k.request)
  <2>1. PICK x : x = [k EXCEPT !.state = "inserting"]
    OBVIOUS
  <2>2. /\ x \in CallRow /\ x.state = "inserting" /\ x.request = k.request
        /\ x.todo = k.todo /\ x.copies = k.copies /\ x.inserts = k.inserts
    BY <1>3, <2>1 DEF CallRow
  <2>3. call' = [call EXCEPT ![c] = x] /\ call'[c] = x /\ UNCHANGED lock
    BY <1>1, <1>5, <2>1 DEF MissItem, TxInv, TxTables
  <2>4. PICK req : req = k.request
    OBVIOUS
  <2>5. /\ \A i : Written(req, i, Committed(i))' = Written(req, i, Committed(i))
        /\ \A i : Accepts(req, i, Committed(i))' <=> Accepts(req, i, Committed(i))
        /\ Needed(req)' = Needed(req)
        /\ StatusOf(FirstRow(req))' = StatusOf(FirstRow(req))
        /\ UNCHANGED rows
    BY <1>2, SameTables
  <2>6. CallOK(c)'
    <3>1. CopiesAreFresh(c)'
      <4>1. CopiesAreFresh(c)
        BY <1>2 DEF CallOK
      <4>2. QED
        BY <1>1, <2>2, <2>3, <2>4, <2>5, <4>1 DEF CopiesAreFresh
    <3>2. InsertsAnItem(c)'
      BY <1>2, <1>5, <2>2, <2>3 DEF InsertsAnItem
    <3>3. LocksInOrder(c)'
      <4>1. LocksInOrder(c)
        BY <1>2 DEF CallOK
      <4>2. QED
        BY <1>1, <2>2, <2>3, <4>1 DEF LocksInOrder
    <3>4. AtOwnRow(c)' \/ AtItems(c)'
      <4>1. CASE AtOwnRow(c)
        BY <1>1, <2>2, <2>3, <4>1 DEF AtOwnRow, FirstRow
      <4>2. CASE AtItems(c)
        <5>1. HoldsOwnRow(c)'
          BY <1>1, <2>2, <2>3, <2>4, <2>5, <4>2
             DEF AtItems, HoldsOwnRow, FirstRow, StatusExpected
        <5>2. Left(c)' = Left(c)
          BY <1>1, <2>2, <2>3 DEF Left
        <5>3. QED
          BY <1>1, <2>2, <2>3, <2>4, <2>5, <4>2, <5>1, <5>2 DEF AtItems
      <4>3. QED
        BY <1>2, <4>1, <4>2 DEF CallOK
    <3>5. QED
      BY <3>1, <3>2, <3>3, <3>4 DEF CallOK
  <2>7. lock' \in [Rows -> Calls \union {NoCall}]
    BY <2>3 DEF TxInv, TxTables
  <2>8. x # Idle /\ (x.request.op = "reserve" => Reserves(c))
    BY <1>1, <1>2, <2>2 DEF Idle, Reserves
  <2>9. QED
    BY <1>1, <1>2, <2>2, <2>3, <2>6, <2>7, <2>8, CallStep
<1>6. QED
  BY <1>4, <1>5

\* A call at its items holds the row that its request is about.
LEMMA ItemAtHand ==
    ASSUME TxInv, NEW c \in Calls, InTransaction(c), call[c].todo # << >>,
           Head(call[c].todo) \in Items
    PROVE  AtItems(c) /\ call[c].request.op # "cancel"
<1>1. PICK k : k = call[c]
  OBVIOUS
<1>2. /\ k.request \in Requests
      /\ k.request.op \notin {"create", "createTransfer"}
      /\ k.todo \in Seq(Rows)
      /\ CallOK(c)
  BY <1>1, CallFields DEF TxInv
<1>3. Head(k.todo) = k.todo[1] /\ 1 \in DOMAIN k.todo
  BY <1>1, <1>2, TailFacts
<1>4. ~AtOwnRow(c)
  <2>1. SUFFICES ASSUME AtOwnRow(c) PROVE FALSE
    OBVIOUS
  <2>2. k.todo[1] = FirstRow(k.request) /\ k.request.op \in OwnRowOps
    BY <1>1, <2>1 DEF AtOwnRow
  <2>3. QED
    BY <1>1, <1>2, <1>3, <2>2, FirstRowFacts
<1>5. AtItems(c)
  BY <1>2, <1>4 DEF CallOK
<1>6. k.request.op # "cancel"
  <2>1. Head(k.todo) \in Left(c)
    BY <1>1, <1>3 DEF Left
  <2>2. k.request.op = "cancel" => Needed(k.request) = {}
    BY DEF Needed, ItemsAfter
  <2>3. QED
    BY <1>1, <1>5, <2>1, <2>2 DEF AtItems
<1>7. QED
  BY <1>1, <1>5, <1>6

\* The call's next item row is its own now, and what it will write is made of
\* the row as it is.
LEMMA UseKeepsInv ==
    ASSUME TxInv, UNCHANGED inventoryVars, NEW c \in Calls, InTransaction(c),
           call[c].todo # << >>, NEW i \in Items, i = Head(call[c].todo),
           Grantable(c, i), NEW inserted,
           \/ inserted = {} /\ i \in rows
           \/ inserted = {i} /\ i \notin rows /\ InsertsMissing(call[c].request),
           Use(c, i, Committed(i), inserted)
    PROVE  TxInv'
<1>1. PICK k : k = call[c]
  OBVIOUS
<1>2. PICK req : req = k.request
  OBVIOUS
<1>3. /\ k \in CallRow
      /\ req \in Requests
      /\ req.op \notin {"create", "createTransfer"}
      /\ k.todo \in Seq(Rows) /\ k.todo # << >> /\ i = Head(k.todo)
      /\ k.copies \in [DOMAIN k.copies -> ItemRow]
      /\ DOMAIN k.copies \subseteq Items
      /\ k.inserts \subseteq Items
      /\ CallOK(c)
  BY <1>1, <1>2, CallFields DEF TxInv
<1>4. AtItems(c) /\ req.op # "cancel"
  BY <1>1, <1>2, <1>3, ItemAtHand
<1>5. CASE ~Accepts(req, i, Committed(i))
  BY <1>1, <1>2, <1>5, EndKeepsInv DEF Use, Refuse
<1>6. CASE Accepts(req, i, Committed(i))
  <2>1. PICK w : w = Written(req, i, Committed(i))
    OBVIOUS
  <2>2. w \in ItemRow
    <3>1. req.op \in OwnRowOps => StatusOf(FirstRow(req)) = StatusExpected(req)
      BY <1>1, <1>2, <1>4 DEF AtItems, HoldsOwnRow
    <3>2. QED
      BY <1>3, <1>4, <1>6, <2>1, <3>1, WrittenFits DEF TxInv, IInv
  <2>3. PICK todo \in Seq(Rows) :
            /\ todo = Tail(k.todo)
            /\ \A n \in DOMAIN todo : /\ n \in Nat /\ n >= 1
                                      /\ n + 1 \in DOMAIN k.todo
                                      /\ todo[n] = k.todo[n + 1]
            /\ {k.todo[n] : n \in DOMAIN k.todo}
                   = {i} \union {todo[n] : n \in DOMAIN todo}
            /\ i = k.todo[1] /\ 1 \in DOMAIN k.todo
    BY <1>3, TailFacts
  <2>4. PICK copies : copies = [j \in DOMAIN k.copies \union {i} |->
                                   IF j = i THEN w ELSE k.copies[j]]
    OBVIOUS
  <2>5. /\ DOMAIN copies = DOMAIN k.copies \union {i}
        /\ copies[i] = w
        /\ \A j \in DOMAIN k.copies : j # i => copies[j] = k.copies[j]
        /\ copies \in UNION {[D -> ItemRow] : D \in SUBSET Items}
    <3>1. copies \in [DOMAIN k.copies \union {i} -> ItemRow]
      BY <1>3, <2>2, <2>4
    <3>2. DOMAIN k.copies \union {i} \in SUBSET Items
      BY <1>3
    <3>3. copies \in UNION {[D -> ItemRow] : D \in SUBSET Items}
      BY <3>1, <3>2
    <3>4. QED
      BY <2>4, <3>3
  <2>6. PICK inserts : inserts = k.inserts \union inserted
    OBVIOUS
  <2>7. PICK x : x = [k EXCEPT !.state = "running", !.todo = todo,
                               !.copies = copies, !.inserts = inserts]
    OBVIOUS
  <2>8. /\ x.state = "running" /\ x.request = req /\ x.todo = todo
        /\ x.copies = copies /\ x.inserts = inserts
    BY <1>2, <1>3, <2>7 DEF CallRow
  <2>9. x \in CallRow
    <3>1. inserts \subseteq Items
      BY <1>3, <2>6
    <3>2. QED
      BY <1>3, <2>3, <2>5, <2>7, <3>1 DEF CallRow
  <2>10. lock' = [lock EXCEPT ![i] = c]
    BY <1>1, <1>2, <1>6 DEF Use
  <2>11. call' = [call EXCEPT ![c] = x]
    <3>1. call' = [call EXCEPT
              ![c].state = "running",
              ![c].todo = Tail(@),
              ![c].copies = [j \in DOMAIN @ \union {i} |->
                  IF j = i THEN w ELSE @[j]],
              ![c].inserts = @ \union inserted]
      BY <1>1, <1>2, <1>6, <2>1 DEF Use
    <3>2. QED
      BY <1>1, <2>3, <2>4, <2>6, <2>7, <3>1
  <2>12. call'[c] = x
    BY <2>11 DEF TxInv, TxTables
  <2>13. /\ lock' \in [Rows -> Calls \union {NoCall}]
         /\ \A d \in Calls \ {c}, r \in Rows : lock'[r] = d <=> lock[r] = d
         /\ \A r \in Rows : lock'[r] = c <=> lock[r] = c \/ r = i
         /\ i \in Rows
    BY <2>10, LockFacts DEF TxInv, Rows
  <2>14. /\ \A j : Written(req, j, Committed(j))' = Written(req, j, Committed(j))
         /\ \A j : Accepts(req, j, Committed(j))' <=> Accepts(req, j, Committed(j))
         /\ Needed(req)' = Needed(req)
         /\ StatusOf(FirstRow(req))' = StatusOf(FirstRow(req))
         /\ UNCHANGED rows
    BY SameTables
  <2>15. CopiesAreFresh(c)'
    <3>1. /\ k.inserts \subseteq DOMAIN k.copies
          /\ \A j \in DOMAIN k.copies :
                 /\ lock[j] = c
                 /\ Accepts(req, j, Committed(j))
                 /\ k.copies[j] = Written(req, j, Committed(j))
                 /\ j \in k.inserts <=> j \notin rows
                 /\ j \in k.inserts => InsertsMissing(req)
      BY <1>1, <1>2, <1>3 DEF CallOK, CopiesAreFresh
    <3>2. ASSUME NEW j \in DOMAIN copies
          PROVE  /\ lock'[j] = c
                 /\ Accepts(req, j, Committed(j))'
                 /\ copies[j] = Written(req, j, Committed(j))'
                 /\ j \in inserts <=> j \notin rows'
                 /\ j \in inserts => InsertsMissing(req)
      <4>1. CASE j = i
        <5>1. i \in k.inserts => i \notin rows /\ InsertsMissing(req)
          BY <3>1
        <5>2. QED
          BY <1>1, <1>2, <1>6, <2>1, <2>5, <2>6, <2>13, <2>14, <4>1, <5>1
      <4>2. CASE j # i
        <5>1. j \in DOMAIN k.copies /\ j \in Rows
          BY <1>3, <2>5, <4>2 DEF Rows
        <5>2. QED
          BY <2>5, <2>6, <2>13, <2>14, <3>1, <4>2, <5>1
      <4>3. QED
        BY <4>1, <4>2
    <3>3. inserts \subseteq DOMAIN copies
      BY <2>5, <2>6, <3>1
    <3>4. QED
      BY <2>8, <2>12, <3>2, <3>3 DEF CopiesAreFresh, InsertsMissing
  <2>16. InsertsAnItem(c)'
    BY <2>8, <2>12 DEF InsertsAnItem
  <2>17. LocksInOrder(c)'
    <3>1. CASE req.op # "shipment"
      <4>1. /\ \A m, n \in DOMAIN k.todo : m < n => Rank(k.todo[m]) < Rank(k.todo[n])
            /\ \A row \in Rows, n \in DOMAIN k.todo :
                   lock[row] = c => Rank(row) < Rank(k.todo[n])
        BY <1>1, <1>2, <1>3, <3>1 DEF CallOK, LocksInOrder
      <4>2. ASSUME NEW m \in DOMAIN todo, NEW n \in DOMAIN todo, m < n
            PROVE  Rank(todo[m]) < Rank(todo[n])
        <5>1. /\ m + 1 \in DOMAIN k.todo /\ todo[m] = k.todo[m + 1]
              /\ n + 1 \in DOMAIN k.todo /\ todo[n] = k.todo[n + 1]
              /\ m + 1 < n + 1
          BY <2>3, <4>2
        <5>2. QED
          BY <4>1, <5>1
      <4>3. ASSUME NEW row \in Rows, lock'[row] = c, NEW n \in DOMAIN todo
            PROVE  Rank(row) < Rank(todo[n])
        <5>1. /\ n + 1 \in DOMAIN k.todo /\ todo[n] = k.todo[n + 1]
              /\ 1 < n + 1
          BY <2>3
        <5>2. CASE row = i
          BY <2>3, <4>1, <5>1, <5>2
        <5>3. CASE lock[row] = c
          BY <4>1, <5>1, <5>3
        <5>4. QED
          BY <2>13, <4>3, <5>2, <5>3
      <4>4. QED
        BY <2>8, <2>12, <4>2, <4>3 DEF LocksInOrder
    <3>2. CASE req.op = "shipment"
      BY <2>8, <2>12, <3>2 DEF LocksInOrder
    <3>3. QED
      BY <3>1, <3>2
  <2>18. AtItems(c)'
    <3>1. HoldsOwnRow(c)'
      <4>1. CASE req.op \in OwnRowOps
        <5>1. /\ lock[FirstRow(req)] = c
              /\ StatusOf(FirstRow(req)) = StatusExpected(req)
          BY <1>1, <1>2, <1>4, <4>1 DEF AtItems, HoldsOwnRow
        <5>2. FirstRow(req) \in Rows
          BY <1>3, <4>1, FirstRowFacts DEF Rows
        <5>3. /\ lock'[FirstRow(req)] = c
              /\ StatusOf(FirstRow(req))' = StatusExpected(req)
          BY <2>13, <2>14, <4>1, <5>1, <5>2
        <5>4. QED
          BY <2>8, <2>12, <5>3 DEF HoldsOwnRow
      <4>2. CASE req.op \notin OwnRowOps
        BY <2>8, <2>12, <4>2 DEF HoldsOwnRow
      <4>3. QED
        BY <4>1, <4>2
    <3>2. PICK left : left = {todo[n] : n \in DOMAIN todo}
      OBVIOUS
    <3>3. Left(c) = {i} \union left /\ Left(c)' = left
      <4>1. Left(c) = {k.todo[n] : n \in DOMAIN k.todo}
        BY <1>1 DEF Left
      <4>2. Left(c)' = left
        BY <2>8, <2>12, <3>2 DEF Left
      <4>3. QED
        BY <2>3, <3>2, <4>1, <4>2, Zenon
    <3>4. /\ Left(c) \subseteq Items
          /\ req.op # "shipment" => Left(c) \union DOMAIN k.copies = Needed(req)
      BY <1>1, <1>2, <1>4 DEF AtItems
    <3>5. /\ left \subseteq Items
          /\ req.op # "shipment" => left \union DOMAIN copies = Needed(req)
      BY <2>5, <3>3, <3>4
    <3>6. QED
      BY <2>8, <2>12, <2>14, <3>1, <3>3, <3>5 DEF AtItems
  <2>19. CallOK(c)'
    BY <2>15, <2>16, <2>17, <2>18 DEF CallOK
  <2>20. x # Idle /\ (x.request.op = "reserve" => Reserves(c))
         /\ x.request = call[c].request
    BY <1>1, <1>2, <2>8 DEF Idle, Reserves
  <2>21. QED
    BY <2>9, <2>11, <2>13, <2>19, <2>20, CallStep
<1>7. QED
  BY <1>5, <1>6

LEMMA LockItemKeepsInv ==
    ASSUME TxInv, NEW c \in Calls, LockItem(c)
    PROVE  TxInv'
<1>1. PICK i : i = NextItem(c)
  OBVIOUS
<1>2. /\ InTransaction(c) /\ call[c].todo # << >> /\ i = Head(call[c].todo)
      /\ i \in rows /\ Grantable(c, i) /\ UNCHANGED inventoryVars
      /\ Use(c, i, Committed(i), {})
  BY <1>1 DEF LockItem, Running, InTransaction, NextItem, Committed
<1>3. i \in Items
  BY <1>2 DEF TxInv, IInv, TypeOK
<1>4. QED
  BY <1>2, <1>3, UseKeepsInv

LEMMA InsertItemKeepsInv ==
    ASSUME TxInv, NEW c \in Calls, InsertItem(c)
    PROVE  TxInv'
<1>1. PICK i : i = NextItem(c)
  OBVIOUS
<1>2. /\ InTransaction(c) /\ call[c].state = "inserting"
      /\ call[c].todo # << >> /\ i = Head(call[c].todo)
      /\ Grantable(c, i) /\ UNCHANGED inventoryVars
  BY <1>1 DEF InsertItem, InTransaction, NextItem
<1>3. i \in Items /\ InsertsMissing(call[c].request)
  BY <1>2 DEF TxInv, CallOK, InsertsAnItem
<1>4. CASE i \in rows
  BY <1>1, <1>2, <1>4, EndKeepsInv DEF InsertItem, Refuse
<1>5. CASE i \notin rows
  <2>1. Committed(i) = [onHand |-> 0, reserved |-> 0]
    <3>1. onHand[i] = 0
      BY <1>3, <1>5 DEF TxInv, IInv, NoRowNoStock
    <3>2. reserved[i] = 0
      BY <1>3, <3>1, MaxIntAssumption DEF TxInv, IInv, TypeOK, ReservedWithinOnHand
    <3>3. QED
      BY <3>1, <3>2 DEF Committed
  <2>2. Use(c, i, Committed(i), {i})
    BY <1>1, <1>5, <2>1 DEF InsertItem
  <2>3. QED
    BY <1>2, <1>3, <1>5, <2>2, UseKeepsInv
<1>6. QED
  BY <1>4, <1>5

-----------------------------------------------------------------------------
(***************************************************************************)
(* The steps that commit are steps of Inventory                            *)
(***************************************************************************)

\* What a call that has locked all its rows knows when it commits, and what it
\* makes of the item rows.
Commits(c, req, D, inserts) ==
    /\ req \in Requests
    /\ req.op \notin {"create", "createTransfer"}
    /\ req.op \in OwnRowOps => StatusOf(FirstRow(req)) = StatusExpected(req)
    /\ D \subseteq Items
    /\ req.op # "shipment" => D = Needed(req)
    /\ inserts \subseteq D
    /\ \A i \in D :
           /\ lock[i] = c
           /\ Accepts(req, i, Committed(i))
           /\ i \in inserts <=> i \notin rows
           /\ i \in inserts => InsertsMissing(req)
    /\ rows' = rows \union inserts
    /\ onHand' = [i \in Items |->
           IF i \in D THEN onHand[i] + Change(req, i).onHand ELSE onHand[i]]
    /\ reserved' = [i \in Items |->
           IF i \in D THEN AtLeastZero(reserved[i] + Change(req, i).reserved)
                      ELSE reserved[i]]
    /\ req.op \notin {"adjust", "ship", "receive"} => adjustments' = adjustments
    /\ req.op = "adjust" => adjustments' = [i \in Items |->
           IF i \in D THEN [adjustments[i] EXCEPT !.manual =
                               @ + Change(req, i).onHand]
                      ELSE adjustments[i]]
    /\ req.op \in {"ship", "receive"} => adjustments' = [i \in Items |->
           IF i \in D THEN [adjustments[i] EXCEPT !.transfer =
                               @ + Change(req, i).onHand]
                      ELSE adjustments[i]]
    /\ WriteOwnRow(req)
    /\ opening' = opening

LEMMA FinishCommits ==
    ASSUME TxInv, NEW c \in Calls, Finish(c)
    PROVE  /\ InTransaction(c) /\ HoldsOwnRow(c)
           /\ Commits(c, call[c].request, DOMAIN call[c].copies, call[c].inserts)
<1>1. PICK k : k = call[c]
  OBVIOUS
<1>2. PICK req, D, inserts :
          req = k.request /\ D = DOMAIN k.copies /\ inserts = k.inserts
  OBVIOUS
<1>3. InTransaction(c) /\ CallOK(c) /\ k.todo = << >>
  BY <1>1 DEF TxInv, Finish, Running, InTransaction
<1>4. /\ req \in Requests
      /\ req.op \notin {"create", "createTransfer"}
      /\ D \subseteq Items
  BY <1>1, <1>2, <1>3, CallFields DEF TxInv
<1>5. AtItems(c)
  <2>1. << >> # <<FirstRow(req)>>
    OBVIOUS
  <2>2. QED
    BY <1>1, <1>2, <1>3, <2>1 DEF CallOK, AtOwnRow
<1>6. Left(c) = {}
  BY <1>1, <1>3 DEF Left
<1>7. /\ req.op \in OwnRowOps => StatusOf(FirstRow(req)) = StatusExpected(req)
      /\ req.op # "shipment" => D = Needed(req)
  BY <1>1, <1>2, <1>5, <1>6 DEF AtItems, HoldsOwnRow
<1>8. /\ inserts \subseteq D
      /\ \A i \in D : /\ lock[i] = c
                      /\ Accepts(req, i, Committed(i))
                      /\ k.copies[i] = Written(req, i, Committed(i))
                      /\ i \in inserts <=> i \notin rows
                      /\ i \in inserts => InsertsMissing(req)
  BY <1>1, <1>2, <1>3 DEF CallOK, CopiesAreFresh
<1>9. \A i \in D :
          /\ k.copies[i].onHand = onHand[i] + Change(req, i).onHand
          /\ k.copies[i].reserved = AtLeastZero(reserved[i] + Change(req, i).reserved)
  <2>1. ASSUME NEW i \in D
        PROVE  Written(req, i, Committed(i)) =
                   [onHand |-> onHand[i] + Change(req, i).onHand,
                    reserved |-> AtLeastZero(reserved[i] + Change(req, i).reserved)]
    BY DEF Written, Committed
  <2>2. QED
    BY <1>8, <2>1
<1>10. WriteItems(c) /\ WriteOwnRow(req) /\ opening' = opening
  BY <1>1, <1>2 DEF Finish
<1>11. /\ rows' = rows \union inserts
       /\ onHand' = [i \in Items |->
              IF i \in D THEN onHand[i] + Change(req, i).onHand ELSE onHand[i]]
       /\ reserved' = [i \in Items |->
              IF i \in D THEN AtLeastZero(reserved[i] + Change(req, i).reserved)
                         ELSE reserved[i]]
  <2>1. /\ rows' = rows \union inserts
        /\ onHand' = [i \in Items |->
               IF i \in D THEN k.copies[i].onHand ELSE onHand[i]]
        /\ reserved' = [i \in Items |->
               IF i \in D THEN k.copies[i].reserved ELSE reserved[i]]
    BY <1>1, <1>2, <1>10 DEF WriteItems
  <2>2. QED
    BY <1>9, <2>1, Zenon
<1>12. /\ req.op \notin {"adjust", "ship", "receive"} => adjustments' = adjustments
       /\ req.op = "adjust" => adjustments' = [i \in Items |->
              IF i \in D THEN [adjustments[i] EXCEPT !.manual =
                                  @ + Change(req, i).onHand]
                         ELSE adjustments[i]]
       /\ req.op \in {"ship", "receive"} => adjustments' = [i \in Items |->
              IF i \in D THEN [adjustments[i] EXCEPT !.transfer =
                                  @ + Change(req, i).onHand]
                         ELSE adjustments[i]]
  BY <1>1, <1>2, <1>10 DEF WriteItems
<1>13. Commits(c, req, D, inserts)
  BY <1>4, <1>7, <1>8, <1>10, <1>11, <1>12, Zenon DEF Commits
<1>14. HoldsOwnRow(c)
  BY <1>5 DEF AtItems
<1>15. QED
  BY <1>1, <1>2, <1>3, <1>13, <1>14

LEMMA CommitsOneItem ==
    ASSUME IInv, NEW c \in Calls, NEW req, NEW D, NEW inserts,
           Commits(c, req, D, inserts), NEW i \in Items, D = {i}
    PROVE  /\ onHand' = [onHand EXCEPT ![i] = onHand[i] + Change(req, i).onHand]
           /\ reserved' = [reserved EXCEPT
                  ![i] = AtLeastZero(reserved[i] + Change(req, i).reserved)]
<1>1. PICK v, w : /\ v = onHand[i] + Change(req, i).onHand
                  /\ w = AtLeastZero(reserved[i] + Change(req, i).reserved)
  OBVIOUS
<1>2. /\ onHand' = [j \in Items |-> IF j = i THEN v ELSE onHand[j]]
      /\ reserved' = [j \in Items |-> IF j = i THEN w ELSE reserved[j]]
  BY <1>1 DEF Commits
<1>3. /\ onHand \in [Items -> 0..MaxInt]
      /\ reserved \in [Items -> 0..MaxInt]
  BY DEF IInv, TypeOK
<1>4. /\ onHand' = [onHand EXCEPT ![i] = v]
      /\ reserved' = [reserved EXCEPT ![i] = w]
  BY <1>2, <1>3
<1>5. QED
  BY <1>1, <1>4

LEMMA CommitsAdjust ==
    ASSUME IInv, NEW c \in Calls, NEW req, NEW D, NEW inserts,
           Commits(c, req, D, inserts), req.op = "adjust"
    PROVE  ItemNext
<1>1. PICK i \in Items, delta \in Int \ {0} : i = req.item /\ delta = req.delta
  BY RequestFields DEF Commits
<1>2. D = {i}
  BY <1>1 DEF Commits, Needed
<1>3. Change(req, i) = [onHand |-> delta, reserved |-> 0]
  BY <1>1 DEF Change
<1>4. /\ onHand \in [Items -> 0..MaxInt] /\ reserved \in [Items -> 0..MaxInt]
      /\ adjustments \in [Items -> [manual : Int, transfer : Int]]
      /\ rows \subseteq Items
  BY DEF IInv, TypeOK
<1>5. AtLeastZero(reserved[i] + 0) = reserved[i]
  BY <1>4, MaxIntAssumption DEF AtLeastZero
<1>6. /\ onHand[i] + delta \in 0..MaxInt
      /\ onHand[i] + delta >= reserved[i]
  <2>1. Accepts(req, i, Committed(i))
    BY <1>2 DEF Commits
  <2>2. Written(req, i, Committed(i)) =
            [onHand |-> onHand[i] + delta, reserved |-> reserved[i]]
    BY <1>3, <1>5 DEF Written, Committed
  <2>3. onHand[i] + delta \in 0..MaxInt /\ reserved[i] <= onHand[i] + delta
    BY <2>1, <2>2 DEF Accepts
  <2>4. QED
    BY <1>1, <1>4, <2>3, MaxIntAssumption
<1>7. rows' = rows \union {i}
  <2>1. i \in inserts <=> i \notin rows
    BY <1>2 DEF Commits
  <2>2. inserts \subseteq {i} /\ rows' = rows \union inserts
    BY <1>2 DEF Commits
  <2>3. QED
    BY <2>1, <2>2
<1>8. onHand' = [onHand EXCEPT ![i] = @ + delta]
  BY <1>2, <1>3, CommitsOneItem
<1>9. adjustments' = [adjustments EXCEPT ![i].manual = @ + delta]
  BY <1>2, <1>3, <1>4 DEF Commits
<1>10. reserved' = reserved
  <2>1. reserved' = [reserved EXCEPT ![i] = reserved[i]]
    BY <1>2, <1>3, <1>5, CommitsOneItem
  <2>2. QED
    BY <1>4, <2>1
<1>11. UNCHANGED <<reservations, transfers, opening>>
  BY DEF Commits, WriteOwnRow
<1>12. delta \in -MaxInt..MaxInt
  BY <1>1, <1>4, <1>6, MaxIntAssumption
<1>13. Adjust(i, delta)
  BY <1>1, <1>6, <1>7, <1>8, <1>9, <1>10, <1>11 DEF Adjust
<1>14. QED
  BY <1>12, <1>13 DEF ItemNext

LEMMA CommitsReserve ==
    ASSUME IInv, NEW c \in Calls, NEW req, NEW D, NEW inserts,
           Commits(c, req, D, inserts), req.op = "reserve",
           reservations[req.reservation].status = "none"
    PROVE  ReservationNext
<1>1. PICK r \in ReservationIds, i \in Items, q \in Quantity :
          r = req.reservation /\ i = req.item /\ q = req.quantity
  BY RequestFields DEF Commits
<1>2. D = {i}
  BY <1>1 DEF Commits, Needed
<1>3. Change(req, i) = [onHand |-> 0, reserved |-> q]
  BY <1>1 DEF Change
<1>4. /\ onHand \in [Items -> 0..MaxInt] /\ reserved \in [Items -> 0..MaxInt]
      /\ rows \subseteq Items /\ q \in Nat /\ q > 0
  BY QuantityIsNat DEF IInv, TypeOK, Quantity
<1>5. AtLeastZero(reserved[i] + q) = reserved[i] + q
  BY <1>4, MaxIntAssumption DEF AtLeastZero
<1>6. reserved[i] + q <= onHand[i]
  <2>1. Accepts(req, i, Committed(i))
    BY <1>2 DEF Commits
  <2>2. Written(req, i, Committed(i)) =
            [onHand |-> onHand[i] + 0, reserved |-> reserved[i] + q]
    BY <1>3, <1>5 DEF Written, Committed
  <2>3. reserved[i] + q <= onHand[i] + 0
    BY <2>1, <2>2 DEF Accepts
  <2>4. QED
    BY <1>4, <2>3, MaxIntAssumption
<1>7. i \in rows
  <2>1. i \notin rows => onHand[i] = 0
    BY DEF IInv, NoRowNoStock
  <2>2. QED
    BY <1>4, <1>6, <2>1, MaxIntAssumption
<1>8. rows' = rows
  <2>1. inserts \subseteq {i} /\ (i \in inserts <=> i \notin rows)
        /\ rows' = rows \union inserts
    BY <1>2 DEF Commits
  <2>2. QED
    BY <1>7, <2>1
<1>9. onHand' = onHand
  <2>1. onHand' = [onHand EXCEPT ![i] = onHand[i] + 0]
    BY <1>2, <1>3, CommitsOneItem
  <2>2. onHand[i] + 0 = onHand[i]
    BY <1>4, MaxIntAssumption
  <2>3. QED
    BY <1>4, <2>1, <2>2
<1>10. reserved' = [reserved EXCEPT ![i] = @ + q]
  BY <1>2, <1>3, <1>5, CommitsOneItem
<1>11. UNCHANGED <<transfers, adjustments, opening>>
  BY DEF Commits, WriteOwnRow
<1>12. reservations' = [reservations EXCEPT
           ![r] = [status |-> "active", item |-> i, quantity |-> q]]
  BY <1>1 DEF Commits, WriteOwnRow
<1>13. q <= Available(i)
  BY <1>4, <1>6, MaxIntAssumption DEF Available
<1>14. Reserve(r, i, q)
  BY <1>1, <1>7, <1>8, <1>9, <1>10, <1>11, <1>12, <1>13 DEF Reserve
<1>15. QED
  BY <1>14 DEF ReservationNext

\* A reservation's release or commit, up to what it makes of onHand.
LEMMA CommitsSettle ==
    ASSUME IInv, NEW c \in Calls, NEW req, NEW D, NEW inserts,
           Commits(c, req, D, inserts), req.op \in {"release", "commit"}
    PROVE  \E r \in ReservationIds, i \in Items, q \in 1..MaxInt :
               /\ r = req.reservation
               /\ reservations[r].status = "active"
               /\ i = reservations[r].item /\ q = reservations[r].quantity
               /\ D = {i}
               /\ Change(req, i).onHand = (IF req.op = "commit" THEN -q ELSE 0)
               /\ Accepts(req, i, Committed(i))
               /\ reserved' = [reserved EXCEPT ![i] = AtLeastZero(@ - q)]
               /\ reservations' = [reservations EXCEPT
                      ![r].status = StatusWritten(req.op)]
               /\ UNCHANGED <<rows, transfers, adjustments, opening>>
<1>1. PICK r \in ReservationIds : r = req.reservation
  BY RequestFields DEF Commits
<1>2. reservations[r].status = "active"
  BY <1>1, FirstRowFacts DEF Commits, StatusOf, StatusExpected, OwnRowOps
<1>3. reservations[r].item \in Items /\ reservations[r].quantity \in 1..MaxInt
  BY <1>2, StoredRow DEF IInv, TypeOK, Quantity
<1>4. PICK i \in Items, q \in 1..MaxInt :
          i = reservations[r].item /\ q = reservations[r].quantity
  BY <1>3
<1>5. D = {i}
  BY <1>1, <1>4 DEF Commits, Needed, ItemsAfter
<1>6. /\ Change(req, i).onHand = (IF req.op = "commit" THEN -q ELSE 0)
      /\ Change(req, i).reserved = -q
  BY <1>1, <1>4 DEF Change
<1>7. reserved \in [Items -> 0..MaxInt]
  BY DEF IInv, TypeOK
<1>8. reserved[i] + (-q) = reserved[i] - q
  BY <1>7, MaxIntAssumption
<1>9. reserved' = [reserved EXCEPT ![i] = AtLeastZero(@ - q)]
  BY <1>5, <1>6, <1>8, CommitsOneItem
<1>10. rows' = rows
  <2>1. ~InsertsMissing(req)
    BY DEF InsertsMissing
  <2>2. QED
    BY <2>1 DEF Commits
<1>11. /\ UNCHANGED <<transfers, adjustments, opening>>
       /\ reservations' = [reservations EXCEPT ![r].status = StatusWritten(req.op)]
  BY <1>1 DEF Commits, WriteOwnRow
<1>12. Accepts(req, i, Committed(i))
  BY <1>5 DEF Commits
<1>13. QED
  BY <1>1, <1>2, <1>4, <1>5, <1>6, <1>9, <1>10, <1>11, <1>12

LEMMA CommitsReleaseOrCommit ==
    ASSUME IInv, NEW c \in Calls, NEW req, NEW D, NEW inserts,
           Commits(c, req, D, inserts), req.op \in {"release", "commit"}
    PROVE  ReservationNext
<1>1. PICK r \in ReservationIds, i \in Items, q \in 1..MaxInt :
          /\ r = req.reservation
          /\ reservations[r].status = "active"
          /\ i = reservations[r].item /\ q = reservations[r].quantity
          /\ D = {i}
          /\ Change(req, i).onHand = (IF req.op = "commit" THEN -q ELSE 0)
          /\ Accepts(req, i, Committed(i))
          /\ reserved' = [reserved EXCEPT ![i] = AtLeastZero(@ - q)]
          /\ reservations' = [reservations EXCEPT
                 ![r].status = StatusWritten(req.op)]
          /\ UNCHANGED <<rows, transfers, adjustments, opening>>
  BY CommitsSettle
<1>2. onHand \in [Items -> 0..MaxInt]
  BY DEF IInv, TypeOK
<1>3. onHand' = [onHand EXCEPT ![i] = onHand[i] + Change(req, i).onHand]
  <2>1. D = {i}
    BY <1>1
  <2>2. QED
    BY <2>1, CommitsOneItem
<1>4. CASE req.op = "release"
  <2>1. onHand' = onHand
    <3>1. onHand' = [onHand EXCEPT ![i] = onHand[i] + Change(req, i).onHand]
          /\ Change(req, i).onHand = 0
      BY <1>1, <1>4, <1>3
    <3>2. onHand[i] + 0 = onHand[i]
      BY <1>2, MaxIntAssumption
    <3>3. QED
      BY <1>2, <3>1, <3>2
  <2>2. StatusWritten(req.op) = "released"
    BY <1>4 DEF StatusWritten
  <2>3. Release(r)
    BY <1>1, <2>1, <2>2 DEF Release
  <2>4. QED
    BY <2>3 DEF ReservationNext
<1>5. CASE req.op = "commit"
  <2>1. onHand[i] + (-q) = onHand[i] - q
    BY <1>2, MaxIntAssumption
  <2>2. onHand' = [onHand EXCEPT ![i] = @ - q]
    <3>1. Change(req, i).onHand = -q
      BY <1>1, <1>5
    <3>2. QED
      BY <1>3, <2>1, <3>1
  <2>3. onHand[i] >= q
    <3>1. onHand[i] - q \in 0..MaxInt
      BY <1>1, <1>5, <2>1 DEF Accepts, Written, Committed
    <3>2. QED
      BY <1>2, <3>1, MaxIntAssumption
  <2>4. StatusWritten(req.op) = "committed"
    BY <1>5 DEF StatusWritten
  <2>5. Commit(r)
    BY <1>1, <2>2, <2>3, <2>4 DEF Commit
  <2>6. QED
    BY <2>5 DEF ReservationNext
<1>6. QED
  BY <1>4, <1>5

\* A transfer that ships, is received or is cancelled.
LEMMA CommitsTransfer ==
    ASSUME IInv, NEW c \in Calls, NEW req, NEW D, NEW inserts,
           Commits(c, req, D, inserts), req.op \in {"ship", "receive", "cancel"}
    PROVE  \E t \in TransferIds :
               /\ t = req.transfer
               /\ transfers[t].status = StatusExpected(req)
               /\ transfers[t].lines \in [Variants -> 0..MaxInt]
               /\ \A w \in Warehouses, i \in Items : Moves(t, w, i) \in 0..MaxInt
               /\ transfers' = [transfers EXCEPT ![t].status = StatusWritten(req.op)]
               /\ reserved' = reserved
               /\ UNCHANGED <<reservations, opening>>
<1>1. PICK t \in TransferIds : t = req.transfer
  BY RequestFields DEF Commits
<1>2. transfers[t].status = StatusExpected(req)
  BY <1>1, FirstRowFacts DEF Commits, StatusOf, OwnRowOps
<1>3. transfers[t].status # "none"
  BY <1>2 DEF StatusExpected
<1>4. /\ transfers[t].lines \in [Variants -> 0..MaxInt]
      /\ \A w \in Warehouses, i \in Items : Moves(t, w, i) \in 0..MaxInt
  BY <1>3, StoredTransfer DEF IInv
<1>5. /\ transfers' = [transfers EXCEPT ![t].status = StatusWritten(req.op)]
      /\ UNCHANGED <<reservations, opening>>
  BY <1>1 DEF Commits, WriteOwnRow
<1>6. reserved' = reserved
  <2>1. reserved \in [Items -> 0..MaxInt]
    BY DEF IInv, TypeOK
  <2>2. ASSUME NEW i \in D PROVE Change(req, i).reserved = 0
    <3>1. req.op # "cancel"
      BY <2>2 DEF Commits, Needed, ItemsAfter
    <3>2. QED
      BY <3>1 DEF Change
  <2>3. ASSUME NEW i \in D PROVE AtLeastZero(reserved[i] + Change(req, i).reserved) = reserved[i]
    <3>1. reserved[i] \in 0..MaxInt
      BY <2>1 DEF Commits
    <3>2. QED
      BY <2>2, <3>1, MaxIntAssumption DEF AtLeastZero
  <2>4. reserved' = [i \in Items |-> reserved[i]]
    BY <2>3, Zenon DEF Commits
  <2>5. QED
    BY <2>1, <2>4
<1>7. QED
  BY <1>1, <1>2, <1>4, <1>5, <1>6

LEMMA CommitsShip ==
    ASSUME IInv, NEW c \in Calls, NEW req, NEW D, NEW inserts,
           Commits(c, req, D, inserts), req.op = "ship"
    PROVE  TransferNext
<1>1. PICK t \in TransferIds :
          /\ t = req.transfer
          /\ transfers[t].status = StatusExpected(req)
          /\ transfers[t].lines \in [Variants -> 0..MaxInt]
          /\ \A w \in Warehouses, i \in Items : Moves(t, w, i) \in 0..MaxInt
          /\ transfers' = [transfers EXCEPT ![t].status = StatusWritten(req.op)]
          /\ reserved' = reserved
          /\ UNCHANGED <<reservations, opening>>
  BY CommitsTransfer
<1>2. transfers[t].status = "draft" /\ StatusWritten(req.op) = "in_transit"
  BY <1>1 DEF StatusExpected, StatusWritten
<1>3. PICK w \in Warehouses : w = transfers[t].from
  BY <1>2, StoredTransfer DEF IInv
<1>4. PICK sent \in [Items -> 0..MaxInt] :
          sent = [i \in Items |-> Moves(t, w, i)]
  BY <1>1
<1>5. D = {i \in Items : sent[i] > 0}
  BY <1>1, <1>3, <1>4 DEF Commits, Needed, ItemsAfter, LineItems
<1>6. ASSUME NEW i \in D
      PROVE  Change(req, i) = [onHand |-> -sent[i], reserved |-> 0]
  <2>1. i \in Items /\ sent[i] = Moves(t, w, i) /\ sent[i] > 0
    BY <1>4, <1>5
  <2>2. sent[i] = transfers[t].lines[i[1]]
    BY <2>1 DEF Moves
  <2>3. QED
    BY <1>1, <2>2 DEF Change
<1>7. /\ onHand \in [Items -> 0..MaxInt] /\ reserved \in [Items -> 0..MaxInt]
      /\ adjustments \in [Items -> [manual : Int, transfer : Int]]
  BY DEF IInv, TypeOK
<1>8. ASSUME NEW i \in Items, sent[i] > 0
      PROVE  i \in rows /\ sent[i] <= Available(i)
  <2>1. i \in D
    BY <1>5, <1>8
  <2>2. i \in rows
    BY <2>1 DEF Commits, InsertsMissing
  <2>3. Accepts(req, i, Committed(i))
    BY <2>1 DEF Commits
  <2>4. AtLeastZero(reserved[i] + 0) = reserved[i]
    BY <1>7, MaxIntAssumption DEF AtLeastZero
  <2>5. Written(req, i, Committed(i)) =
            [onHand |-> onHand[i] + (-sent[i]), reserved |-> reserved[i]]
    BY <1>6, <2>1, <2>4 DEF Written, Committed
  <2>6. reserved[i] <= onHand[i] + (-sent[i])
    BY <2>3, <2>5 DEF Accepts
  <2>7. QED
    BY <1>4, <1>7, <2>2, <2>6, MaxIntAssumption DEF Available
<1>9. onHand' = [i \in Items |-> onHand[i] - sent[i]]
  <2>1. ASSUME NEW i \in Items PROVE onHand'[i] = onHand[i] - sent[i]
    <3>1. onHand[i] \in 0..MaxInt /\ sent[i] \in 0..MaxInt
      BY <1>7
    <3>2. CASE i \in D
      <4>1. onHand'[i] = onHand[i] + (-sent[i])
        BY <1>6, <3>2 DEF Commits
      <4>2. QED
        BY <3>1, <4>1, MaxIntAssumption
    <3>3. CASE i \notin D
      <4>1. onHand'[i] = onHand[i]
        BY <3>3 DEF Commits
      <4>2. sent[i] = 0
        BY <1>5, <3>1, <3>3, MaxIntAssumption
      <4>3. QED
        BY <3>1, <4>1, <4>2, MaxIntAssumption
    <3>4. QED
      BY <3>2, <3>3
  <2>2. onHand' = [i \in Items |-> onHand'[i]]
    BY DEF Commits
  <2>3. QED
    BY <2>1, <2>2
<1>10. adjustments' = [i \in Items |->
           [adjustments[i] EXCEPT !.transfer = @ - sent[i]]]
  <2>1. ASSUME NEW i \in Items
        PROVE  adjustments'[i] = [adjustments[i] EXCEPT !.transfer = @ - sent[i]]
    <3>1. PICK a \in [manual : Int, transfer : Int] : a = adjustments[i]
      BY <1>7
    <3>2. sent[i] \in Nat
      BY <1>4, MaxIntAssumption
    <3>3. CASE i \in D
      <4>1. adjustments'[i] = [a EXCEPT !.transfer = @ + (-sent[i])]
        BY <1>6, <3>1, <3>3 DEF Commits
      <4>2. a.transfer + (-sent[i]) = a.transfer - sent[i]
        BY <3>1, <3>2
      <4>3. QED
        BY <3>1, <4>1, <4>2
    <3>4. CASE i \notin D
      <4>1. adjustments'[i] = a
        BY <3>1, <3>4 DEF Commits
      <4>2. sent[i] = 0
        BY <1>5, <3>2, <3>4
      <4>3. a.transfer - sent[i] = a.transfer
        BY <3>1, <4>2
      <4>4. QED
        BY <3>1, <4>1, <4>3
    <3>5. QED
      BY <3>3, <3>4
  <2>2. adjustments' = [i \in Items |-> adjustments'[i]]
    BY DEF Commits
  <2>3. QED
    BY <2>1, <2>2, Zenon
<1>11. rows' = rows
  BY DEF Commits, InsertsMissing
<1>12. ShipTransfer(t)
  <2>1. sent = [i \in Items |-> Moves(t, transfers[t].from, i)]
    BY <1>3, <1>4
  <2>2. QED
    BY <1>1, <1>2, <1>8, <1>9, <1>10, <1>11, <2>1 DEF ShipTransfer
<1>13. QED
  BY <1>12 DEF TransferNext

LEMMA CommitsReceive ==
    ASSUME IInv, NEW c \in Calls, NEW req, NEW D, NEW inserts,
           Commits(c, req, D, inserts), req.op = "receive"
    PROVE  TransferNext
<1>1. PICK t \in TransferIds :
          /\ t = req.transfer
          /\ transfers[t].status = StatusExpected(req)
          /\ transfers[t].lines \in [Variants -> 0..MaxInt]
          /\ \A w \in Warehouses, i \in Items : Moves(t, w, i) \in 0..MaxInt
          /\ transfers' = [transfers EXCEPT ![t].status = StatusWritten(req.op)]
          /\ reserved' = reserved
          /\ UNCHANGED <<reservations, opening>>
  BY CommitsTransfer
<1>2. transfers[t].status = "in_transit" /\ StatusWritten(req.op) = "received"
  BY <1>1 DEF StatusExpected, StatusWritten
<1>3. PICK w \in Warehouses : w = transfers[t].to
  BY <1>2, StoredTransfer DEF IInv
<1>4. PICK got \in [Items -> 0..MaxInt] :
          got = [i \in Items |-> Moves(t, w, i)]
  BY <1>1
<1>5. D = {i \in Items : got[i] > 0}
  BY <1>1, <1>3, <1>4 DEF Commits, Needed, ItemsAfter, LineItems
<1>6. ASSUME NEW i \in D
      PROVE  Change(req, i) = [onHand |-> got[i], reserved |-> 0]
  <2>1. i \in Items /\ got[i] = Moves(t, w, i) /\ got[i] > 0
    BY <1>4, <1>5
  <2>2. got[i] = transfers[t].lines[i[1]]
    BY <2>1 DEF Moves
  <2>3. QED
    BY <1>1, <2>2 DEF Change
<1>7. /\ onHand \in [Items -> 0..MaxInt]
      /\ adjustments \in [Items -> [manual : Int, transfer : Int]]
  BY DEF IInv, TypeOK
<1>8. \A i \in Items \ D : got[i] = 0
  BY <1>4, <1>5, MaxIntAssumption
<1>9. ASSUME NEW i \in Items PROVE onHand[i] + got[i] <= MaxInt
  <2>1. CASE i \in D
    <3>1. Accepts(req, i, Committed(i))
      BY <2>1 DEF Commits
    <3>2. onHand[i] + got[i] \in 0..MaxInt
      BY <1>6, <2>1, <3>1 DEF Accepts, Written, Committed
    <3>3. QED
      BY <3>2, MaxIntAssumption
  <2>2. CASE i \notin D
    BY <1>7, <1>8, <2>2, MaxIntAssumption
  <2>3. QED
    BY <2>1, <2>2
<1>10. onHand' = [i \in Items |-> onHand[i] + got[i]]
  <2>1. ASSUME NEW i \in Items PROVE onHand'[i] = onHand[i] + got[i]
    <3>1. CASE i \in D
      BY <1>6, <3>1 DEF Commits
    <3>2. CASE i \notin D
      <4>1. onHand'[i] = onHand[i]
        BY <3>2 DEF Commits
      <4>2. QED
        BY <1>7, <1>8, <3>2, <4>1, MaxIntAssumption
    <3>3. QED
      BY <3>1, <3>2
  <2>2. onHand' = [i \in Items |-> onHand'[i]]
    BY DEF Commits
  <2>3. QED
    BY <2>1, <2>2
<1>11. adjustments' = [i \in Items |->
           [adjustments[i] EXCEPT !.transfer = @ + got[i]]]
  <2>1. ASSUME NEW i \in Items
        PROVE  adjustments'[i] = [adjustments[i] EXCEPT !.transfer = @ + got[i]]
    <3>1. PICK a \in [manual : Int, transfer : Int] : a = adjustments[i]
      BY <1>7
    <3>2. CASE i \in D
      BY <1>6, <3>1, <3>2 DEF Commits
    <3>3. CASE i \notin D
      <4>1. adjustments'[i] = a
        BY <3>1, <3>3 DEF Commits
      <4>2. a.transfer + got[i] = a.transfer
        BY <1>8, <3>1, <3>3
      <4>3. QED
        BY <3>1, <4>1, <4>2
    <3>4. QED
      BY <3>2, <3>3
  <2>2. adjustments' = [i \in Items |-> adjustments'[i]]
    BY DEF Commits
  <2>3. QED
    BY <2>1, <2>2, Zenon
<1>12. rows' = rows \union {i \in Items : got[i] > 0}
  <2>1. /\ inserts \subseteq D /\ rows' = rows \union inserts
        /\ \A i \in D : i \in inserts <=> i \notin rows
    BY DEF Commits
  <2>2. rows' = rows \union D
    BY <2>1
  <2>3. QED
    BY <1>5, <2>2
<1>13. ReceiveTransfer(t)
  <2>1. got = [i \in Items |-> Moves(t, transfers[t].to, i)]
    BY <1>3, <1>4
  <2>2. QED
    BY <1>1, <1>2, <1>9, <1>10, <1>11, <1>12, <2>1 DEF ReceiveTransfer
<1>14. QED
  BY <1>13 DEF TransferNext

LEMMA CommitsCancel ==
    ASSUME IInv, NEW c \in Calls, NEW req, NEW D, NEW inserts,
           Commits(c, req, D, inserts), req.op = "cancel"
    PROVE  TransferNext
<1>1. PICK t \in TransferIds :
          /\ t = req.transfer
          /\ transfers[t].status = StatusExpected(req)
          /\ transfers' = [transfers EXCEPT ![t].status = StatusWritten(req.op)]
          /\ reserved' = reserved
          /\ UNCHANGED <<reservations, opening>>
  BY CommitsTransfer
<1>2. StatusExpected(req) = "draft" /\ StatusWritten(req.op) = "cancelled"
  BY DEF StatusExpected, StatusWritten
<1>3. D = {} /\ inserts = {}
  BY DEF Commits, Needed, ItemsAfter
<1>4. onHand \in [Items -> 0..MaxInt]
  BY DEF IInv, TypeOK
<1>5. UNCHANGED <<rows, onHand, adjustments>>
  BY <1>3, <1>4 DEF Commits
<1>6. CancelTransfer(t)
  BY <1>1, <1>2, <1>5 DEF CancelTransfer
<1>7. QED
  BY <1>6 DEF TransferNext

\* The shipment of a fulfillment locks items and changes none.
LEMMA CommitsShipment ==
    ASSUME IInv, NEW c \in Calls, NEW req, NEW D, NEW inserts,
           Commits(c, req, D, inserts), req.op = "shipment"
    PROVE  UNCHANGED inventoryVars
<1>1. \A i : Change(req, i) = [onHand |-> 0, reserved |-> 0]
  BY DEF Change
<1>2. onHand \in [Items -> 0..MaxInt] /\ reserved \in [Items -> 0..MaxInt]
  BY DEF IInv, TypeOK
<1>3. ASSUME NEW i \in Items
      PROVE  /\ onHand[i] + Change(req, i).onHand = onHand[i]
             /\ AtLeastZero(reserved[i] + Change(req, i).reserved) = reserved[i]
  BY <1>1, <1>2, MaxIntAssumption DEF AtLeastZero
<1>4. /\ onHand' = [i \in Items |-> onHand[i]]
      /\ reserved' = [i \in Items |-> reserved[i]]
  BY <1>3, Zenon DEF Commits
<1>5. UNCHANGED <<onHand, reserved>>
  BY <1>2, <1>4
<1>6. UNCHANGED <<rows, reservations, transfers, adjustments, opening>>
  BY DEF Commits, InsertsMissing, WriteOwnRow
<1>7. QED
  BY <1>5, <1>6 DEF inventoryVars

\* A COMMIT does to the tables what one action of Inventory does, or nothing.
LEMMA FinishRefines ==
    ASSUME TxInv, NEW c \in Calls, Finish(c)
    PROVE  [Next]_inventoryVars
<1>1. PICK req, D, inserts :
          /\ req = call[c].request
          /\ D = DOMAIN call[c].copies
          /\ inserts = call[c].inserts
  OBVIOUS
<1>2. InTransaction(c) /\ Commits(c, req, D, inserts)
  BY <1>1, FinishCommits
<1>3. req.op \in {"adjust", "reserve", "shipment"} \union OwnRowOps
  BY <1>2, RequestFields DEF Commits
<1>4. IInv
  BY DEF TxInv
<1>5. CASE req.op = "adjust"
  BY <1>2, <1>4, <1>5, CommitsAdjust DEF Next
<1>6. CASE req.op = "reserve"
  <2>1. reservations[req.reservation].status = "none"
    BY <1>1, <1>2, <1>6 DEF TxInv, ReservationsAreNew, Reserves
  <2>2. QED
    BY <1>2, <1>4, <1>6, <2>1, CommitsReserve DEF Next
<1>7. CASE req.op \in {"release", "commit"}
  BY <1>2, <1>4, <1>7, CommitsReleaseOrCommit DEF Next
<1>8. CASE req.op = "ship"
  BY <1>2, <1>4, <1>8, CommitsShip DEF Next
<1>9. CASE req.op = "receive"
  BY <1>2, <1>4, <1>9, CommitsReceive DEF Next
<1>10. CASE req.op = "cancel"
  BY <1>2, <1>4, <1>10, CommitsCancel DEF Next
<1>11. CASE req.op = "shipment"
  BY <1>2, <1>4, <1>11, CommitsShipment
<1>12. QED
  BY <1>3, <1>5, <1>6, <1>7, <1>8, <1>9, <1>10, <1>11 DEF OwnRowOps

\* COMMIT writes no reservation that another call holds, nor one that another
\* call is about to insert.
LEMMA FinishedReservations ==
    ASSUME TxInv, NEW c \in Calls, Finish(c), NEW r \in ReservationIds,
           NEW d \in Calls \ {c},
           \/ lock[r] = d /\ reservations[r].status # "none"
           \/ Reserves(d) /\ r = call[d].request.reservation
    PROVE  reservations'[r] = reservations[r]
<1>1. PICK req, D, inserts :
          /\ req = call[c].request
          /\ D = DOMAIN call[c].copies
          /\ inserts = call[c].inserts
  OBVIOUS
<1>2. InTransaction(c) /\ HoldsOwnRow(c) /\ Commits(c, req, D, inserts)
  BY <1>1, FinishCommits
<1>3. /\ req \in Requests
      /\ req.op \notin {"create", "createTransfer"}
      /\ WriteOwnRow(req)
  BY <1>2 DEF Commits
<1>4. reservations \in [ReservationIds -> ReservationRow]
  BY DEF TxInv, IInv, TypeOK
<1>5. \A e \in Calls : Reserves(e) =>
          /\ reservations[call[e].request.reservation].status = "none"
          /\ \A f \in Calls : Reserves(f)
                 /\ call[f].request.reservation = call[e].request.reservation
                     => f = e
  BY DEF TxInv, ReservationsAreNew
<1>6. CASE req.op = "reserve"
  <2>1. Reserves(c)
    BY <1>1, <1>2, <1>6 DEF Reserves
  <2>2. r # req.reservation
    BY <1>1, <1>5, <2>1
  <2>3. PICK new : reservations' = [reservations EXCEPT ![req.reservation] = new]
    BY <1>3, <1>6 DEF WriteOwnRow
  <2>4. QED
    BY <1>4, <2>2, <2>3
<1>7. CASE req.op \in {"release", "commit"}
  <2>1. /\ lock[req.reservation] = c
        /\ reservations[req.reservation].status = "active"
    BY <1>1, <1>2, <1>3, <1>7, FirstRowFacts
       DEF HoldsOwnRow, OwnRowOps, StatusOf, StatusExpected
  <2>2. r # req.reservation
    BY <1>5, <2>1
  <2>3. reservations' = [reservations EXCEPT
            ![req.reservation].status = StatusWritten(req.op)]
    BY <1>3, <1>7 DEF WriteOwnRow
  <2>4. QED
    BY <1>4, <2>2, <2>3
<1>8. CASE req.op \notin {"reserve", "release", "commit"}
  BY <1>3, <1>8 DEF WriteOwnRow
<1>9. QED
  BY <1>6, <1>7, <1>8

LEMMA FinishedTransfers ==
    ASSUME TxInv, NEW c \in Calls, Finish(c), NEW t \in TransferIds,
           lock[t] \in Calls \ {c}
    PROVE  transfers'[t] = transfers[t]
<1>1. PICK req, D, inserts :
          /\ req = call[c].request
          /\ D = DOMAIN call[c].copies
          /\ inserts = call[c].inserts
  OBVIOUS
<1>2. InTransaction(c) /\ HoldsOwnRow(c) /\ Commits(c, req, D, inserts)
  BY <1>1, FinishCommits
<1>3. /\ req \in Requests
      /\ req.op \notin {"create", "createTransfer"}
      /\ WriteOwnRow(req)
  BY <1>2 DEF Commits
<1>4. transfers \in [TransferIds -> TransferRow]
  BY DEF TxInv, IInv, TypeOK
<1>5. CASE req.op \in {"ship", "receive", "cancel"}
  <2>1. lock[req.transfer] = c
    BY <1>1, <1>2, <1>3, <1>5, FirstRowFacts DEF HoldsOwnRow, OwnRowOps
  <2>2. transfers' = [transfers EXCEPT
            ![req.transfer].status = StatusWritten(req.op)]
    BY <1>3, <1>5 DEF WriteOwnRow
  <2>3. QED
    BY <1>4, <2>1, <2>2
<1>6. CASE req.op \notin {"ship", "receive", "cancel"}
  BY <1>3, <1>6 DEF WriteOwnRow
<1>7. QED
  BY <1>5, <1>6

LEMMA FinishedItems ==
    ASSUME TxInv, NEW c \in Calls, Finish(c), NEW i \in Items,
           lock[i] \in Calls \ {c}
    PROVE  /\ i \in rows' <=> i \in rows
           /\ onHand'[i] = onHand[i]
           /\ reserved'[i] = reserved[i]
<1>1. PICK req, D, inserts :
          /\ req = call[c].request
          /\ D = DOMAIN call[c].copies
          /\ inserts = call[c].inserts
  OBVIOUS
<1>2. Commits(c, req, D, inserts)
  BY <1>1, FinishCommits
<1>3. i \notin D /\ inserts \subseteq D
  BY <1>2 DEF Commits
<1>4. rows' = rows \union inserts
  BY <1>2 DEF Commits
<1>5. onHand'[i] = onHand[i] /\ reserved'[i] = reserved[i]
  BY <1>2, <1>3 DEF Commits
<1>6. QED
  BY <1>3, <1>4, <1>5

LEMMA FinishKeepsInv ==
    ASSUME TxInv, NEW c \in Calls, Finish(c)
    PROVE  TxInv'
<1>1. IInv'
  BY FinishRefines, NextIInv DEF TxInv
<1>2. /\ call' = [call EXCEPT ![c] = Idle]
      /\ lock' \in [Rows -> Calls \union {NoCall}]
      /\ \A d \in Calls \ {c}, row \in Rows : lock'[row] = d <=> lock[row] = d
      /\ \A row \in Rows : lock'[row] # c
  BY EndFacts DEF TxInv, Finish
<1>3. TxTables'
  BY <1>2 DEF TxInv, TxTables
<1>4. call'[c] = Idle /\ \A d \in Calls \ {c} : call'[d] = call[d]
  BY <1>2 DEF TxInv, TxTables
<1>5. ASSUME NEW d \in Calls \ {c}
      PROVE  /\ InTransaction(d)' => CallOK(d)'
             /\ call'[d] = Idle => \A row \in Rows : lock'[row] # d
  <2>1. \A i \in Items : lock[i] \in Calls \ {c} =>
            /\ i \in rows' <=> i \in rows
            /\ onHand'[i] = onHand[i]
            /\ reserved'[i] = reserved[i]
    BY FinishedItems
  <2>2. \A r \in ReservationIds :
            lock[r] \in Calls \ {c} /\ reservations[r].status # "none" =>
                reservations'[r] = reservations[r]
    BY FinishedReservations
  <2>3. \A t \in TransferIds :
            lock[t] \in Calls \ {c} /\ transfers[t].status # "none" =>
                transfers'[t] = transfers[t]
    BY FinishedTransfers
  <2>4. QED
    BY <1>2, <1>4, <2>1, <2>2, <2>3, OthersKept
<1>6. IdleHoldsNothing'
  BY <1>2, <1>5 DEF IdleHoldsNothing
<1>7. ~InTransaction(c)'
  BY <1>4 DEF InTransaction, Idle
<1>8. \A d \in Calls : InTransaction(d)' => CallOK(d)'
  BY <1>5, <1>7
<1>9. ReservationsAreNew'
  <2>1. ASSUME NEW d \in Calls, Reserves(d)'
        PROVE  /\ d # c /\ Reserves(d) /\ call'[d] = call[d]
               /\ call[d].request.reservation \in ReservationIds
    <3>1. d # c /\ call'[d] = call[d]
      BY <1>4, <1>7, <2>1 DEF Reserves
    <3>2. Reserves(d)
      BY <2>1, <3>1 DEF Reserves, InTransaction
    <3>3. QED
      BY <3>1, <3>2, CallFields, RequestFields DEF TxInv, Reserves
  <2>2. ASSUME NEW d \in Calls, Reserves(d)'
        PROVE  reservations'[call'[d].request.reservation].status = "none"
    BY <2>1, <2>2, FinishedReservations DEF TxInv, ReservationsAreNew
  <2>3. ASSUME NEW d \in Calls, Reserves(d)', NEW e \in Calls, Reserves(e)',
               call'[e].request.reservation = call'[d].request.reservation
        PROVE  e = d
    BY <2>1, <2>3 DEF TxInv, ReservationsAreNew
  <2>4. QED
    BY <2>2, <2>3 DEF ReservationsAreNew
<1>10. QED
  BY <1>1, <1>3, <1>6, <1>8, <1>9 DEF TxInv

\* Create and CreateTransfer are actions of Inventory.
LEMMA InsertRefines ==
    ASSUME NEW req \in Requests, Insert(req)
    PROVE  Next
<1>1. CASE req.op = "create"
  <2>1. req.item \in Items /\ req.quantity \in 0..MaxInt
    BY <1>1, InsertFields
  <2>2. Create(req.item, req.quantity)
    BY <1>1 DEF Insert
  <2>3. QED
    BY <2>1, <2>2 DEF Next, ItemNext
<1>2. CASE req.op = "createTransfer"
  <2>1. /\ req.transfer \in TransferIds
        /\ req.from \in Warehouses /\ req.to \in Warehouses
        /\ req.lines \in [Variants -> 0..MaxInt]
    BY <1>2, InsertFields
  <2>2. CreateTransfer(req.transfer, req.from, req.to, req.lines)
    BY <1>2 DEF Insert
  <2>3. QED
    BY <2>1, <2>2 DEF Next, TransferNext
<1>3. QED
  BY <1>1, <1>2 DEF Insert

LEMMA InsertKeepsInv ==
    ASSUME TxInv, NEW req \in Requests, Insert(req)
    PROVE  TxInv'
<1>1. IInv'
  BY InsertRefines, NextIInv DEF TxInv
<1>2. call' = call /\ lock' = lock
  BY DEF Insert
<1>3. /\ onHand \in [Items -> 0..MaxInt]
      /\ transfers \in [TransferIds -> TransferRow]
  BY DEF TxInv, IInv, TypeOK
<1>4. reservations' = reservations /\ reserved' = reserved
  BY DEF Insert, Create, CreateTransfer
<1>5. ASSUME NEW d \in Calls, NEW i \in Items, lock[i] = d
      PROVE  (i \in rows' <=> i \in rows) /\ onHand'[i] = onHand[i]
  <2>1. CASE req.op = "create"
    <3>1. /\ lock[req.item] = NoCall
          /\ rows' = rows \union {req.item}
          /\ onHand' = [onHand EXCEPT ![req.item] = req.quantity]
      BY <2>1 DEF Insert, Create
    <3>2. i # req.item
      BY <1>5, <3>1, CallsAssumption
    <3>3. QED
      BY <1>3, <3>1, <3>2
  <2>2. CASE req.op = "createTransfer"
    BY <2>2 DEF Insert, CreateTransfer
  <2>3. QED
    BY <2>1, <2>2 DEF Insert
<1>6. ASSUME NEW t \in TransferIds, transfers[t].status # "none"
      PROVE  transfers'[t] = transfers[t]
  <2>1. CASE req.op = "create"
    BY <2>1 DEF Insert, Create
  <2>2. CASE req.op = "createTransfer"
    <3>1. transfers[req.transfer].status = "none"
      BY <2>2 DEF Insert, CreateTransfer
    <3>2. PICK new : transfers' = [transfers EXCEPT ![req.transfer] = new]
      BY <2>2 DEF Insert, CreateTransfer
    <3>3. QED
      BY <1>3, <1>6, <3>1, <3>2
  <2>3. QED
    BY <2>1, <2>2 DEF Insert
<1>7. ASSUME NEW d \in Calls, InTransaction(d)' PROVE CallOK(d)'
  <2>1. InTransaction(d)
    BY <1>2, <1>7 DEF InTransaction
  <2>2. TxTables /\ CallOK(d)
    BY <2>1 DEF TxInv
  <2>3. call'[d] = call[d] /\ \A row \in Rows : lock'[row] = d <=> lock[row] = d
    BY <1>2
  <2>4. \A i \in Items : lock[i] = d =>
            /\ i \in rows' <=> i \in rows
            /\ onHand'[i] = onHand[i]
            /\ reserved'[i] = reserved[i]
    BY <1>4, <1>5
  <2>5. \A r \in ReservationIds :
            lock[r] = d /\ reservations[r].status # "none" =>
                reservations'[r] = reservations[r]
    BY <1>4
  <2>6. \A t \in TransferIds :
            lock[t] = d /\ transfers[t].status # "none" =>
                transfers'[t] = transfers[t]
    BY <1>6
  <2>7. QED
    BY <2>1, <2>2, <2>3, <2>4, <2>5, <2>6, CallKept
<1>8. TxTables' /\ IdleHoldsNothing' /\ ReservationsAreNew'
  BY <1>2, <1>4 DEF TxInv, TxTables, IdleHoldsNothing, ReservationsAreNew,
                    Reserves, InTransaction
<1>9. QED
  BY <1>1, <1>7, <1>8 DEF TxInv

-----------------------------------------------------------------------------
(***************************************************************************)
(* Every step                                                              *)
(***************************************************************************)

LEMMA TxInitInv == TxInit => TxInv
<1> SUFFICES ASSUME TxInit PROVE TxInv
  OBVIOUS
<1>1. IInv
  BY InitIInv DEF TxInit
<1>2. TxTables
  BY DEF TxInit, TxTables
<1>3. \A c \in Calls : call[c] = Idle /\ ~InTransaction(c)
  BY DEF TxInit, Idle, InTransaction
<1>4. IdleHoldsNothing
  BY CallsAssumption DEF TxInit, IdleHoldsNothing
<1>5. ReservationsAreNew
  BY <1>3 DEF ReservationsAreNew, Reserves
<1>6. QED
  BY <1>1, <1>2, <1>3, <1>4, <1>5 DEF TxInv

\* A step of a call commits, or leaves the tables alone.
LEMMA AdvanceStep ==
    ASSUME TxInv, NEW c \in Calls, Advance(c) \/ LoseConnection(c)
    PROVE  TxInv' /\ [Next]_inventoryVars
<1>1. CASE LockOwnRow(c)
  BY <1>1, LockOwnRowKeepsInv DEF LockOwnRow
<1>2. CASE LockItem(c)
  BY <1>2, LockItemKeepsInv DEF LockItem
<1>3. CASE MissItem(c)
  BY <1>3, MissItemKeepsInv DEF MissItem
<1>4. CASE InsertItem(c)
  BY <1>4, InsertItemKeepsInv DEF InsertItem
<1>5. CASE Finish(c)
  BY <1>5, FinishKeepsInv, FinishRefines
<1>6. CASE BreakDeadlock(c)
  BY <1>6, EndKeepsInv DEF BreakDeadlock, Refuse
<1>7. CASE LoseConnection(c)
  BY <1>7, EndKeepsInv DEF LoseConnection, Refuse
<1>8. QED
  BY <1>1, <1>2, <1>3, <1>4, <1>5, <1>6, <1>7 DEF Advance

LEMMA TxStutter ==
    ASSUME TxInv, UNCHANGED vars
    PROVE  TxInv'
<1>1. /\ rows' = rows /\ onHand' = onHand /\ reserved' = reserved
      /\ reservations' = reservations /\ transfers' = transfers
      /\ call' = call /\ lock' = lock /\ UNCHANGED inventoryVars
  BY DEF vars, inventoryVars
<1>2. IInv'
  BY <1>1, NextIInv DEF TxInv
<1>3. ASSUME NEW d \in Calls, InTransaction(d)' PROVE CallOK(d)'
  <2>1. InTransaction(d)
    BY <1>1, <1>3 DEF InTransaction
  <2>2. TxTables /\ CallOK(d)
    BY <2>1 DEF TxInv
  <2>3. QED
    BY <1>1, <2>1, <2>2, CallKept
<1>4. TxTables' /\ IdleHoldsNothing' /\ ReservationsAreNew'
  BY <1>1 DEF TxInv, TxTables, IdleHoldsNothing, ReservationsAreNew,
              Reserves, InTransaction
<1>5. QED
  BY <1>2, <1>3, <1>4 DEF TxInv

LEMMA TxNextStep ==
    TxInv /\ [TxNext]_vars => TxInv' /\ [Next]_inventoryVars
<1> SUFFICES ASSUME TxInv, [TxNext]_vars
             PROVE  TxInv' /\ [Next]_inventoryVars
  OBVIOUS
<1>1. ASSUME NEW req \in Requests, Insert(req)
      PROVE  TxInv' /\ [Next]_inventoryVars
  BY <1>1, InsertKeepsInv, InsertRefines
<1>2. ASSUME NEW c \in Calls, NEW req \in Requests, Start(c, req)
      PROVE  TxInv' /\ [Next]_inventoryVars
  BY <1>2, StartKeepsInv DEF Start
<1>3. CASE UNCHANGED vars
  BY <1>3, TxStutter DEF vars
<1>4. QED
  BY <1>1, <1>2, <1>3, AdvanceStep DEF TxNext

LEMMA TxInvariant == TxSpec => []TxInv
<1>1. TxInit => TxInv
  BY TxInitInv
<1>2. TxInv /\ [TxNext]_vars => TxInv'
  BY TxNextStep
<1>3. QED
  BY <1>1, <1>2, PTL DEF TxSpec

-----------------------------------------------------------------------------
(***************************************************************************)
(* Theorems                                                                *)
(***************************************************************************)

\* Whatever the interleaving, and wherever a call fails, loses its connection
\* or is chosen as the victim of a deadlock, the tables change only by the
\* atomic actions of Inventory: InventoryService and StockTransferService lose
\* no update and act on no stale row.
THEOREM TransactionsAreAtomic == TxSpec => ImplementsInventory
<1>1. TxInit => Init
  BY DEF TxInit
<1>2. TxInv /\ [TxNext]_vars => [Next]_inventoryVars
  BY TxNextStep
<1>3. QED
  BY <1>1, <1>2, TxInvariant, PTL DEF TxSpec, ImplementsInventory, Spec

LEMMA LeastNatural ==
    ASSUME NEW T \in SUBSET Nat, T # {}
    PROVE  \E x \in T : \A y \in T : x <= y
<1>1. PICK R : R = OpToRel(<, Nat)
  OBVIOUS
<1>2. IsWellFoundedOn(R, Nat)
  BY <1>1, NatLessThanWellFounded
<1>3. PICK x \in T : \A y \in T : <<y, x>> \notin R
  BY <1>2, WFMin
<1>4. \A y \in T : ~(y < x)
  BY <1>1, <1>3 DEF OpToRel
<1>5. QED
  BY <1>4

\* What a call that is waited for holds comes before what it waits for itself.
LEMMA BlockerFacts ==
    ASSUME TxInv, NEW c \in Calls, Blocker(c) \in Calls
    PROVE  /\ InTransaction(c) /\ CallOK(c)
           /\ call[c].todo # << >> /\ NextItem(c) \in Rows
           /\ lock[NextItem(c)] = Blocker(c)
<1>1. /\ InTransaction(c) /\ call[c].todo # << >>
      /\ lock[NextItem(c)] = Blocker(c)
  BY CallsAssumption DEF Blocker
<1>2. call[c].todo \in Seq(Rows)
  BY <1>1, CallFields DEF TxInv
<1>3. NextItem(c) \in Rows
  BY <1>1, <1>2, HeadTailProperties DEF NextItem
<1>4. QED
  BY <1>1, <1>3 DEF TxInv

\* Calls that each wait for another of them include a shipment: the others lock
\* in the order of Rank, and the one that waits for the lowest row would wait
\* for a call that waits for a lower one.
LEMMA CirclesNeedAShipment ==
    ASSUME TxInv, NEW D \in WaitCircles
    PROVE  \E c \in D : call[c].request.op = "shipment"
<1> SUFFICES ASSUME \A c \in D : call[c].request.op # "shipment" PROVE FALSE
  OBVIOUS
<1>1. D \subseteq Calls /\ D # {} /\ {Blocker(c) : c \in D} = D
  BY DEF WaitCircles
<1>2. ASSUME NEW c \in D
      PROVE  /\ Blocker(c) \in D /\ InTransaction(c) /\ CallOK(c)
             /\ call[c].todo # << >> /\ NextItem(c) \in Rows
             /\ lock[NextItem(c)] = Blocker(c)
  <2>1. Blocker(c) \in D
    BY <1>1
  <2>2. QED
    BY <1>1, <2>1, BlockerFacts
<1>3. PICK T : T = {Rank(NextItem(c)) : c \in D}
  OBVIOUS
<1>4. T \in SUBSET Nat /\ T # {}
  BY <1>1, <1>2, <1>3, RankFacts
<1>5. PICK x \in T : \A y \in T : x <= y
  BY <1>4, LeastNatural
<1>6. PICK d \in D : x = Rank(NextItem(d))
  BY <1>3
<1>7. PICK c \in D : d = Blocker(c)
  BY <1>1
<1>8. lock[NextItem(c)] = d /\ NextItem(c) \in Rows
  BY <1>2, <1>7
<1>9. 1 \in DOMAIN call[d].todo /\ call[d].todo[1] = NextItem(d)
  <2>1. call[d].todo \in Seq(Rows)
    BY <1>1, <1>2, CallFields DEF TxInv
  <2>2. QED
    BY <1>2, <2>1 DEF NextItem
<1>10. Rank(NextItem(c)) < Rank(NextItem(d))
  <2>1. LocksInOrder(d) /\ call[d].request.op # "shipment"
    BY <1>2 DEF CallOK
  <2>2. PICK row \in Rows : row = NextItem(c)
    BY <1>8
  <2>3. lock[row] = d
    BY <1>8, <2>2
  <2>4. Rank(row) < Rank(call[d].todo[1])
    BY <1>9, <2>1, <2>3 DEF LocksInOrder
  <2>5. QED
    BY <1>9, <2>2, <2>4
<1>11. PICK y \in T : y = Rank(NextItem(c))
  BY <1>3
<1>12. x <= y /\ y < x /\ x \in Nat /\ y \in Nat
  BY <1>4, <1>5, <1>6, <1>10, <1>11
<1>13. QED
  BY <1>12

\* The methods of the inventory lock a transfer or a reservation first and then
\* items by variant id, so that no set of their calls waits in a circle; it
\* takes the shipment of a fulfillment, which locks its items in the order of
\* the order lines.
THEOREM OnlyShipmentsDeadlock == TxSpec => []OnlyShipmentsCloseCircles
<1>1. TxInv => OnlyShipmentsCloseCircles
  BY CirclesNeedAShipment DEF OnlyShipmentsCloseCircles
<1>2. QED
  BY <1>1, TxInvariant, PTL

\* The tables and the locks keep their types, and a call writes only rows that
\* fit their columns.
THEOREM TransactionsKeepTypes == TxSpec => []TxTypeOK
<1>1. TxInv => TxTypeOK
  <2> SUFFICES ASSUME TxInv PROVE TxTypeOK
    OBVIOUS
  <2>1. TypeOK /\ lock \in [Rows -> Calls \union {NoCall}]
    BY DEF TxInv, IInv, TxTables
  <2>2. ASSUME NEW c \in Calls, InTransaction(c)
        PROVE  /\ call[c].request \in Requests
               /\ call[c].inserts \subseteq DOMAIN call[c].copies
               /\ call[c].copies \in [DOMAIN call[c].copies ->
                      [onHand : 0..MaxInt, reserved : 0..MaxInt]]
    BY <2>2, CallFields DEF TxInv, CallOK, CopiesAreFresh, ItemRow
  <2>3. QED
    BY <2>1, <2>2, CallEnds DEF TxInv, TxTypeOK
<1>2. QED
  BY <1>1, TxInvariant, PTL

\* Interleaved calls never promise stock that is not there.
THEOREM TransactionsReserveWhatIsThere == TxSpec => []ReservedStockIsOnHand
<1>1. TxInv => ReservedStockIsOnHand
  BY ReservedWithinStock DEF TxInv
<1>2. QED
  BY <1>1, TxInvariant, PTL
=============================================================================
