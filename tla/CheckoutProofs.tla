--------------------------- MODULE CheckoutProofs ---------------------------
(***************************************************************************)
(* The properties of Checkout for every cart, stock, wallet and number of  *)
(* requests, interleaved statement by statement and dying anywhere.        *)
(*                                                                         *)
(* Handlers act on what they read, so what they read is part of the        *)
(* invariant: LocalOK says, for each place a request can be at, what it    *)
(* knows of its own order and of the rows it has in hand.  Two placements  *)
(* may hold the same reservations; only the status under the inventory's   *)
(* lock keeps them apart, so every consumed reservation is committed.      *)
(*                                                                         *)
(* The inventory's half is IInv of InventoryProofs: checkout's steps on it *)
(* are steps of Inventory.                                                 *)
(***************************************************************************)
EXTENDS Checkout, InventoryProofs

-----------------------------------------------------------------------------
(***************************************************************************)
(* Types                                                                   *)
(***************************************************************************)

\* A line in the cart has at least one unit.
CartLines ==
    {ls \in [LineIds -> LineRow] :
        \A l \in LineIds : ls[l].state = "live" => ls[l].quantity > 0}

PlacePcs ==
    {"quoteGift", "quotePoints", "insert", "redeemGift", "redeemPoints", "pay",
     "commit", "convert"}

Pcs ==
    {"start", "lines", "release", "clear", "pick", "reserve", "rollback",
     "attach", "quote", "lock", "readStatus", "saveStatus", "requireOpen",
     "find", "write", "save", "done", "failed"} \union PlacePcs

Targets ==
    {"confirmed", "fulfilled", "cancelled", "update", "remove", "insert", "add"}

RequestRow ==
    [pc : Pcs, cart : CartRow \union {None}, lines : CartLines \union {None},
     todo : SUBSET LineIds, wh : 1..Len(AllowList), held : SUBSET LineIds,
     gift : Nat, points : Nat, order : Places \union {None},
     target : Targets \union {None}, line : LineIds \union {None}]

OrderRow ==
    [status : {"pending", "confirmed", "fulfilled", "cancelled"},
     lines : CartLines, total : Nat, gift : Nat, points : Nat, payment : Nat,
     giftDebit : Nat, pointsDebit : Nat, paid : BOOLEAN,
     consumed : SUBSET ReservationIds]

TablesOK ==
    /\ cart \in CartRow
    /\ lines \in CartLines
    /\ giftBalance \in Nat
    /\ pointsBalance \in Nat
    /\ orders \in [Places -> {NoOrder} \union OrderRow]
    /\ request \in [Requests -> RequestRow]

-----------------------------------------------------------------------------
(***************************************************************************)
(* What a request at r.pc knows                                            *)
(***************************************************************************)

PrepareOK(r) ==
    /\ r.pc = "lines" => r.cart \in CartRow
    /\ r.pc \in {"release", "clear", "pick", "reserve", "rollback", "attach"} =>
           r.todo # {}
    /\ r.pc \in {"release", "clear", "pick", "reserve"} =>
           r.lines \in CartLines /\ r.todo \subseteq Live(r.lines)
    /\ r.pc \in {"release", "clear"} =>
           \A l \in r.todo : r.lines[l].reservation \in ReservationIds

\* Every physical line's reservation was deducted for the order.
Deducted(o) ==
    \A l \in PhysicalLines(o.lines) : o.lines[l].reservation \in o.consumed

\* The order was paid for and has all its stock.
Complete(o) == o \in OrderRow /\ o.paid /\ Deducted(o)

\* o is the order the placement inserts, if it has come to that.
PlaceOK(r, o) ==
    /\ r.pc = "lines" => r.cart \in CartRow
    /\ r.pc \in {"start", "lines", "quoteGift", "quotePoints", "insert"} => o = NoOrder
    /\ r.pc \in PlacePcs =>
           /\ r.cart \in CartRow
           /\ r.lines \in CartLines
           /\ \A l \in PhysicalLines(r.lines) : r.lines[l].reservation \in ReservationIds
    /\ r.pc \in {"start", "lines", "quoteGift"} => r.gift = 0
    /\ r.pc \in {"quotePoints", "insert"} => r.gift <= Subtotal(r.lines)
    /\ r.pc = "insert" => r.gift + r.points <= Subtotal(r.lines)
    /\ r.pc \in {"redeemGift", "redeemPoints", "pay", "commit", "convert"} =>
           o \in OrderRow /\ o.lines = r.lines /\ o.gift = r.gift /\ o.points = r.points
    /\ r.pc = "redeemGift" => o.giftDebit = 0 /\ o.pointsDebit = 0
    /\ r.pc = "redeemPoints" => o.giftDebit = o.gift /\ o.pointsDebit = 0
    /\ r.pc = "pay" => o.giftDebit = o.gift /\ o.pointsDebit = o.points
    /\ r.pc \in {"redeemGift", "redeemPoints", "pay"} => ~o.paid
    /\ r.pc \in {"commit", "convert"} => o.paid
    /\ r.pc = "commit" =>
           /\ r.todo # {} /\ r.todo \subseteq PhysicalLines(o.lines)
           /\ \A l \in PhysicalLines(o.lines) \ r.todo :
                  o.lines[l].reservation \in o.consumed
    /\ r.pc = "convert" => Deducted(o)
    /\ r.pc \in {"readStatus", "saveStatus"} /\ r.target # "cancelled" => Complete(o)
    /\ r.pc = "done" => Complete(o)

\* A selection saves a cart that was not converted when it was read.
SelectOK(r) == r.pc = "save" => r.cart \in CartRow /\ r.cart.status # "converted"

EditOK(r) == r.pc \in {"requireOpen", "write"} => r.line \in LineIds

\* os are the orders: a transition is of one that was inserted.
StatusOK(p, r, os) ==
    r.pc \in {"readStatus", "saveStatus"} =>
        /\ r.order \in Places /\ os[r.order] # NoOrder
        /\ p \in Places => r.order = p
        /\ r.target \in {"confirmed", "fulfilled", "cancelled"}

LocalOK(p, r, os) ==
    /\ p \in Prepares => PrepareOK(r)
    /\ p \in Places => PlaceOK(r, os[p])
    /\ p \in Selections => SelectOK(r)
    /\ p \in Edits => EditOK(r)
    /\ StatusOK(p, r, os)

-----------------------------------------------------------------------------
(***************************************************************************)
(* What is true of an order                                                *)
(***************************************************************************)

OrderOK(o) ==
    o # NoOrder =>
        /\ o.total = Subtotal(o.lines)
        /\ o.gift + o.points <= o.total
        /\ o.paid => /\ o.payment = o.total - o.gift - o.points
                     /\ o.giftDebit = o.gift /\ o.pointsDebit = o.points
        /\ o.consumed # {} => o.paid

\* Its stock was deducted, and for no other order.
StockOK ==
    /\ \A p \in Placed : \A r \in orders[p].consumed :
           reservations[r].status = "committed"
    /\ OrdersNeverShareStock

GiftDebits(os) == [p \in Places |-> IF os[p] # NoOrder THEN os[p].giftDebit ELSE 0]
PointsDebits(os) == [p \in Places |-> IF os[p] # NoOrder THEN os[p].pointsDebit ELSE 0]

WalletsOK ==
    /\ giftBalance + SumOf(GiftDebits(orders)) = GiftCredit
    /\ pointsBalance + SumOf(PointsDebits(orders)) = Points

ConvertedOK == cart.status = "converted" => \E p \in Places : Complete(orders[p])

Inv ==
    /\ IInv
    /\ TablesOK
    /\ \A p \in Requests : LocalOK(p, request[p], orders)
    /\ \A p \in Places : OrderOK(orders[p])
    /\ StockOK
    /\ WalletsOK
    /\ ConvertedOK
-----------------------------------------------------------------------------
(***************************************************************************)
(* Sums and loops                                                          *)
(***************************************************************************)

\* The units of one value among those of the others.
UnitsFor(S, q) == UNION {{s} \X (1..q[s]) : s \in S}

LEMMA UnitsForAreFinite ==
    ASSUME NEW S, IsFiniteSet(S), NEW q \in [S -> Nat], NEW T, T \subseteq S
    PROVE  IsFiniteSet(UnitsFor(T, q)) /\ Cardinality(UnitsFor(T, q)) \in Nat
<1> DEFINE boxes == {{s} \X (1..q[s]) : s \in T}
<1>1. IsFiniteSet(T)
  BY FS_Subset
<1>2. IsFiniteSet(boxes)
  <2> DEFINE box == [s \in T |-> {s} \X (1..q[s])]
  <2>1. box \in Surjection(T, boxes)
    BY DEF Surjection
  <2> HIDE DEF box, boxes
  <2>2. QED
    BY <1>1, <2>1, FS_Surjection
<1>3. ASSUME NEW s \in T PROVE IsFiniteSet({s} \X (1..q[s]))
  <2>1. q[s] \in Nat
    OBVIOUS
  <2>2. QED
    BY <2>1, UnitsOfOneRow
<1>4. \A b \in boxes : IsFiniteSet(b)
  BY <1>3
<1>5. IsFiniteSet(UNION boxes)
  BY <1>2, <1>4, FS_UNION
<1>6. QED
  BY <1>5, FS_CardinalityType DEF UnitsFor

\* One value's units are set apart from those of the others.
LEMMA UnitsWithout ==
    ASSUME NEW S, IsFiniteSet(S), NEW q \in [S -> Nat], NEW s \in S
    PROVE  SumOf(q) = Cardinality(UnitsFor(S \ {s}, q)) + q[s]
<1> DEFINE others == UnitsFor(S \ {s}, q)
           own == {s} \X (1..q[s])
<1>1. UNION {{t} \X (1..q[t]) : t \in DOMAIN q} = others \union own
  BY DEF UnitsFor
<1>2. others \intersect own = {}
  BY DEF UnitsFor
<1>3. q[s] \in Nat
  OBVIOUS
<1>4. IsFiniteSet(own) /\ Cardinality(own) = q[s]
  BY <1>3, UnitsOfOneRow
<1>5. IsFiniteSet(others) /\ Cardinality(others) \in Nat
  BY UnitsForAreFinite
<1>6. SumOf(q) = Cardinality(others \union own)
  BY <1>1 DEF SumOf
<1> HIDE DEF others, own
<1>7. Cardinality(others \union own)
          = Cardinality(others) + Cardinality(own) - Cardinality({})
  BY <1>2, <1>4, <1>5, FS_Union
<1>8. QED
  BY <1>3, <1>4, <1>5, <1>6, <1>7, FS_EmptySet DEF others

\* When one value changes, the sum changes by as much.
LEMMA SumAfterOne ==
    ASSUME NEW S, IsFiniteSet(S), NEW q \in [S -> Nat], NEW p \in [S -> Nat],
           NEW s \in S, \A t \in S \ {s} : p[t] = q[t]
    PROVE  SumOf(p) = SumOf(q) + p[s] - q[s]
<1>1. UnitsFor(S \ {s}, p) = UnitsFor(S \ {s}, q)
  BY DEF UnitsFor
<1>2. SumOf(p) = Cardinality(UnitsFor(S \ {s}, q)) + p[s]
  BY <1>1, UnitsWithout
<1>3. SumOf(q) = Cardinality(UnitsFor(S \ {s}, q)) + q[s]
  BY UnitsWithout
<1>4. Cardinality(UnitsFor(S \ {s}, q)) \in Nat
  BY UnitsForAreFinite
<1>5. p[s] \in Nat /\ q[s] \in Nat
  OBVIOUS
<1>6. QED
  BY <1>2, <1>3, <1>4, <1>5

LEMMA SumIsNat ==
    ASSUME NEW S, IsFiniteSet(S), NEW q \in [S -> Nat]
    PROVE  SumOf(q) \in Nat
<1>1. UNION {{t} \X (1..q[t]) : t \in DOMAIN q} = UnitsFor(S, q)
  BY DEF UnitsFor
<1>2. QED
  BY <1>1, UnitsForAreFinite DEF SumOf

LEMMA SumOfZeros ==
    ASSUME NEW S
    PROVE  SumOf([s \in S |-> 0]) = 0
<1> DEFINE q == [s \in S |-> 0]
<1>1. \A s \in S : {s} \X (1..q[s]) = {}
  BY Z3
<1>2. UNION {{t} \X (1..q[t]) : t \in DOMAIN q} = {}
  BY <1>1
<1>3. QED
  BY <1>2, FS_EmptySet DEF SumOf

LEMMA SubtotalIsNat ==
    ASSUME NEW ls \in CartLines
    PROVE  Subtotal(ls) \in Nat
<1> DEFINE q == [l \in LineIds |-> IF l \in Live(ls) THEN ls[l].quantity ELSE 0]
<1>1. q \in [LineIds -> Nat]
  BY MaxIntAssumption DEF CartLines, LineRow
<1> HIDE DEF q
<1>2. SumOf(q) \in Nat
  BY <1>1, SumIsNat, LinesAssumption
<1>3. QED
  BY <1>2 DEF Subtotal, q

\* A loop with lines to visit has a first one.
LEMMA FirstIsOne ==
    ASSUME NEW L, L \subseteq LineIds, L # {}
    PROVE  First(L) \in L
<1> DEFINE times == {CreatedAt[l] : l \in L}
<1>1. times \subseteq Nat /\ times # {}
  BY LinesAssumption
<1>2. PICK x \in times : \A y \in times : ~ (<<y, x>> \in OpToRel(<, Nat))
  <2> HIDE DEF times
  <2>1. QED
    BY <1>1, NatLessThanWellFounded, WFMin
<1>3. ASSUME NEW y \in times PROVE x <= y
  <2>1. x \in Nat /\ y \in Nat
    BY <1>1
  <2>2. <<y, x>> \in Nat \X Nat
    BY <2>1
  <2>3. ~ (<<y, x>> \in OpToRel(<, Nat))
    BY <1>2
  <2>4. y < x => <<y, x>> \in OpToRel(<, Nat)
    BY <2>1, <2>2 DEF OpToRel
  <2>5. ~ (y < x)
    BY <2>3, <2>4, Zenon
  <2>6. QED
    BY <2>1, <2>5
<1>4. PICK l \in L : x = CreatedAt[l]
  OBVIOUS
<1>5. \A k \in L : CreatedAt[l] <= CreatedAt[k]
  BY <1>3, <1>4
<1>6. QED
  BY <1>4, <1>5, Zenon DEF First
-----------------------------------------------------------------------------
(***************************************************************************)
(* Two kinds of steps                                                      *)
(***************************************************************************)

LEMMA OrdersAreOrders ==
    ASSUME NEW o \in OrderRow
    PROVE  o # NoOrder
  BY DEF OrderRow, NoOrder

CommittedStay ==
    \A r \in ReservationIds :
        reservations[r].status = "committed" => reservations'[r].status = "committed"

\* A request that is over knows nothing, but for a placement that succeeded.
LEMMA OverIsLocal ==
    ASSUME NEW p \in Requests, NEW how \in {"done", "failed"}, NEW os,
           how = "done" /\ p \in Places => Complete(os[p])
    PROVE  /\ [Blank EXCEPT !.pc = how] \in RequestRow
           /\ LocalOK(p, [Blank EXCEPT !.pc = how], os)
<1> DEFINE x == [Blank EXCEPT !.pc = how]
<1>1. 1 \in 1..Len(AllowList)
  BY StockAssumption
<1>2. x = [pc |-> how, cart |-> None, lines |-> None, todo |-> {},
           wh |-> 1, held |-> {}, gift |-> 0, points |-> 0, order |-> None,
           target |-> None, line |-> None]
  BY DEF Blank
<1>3. x \in RequestRow
  BY <1>1, <1>2 DEF RequestRow, Pcs
<1>4. x.pc = how
  BY <1>2
<1> HIDE DEF x
<1>5. LocalOK(p, x, os)
  BY <1>4 DEF LocalOK, PrepareOK, PlaceOK, SelectOK, EditOK, StatusOK, PlacePcs
<1>6. QED
  BY <1>3, <1>5 DEF x

\* A step of request p that leaves orders and wallets alone.
LEMMA StepKeeps ==
    ASSUME Inv, IInv', NEW p \in Requests, NEW x \in RequestRow,
           request' = [request EXCEPT ![p] = x],
           LocalOK(p, x, orders),
           orders' = orders, giftBalance' = giftBalance,
           pointsBalance' = pointsBalance,
           lines' \in CartLines, cart' \in CartRow,
           cart'.status = "converted" =>
               cart.status = "converted" \/ \E o \in Places : Complete(orders[o]),
           CommittedStay
    PROVE  Inv'
<1>1. TablesOK'
  BY DEF Inv, TablesOK
<1>2. \A s \in Requests : LocalOK(s, request'[s], orders')
  BY DEF Inv, TablesOK
<1>3. \A o \in Places : OrderOK(orders'[o])
  BY DEF Inv
<1>4. StockOK'
  <2>1. \A o \in Places : orders[o] # NoOrder => orders[o].consumed \subseteq ReservationIds
    BY DEF Inv, TablesOK, OrderRow
  <2>2. StockOK
    BY DEF Inv
  <2>3. ASSUME NEW o \in Placed', NEW r \in orders'[o].consumed
        PROVE  reservations'[r].status = "committed"
    BY <2>1, <2>2, <2>3 DEF StockOK, Placed, CommittedStay
  <2>4. OrdersNeverShareStock'
    BY <2>2 DEF StockOK, OrdersNeverShareStock, Placed
  <2>5. QED
    BY <2>3, <2>4 DEF StockOK
<1>5. WalletsOK'
  BY DEF Inv, WalletsOK
<1>6. ConvertedOK'
  BY DEF Inv, ConvertedOK
<1>7. QED
  BY <1>1, <1>2, <1>3, <1>4, <1>5, <1>6 DEF Inv

\* A step of request s that makes o the order of placement p.
LEMMA OrderStep ==
    ASSUME Inv, IInv', NEW s \in Requests, NEW x \in RequestRow,
           request' = [request EXCEPT ![s] = x],
           NEW p \in Places, NEW o \in OrderRow,
           orders' = [orders EXCEPT ![p] = o],
           OrderOK(o),
           LocalOK(s, x, orders'),
           s # p => PlaceOK(request[p], o),
           Complete(orders[p]) => Complete(o),
           giftBalance' \in Nat, pointsBalance' \in Nat, WalletsOK',
           lines' = lines, cart' = cart,
           CommittedStay,
           \A r \in o.consumed : reservations'[r].status = "committed",
           \A r \in o.consumed : \A t \in Places \ {p} :
               orders[t] # NoOrder => r \notin orders[t].consumed
    PROVE  Inv'
<1>1. TablesOK'
  BY DEF Inv, TablesOK
<1>2. ASSUME NEW t \in Requests
      PROVE  LocalOK(t, request'[t], orders')
  <2>1. CASE t = s
    BY <2>1 DEF Inv, TablesOK
  <2>2. CASE t # s
    <3>1. request'[t] = request[t] /\ LocalOK(t, request[t], orders)
      BY <2>2 DEF Inv, TablesOK
    <3>2. t \in Places => PlaceOK(request[t], orders'[t])
      <4>1. CASE t = p
        BY <2>2, <4>1 DEF Inv, TablesOK
      <4>2. CASE t # p
        BY <3>1, <4>2 DEF Inv, TablesOK, LocalOK
      <4>3. QED
        BY <4>1, <4>2
    <3>3. StatusOK(t, request[t], orders')
      <4>1. \A u \in Places : orders[u] # NoOrder => orders'[u] # NoOrder
        BY OrdersAreOrders DEF Inv, TablesOK
      <4>2. StatusOK(t, request[t], orders)
        BY <3>1 DEF LocalOK
      <4>3. QED
        BY <4>1, <4>2 DEF StatusOK
    <3>4. QED
      BY <3>1, <3>2, <3>3 DEF LocalOK
  <2>3. QED
    BY <2>1, <2>2
<1>3. \A t \in Places : OrderOK(orders'[t])
  BY DEF Inv, TablesOK
<1>4. StockOK'
  <2>1. \A t \in Places : orders[t] # NoOrder => orders[t].consumed \subseteq ReservationIds
    BY DEF Inv, TablesOK, OrderRow
  <2>2. StockOK
    BY DEF Inv
  <2>3. \A t \in Places : orders'[t] = IF t = p THEN o ELSE orders[t]
    BY DEF Inv, TablesOK
  <2>4. ASSUME NEW t \in Placed', NEW r \in orders'[t].consumed
        PROVE  reservations'[r].status = "committed"
    <3>1. CASE t = p
      BY <2>3, <2>4, <3>1 DEF Placed
    <3>2. CASE t # p
      BY <2>1, <2>2, <2>3, <2>4, <3>2 DEF StockOK, Placed, CommittedStay
    <3>3. QED
      BY <3>1, <3>2
  <2>5. ASSUME NEW t \in Placed', NEW u \in Placed', t # u
        PROVE  orders'[t].consumed \intersect orders'[u].consumed = {}
    <3>1. t \in Places /\ u \in Places
      BY DEF Placed
    <3>2. CASE t = p
      BY <2>3, <2>5, <3>1, <3>2 DEF Placed
    <3>3. CASE u = p
      BY <2>3, <2>5, <3>1, <3>3 DEF Placed
    <3>4. CASE t # p /\ u # p
      BY <2>2, <2>3, <2>5, <3>1, <3>4 DEF StockOK, OrdersNeverShareStock, Placed
    <3>5. QED
      BY <3>2, <3>3, <3>4
  <2>6. OrdersNeverShareStock'
    BY <2>5 DEF OrdersNeverShareStock
  <2>7. QED
    BY <2>4, <2>6 DEF StockOK
<1>5. ConvertedOK'
  BY DEF Inv, TablesOK, ConvertedOK
<1>6. QED
  BY <1>1, <1>2, <1>3, <1>4, <1>5 DEF Inv
LEMMA InventoryStays ==
    ASSUME IInv, UNCHANGED inventoryVars
    PROVE  IInv' /\ CommittedStay
<1>1. IInv'
  BY NextIInv
<1>2. CommittedStay
  BY DEF CommittedStay, inventoryVars
<1>3. QED
  BY <1>1, <1>2

\* A step that only moves a request on.
LEMMA RequestStep ==
    ASSUME Inv, NEW p \in Requests, NEW x \in RequestRow, Becomes(p, x),
           LocalOK(p, x, orders),
           UNCHANGED <<inventoryVars, cart, lines, walletVars, orders>>
    PROVE  Inv'
<1>1. IInv' /\ CommittedStay
  BY InventoryStays DEF Inv
<1>2. /\ orders' = orders /\ giftBalance' = giftBalance
      /\ pointsBalance' = pointsBalance
      /\ lines' \in CartLines /\ cart' \in CartRow
      /\ cart'.status = "converted" =>
             cart.status = "converted" \/ \E o \in Places : Complete(orders[o])
  BY DEF Inv, TablesOK, walletVars
<1>3. QED
  BY <1>1, <1>2, StepKeeps DEF Becomes

LEMMA OverStep ==
    ASSUME Inv, NEW p \in Requests, NEW how \in {"done", "failed"}, Over(p, how),
           how = "done" /\ p \in Places => Complete(orders[p]),
           UNCHANGED <<inventoryVars, cart, lines, walletVars, orders>>
    PROVE  Inv'
  BY OverIsLocal, RequestStep DEF Over

\* What a request has read so far.
LEMMA Knows ==
    ASSUME Inv, NEW p \in Requests
    PROVE  /\ request[p] \in RequestRow
           /\ LocalOK(p, request[p], orders)
  BY DEF Inv, TablesOK

-----------------------------------------------------------------------------
(***************************************************************************)
(* prepare                                                                 *)
(***************************************************************************)

LEMMA PrepareIsLocal ==
    ASSUME NEW p \in Prepares, NEW x, PrepareOK(x), NEW os,
           x.pc \notin {"readStatus", "saveStatus"}
    PROVE  LocalOK(p, x, os)
  BY RequestsAssumption DEF LocalOK, StatusOK

LEMMA PlaceIsLocal ==
    ASSUME NEW p \in Places, NEW x, NEW os, PlaceOK(x, os[p]), StatusOK(p, x, os)
    PROVE  LocalOK(p, x, os)
  BY RequestsAssumption DEF LocalOK

LEMMA ReadCartKeeps ==
    ASSUME Inv, NEW p \in Requests, ReadCart(p)
    PROVE  Inv'
<1>1. PICK r \in RequestRow : r = request[p] /\ LocalOK(p, r, orders)
  BY Knows
<1>2. PICK x : x = [r EXCEPT !.pc = "lines", !.cart = cart]
  OBVIOUS
<1>3. x \in RequestRow
  BY <1>2 DEF Inv, TablesOK, RequestRow, Pcs
<1>4. x.pc = "lines" /\ x.cart \in CartRow /\ x.gift = r.gift
  BY <1>2 DEF Inv, TablesOK, RequestRow
<1>5. LocalOK(p, x, orders)
  <2>1. CASE p \in Prepares
    BY <1>4, <2>1, PrepareIsLocal DEF PrepareOK
  <2>2. CASE p \in Places
    <3>1. orders[p] = NoOrder /\ r.gift = 0
      BY <1>1, <2>2 DEF ReadCart, At, LocalOK, PlaceOK
    <3>2. PlaceOK(x, orders[p]) /\ StatusOK(p, x, orders)
      BY <1>4, <3>1 DEF PlaceOK, StatusOK, PlacePcs
    <3>3. QED
      BY <2>2, <3>2, PlaceIsLocal
  <2>3. QED
    BY <2>1, <2>2 DEF ReadCart
<1>6. QED
  BY <1>1, <1>2, <1>3, <1>5, RequestStep DEF ReadCart

\* The lines read are in the cart, with at least a unit each.
LEMMA ToReserveIsLocal ==
    ASSUME NEW p \in Prepares, NEW r \in RequestRow, r.lines \in CartLines, NEW os
    PROVE  ToReserve(r) \in RequestRow /\ LocalOK(p, ToReserve(r), os)
<1>1. PICK todo : todo = PhysicalLines(r.lines)
  OBVIOUS
<1>2. todo \subseteq LineIds /\ todo \subseteq Live(r.lines)
  BY <1>1 DEF PhysicalLines, Live
<1>3. PICK pc : pc = IF todo = {} THEN "quote" ELSE "pick"
  OBVIOUS
<1>4. PICK x : x = [r EXCEPT !.todo = todo, !.pc = pc]
  OBVIOUS
<1>5. ToReserve(r) = x
  BY <1>1, <1>3, <1>4 DEF ToReserve
<1>6. x \in RequestRow
  <2>1. pc \in Pcs /\ todo \in SUBSET LineIds
    BY <1>2, <1>3 DEF Pcs
  <2>2. QED
    BY <1>4, <2>1 DEF RequestRow
<1>7. x.pc = pc /\ x.todo = todo /\ x.lines = r.lines
  BY <1>4 DEF RequestRow
<1>8. PrepareOK(x)
  BY <1>2, <1>3, <1>7 DEF PrepareOK
<1>9. LocalOK(p, x, os)
  BY <1>3, <1>7, <1>8, PrepareIsLocal
<1>10. QED
  BY <1>5, <1>6, <1>9

LEMMA PrepareReadLinesKeeps ==
    ASSUME Inv, NEW p \in Requests, PrepareReadLines(p)
    PROVE  Inv'
<1>1. PICK r \in RequestRow : r = request[p]
  BY Knows
<1>2. p \in Prepares /\ lines \in CartLines
  BY DEF PrepareReadLines, Inv, TablesOK
<1>3. PICK x : x = [r EXCEPT !.lines = lines]
  OBVIOUS
<1>4. x \in RequestRow /\ x.lines \in CartLines /\ x.lines = lines
  BY <1>2, <1>3 DEF RequestRow
<1>5. PICK old : old = {l \in Live(lines) : lines[l].reservation # None}
  OBVIOUS
<1>6. old \subseteq LineIds /\ old \subseteq Live(lines)
  BY <1>5 DEF Live
<1>7. \A l \in old : lines[l].reservation \in ReservationIds
  BY <1>2, <1>5, <1>6 DEF CartLines, LineRow
<1>8. UNCHANGED <<inventoryVars, cart, lines, walletVars, orders>>
  BY DEF PrepareReadLines
<1>9. CASE Over(p, "failed")
  BY <1>8, <1>9, OverStep
<1>10. CASE old = {} /\ Becomes(p, ToReserve(x))
  BY <1>2, <1>4, <1>8, <1>10, ToReserveIsLocal, RequestStep
<1>11. CASE old # {} /\ Becomes(p, [x EXCEPT !.todo = old, !.pc = "release"])
  <2>1. PICK y : y = [x EXCEPT !.todo = old, !.pc = "release"]
    OBVIOUS
  <2>2. y \in RequestRow
    BY <1>4, <1>6, <2>1 DEF RequestRow, Pcs
  <2>3. y.pc = "release" /\ y.todo = old /\ y.lines = lines
    BY <1>4, <2>1 DEF RequestRow
  <2>4. PrepareOK(y)
    BY <1>2, <1>6, <1>7, <1>11, <2>3 DEF PrepareOK
  <2>5. LocalOK(p, y, orders)
    BY <1>2, <2>3, <2>4, PrepareIsLocal
  <2>6. QED
    BY <1>8, <1>11, <2>1, <2>2, <2>5, RequestStep
<1>12. QED
  BY <1>1, <1>3, <1>5, <1>9, <1>10, <1>11 DEF PrepareReadLines
LEMMA TryReleaseStep ==
    ASSUME IInv, NEW r \in ReservationIds \union {None}, TryRelease(r)
    PROVE  IInv' /\ CommittedStay
<1>1. CASE r \in ReservationIds /\ Release(r)
  <2>1. IInv'
    BY <1>1, ReleaseStep
  <2>2. \A s \in ReservationIds \ {r} : reservations'[s] = reservations[s]
    BY <1>1 DEF Release, IInv, TypeOK
  <2>3. reservations[r].status # "committed"
    BY <1>1 DEF Release
  <2>4. CommittedStay
    BY <2>2, <2>3 DEF CommittedStay
  <2>5. QED
    BY <2>1, <2>4
<1>2. CASE UNCHANGED inventoryVars
  BY <1>2, InventoryStays
<1>3. QED
  BY <1>1, <1>2 DEF TryRelease

\* A step that moves a request on and changes reservations, but no other row.
LEMMA StockStep ==
    ASSUME Inv, IInv', CommittedStay,
           NEW p \in Requests, NEW x \in RequestRow, Becomes(p, x),
           LocalOK(p, x, orders),
           UNCHANGED <<cart, lines, walletVars, orders>>
    PROVE  Inv'
<1>1. /\ orders' = orders /\ giftBalance' = giftBalance
      /\ pointsBalance' = pointsBalance
      /\ lines' \in CartLines /\ cart' \in CartRow
      /\ cart'.status = "converted" =>
             cart.status = "converted" \/ \E o \in Places : Complete(orders[o])
  BY DEF Inv, TablesOK, walletVars
<1>2. QED
  BY <1>1, StepKeeps DEF Becomes

\* A step that moves a request on and writes lines.
LEMMA LinesStep ==
    ASSUME Inv, NEW p \in Requests, NEW x \in RequestRow, Becomes(p, x),
           LocalOK(p, x, orders), lines' \in CartLines,
           UNCHANGED <<inventoryVars, cart, walletVars, orders>>
    PROVE  Inv'
<1>1. IInv' /\ CommittedStay
  BY InventoryStays DEF Inv
<1>2. /\ orders' = orders /\ giftBalance' = giftBalance
      /\ pointsBalance' = pointsBalance
      /\ cart' \in CartRow
      /\ cart'.status = "converted" =>
             cart.status = "converted" \/ \E o \in Places : Complete(orders[o])
  BY DEF Inv, TablesOK, walletVars
<1>3. QED
  BY <1>1, <1>2, StepKeeps DEF Becomes

LEMMA PrepareReleaseKeeps ==
    ASSUME Inv, NEW p \in Requests, PrepareRelease(p)
    PROVE  Inv'
<1>1. PICK r \in RequestRow : r = request[p] /\ LocalOK(p, r, orders)
  BY Knows
<1>2. p \in Prepares /\ r.pc = "release"
  BY <1>1 DEF PrepareRelease, At
<1>3. PrepareOK(r)
  BY <1>1, <1>2 DEF LocalOK
<1>4. r.todo # {} /\ r.todo \subseteq LineIds
  BY <1>2, <1>3 DEF PrepareOK, RequestRow
<1>5. PICK l : l = First(r.todo)
  OBVIOUS
<1>6. l \in r.todo
  BY <1>4, <1>5, FirstIsOne
<1>7. PICK v : v = r.lines[l].reservation
  OBVIOUS
<1>8. v \in ReservationIds
  BY <1>2, <1>3, <1>6, <1>7 DEF PrepareOK
<1>9. TryRelease(v)
  BY <1>1, <1>5, <1>7 DEF PrepareRelease, Line
<1>10. IInv' /\ CommittedStay
  BY <1>8, <1>9, TryReleaseStep DEF Inv
<1>11. PICK x : x = [r EXCEPT !.pc = "clear"]
  OBVIOUS
<1>12. x \in RequestRow
  BY <1>11 DEF RequestRow, Pcs
<1>13. x.pc = "clear" /\ x.todo = r.todo /\ x.lines = r.lines
  BY <1>11 DEF RequestRow
<1>14. PrepareOK(x)
  BY <1>2, <1>3, <1>13 DEF PrepareOK
<1>15. LocalOK(p, x, orders)
  BY <1>2, <1>13, <1>14, PrepareIsLocal
<1>16. Becomes(p, x) /\ UNCHANGED <<cart, lines, walletVars, orders>>
  BY <1>1, <1>11 DEF PrepareRelease, Goto
<1>17. QED
  BY <1>10, <1>12, <1>15, <1>16, StockStep

LEMMA PrepareClearKeeps ==
    ASSUME Inv, NEW p \in Requests, PrepareClear(p)
    PROVE  Inv'
<1>1. PICK r \in RequestRow : r = request[p] /\ LocalOK(p, r, orders)
  BY Knows
<1>2. p \in Prepares /\ r.pc = "clear"
  BY <1>1 DEF PrepareClear, At
<1>3. PrepareOK(r)
  BY <1>1, <1>2 DEF LocalOK
<1>4. r.todo # {} /\ r.todo \subseteq LineIds
  BY <1>2, <1>3 DEF PrepareOK, RequestRow
<1>5. PICK l : l = First(r.todo)
  OBVIOUS
<1>6. l \in r.todo /\ l \in LineIds
  BY <1>4, <1>5, FirstIsOne
<1>7. r.lines \in CartLines /\ r.todo \subseteq Live(r.lines)
  BY <1>2, <1>3 DEF PrepareOK
<1>8. r.lines[l] \in LineRow /\ r.lines[l].state = "live" /\ r.lines[l].quantity > 0
  BY <1>6, <1>7 DEF CartLines, Live
<1>9. PICK row : row = [r.lines[l] EXCEPT !.reservation = None]
  OBVIOUS
<1>10. row \in LineRow /\ row.state = "live" /\ row.quantity > 0
  BY <1>8, <1>9 DEF LineRow
<1>11. PICK ls : ls = [r.lines EXCEPT ![l] = row]
  OBVIOUS
<1>12. ls \in CartLines
  BY <1>6, <1>7, <1>10, <1>11 DEF CartLines
<1>13. PICK y : y = [r EXCEPT !.lines = ls]
  OBVIOUS
<1>14. /\ y \in RequestRow /\ y.lines = ls /\ y.todo = r.todo
       /\ y = [r EXCEPT !.lines[l] = row]
  BY <1>11, <1>12, <1>13 DEF RequestRow
<1>15. PICK rest : rest = r.todo \ {l}
  OBVIOUS
<1>16. PICK pc : pc = IF rest = {} THEN "pick" ELSE "release"
  OBVIOUS
<1>17. PICK x : x = [y EXCEPT !.todo = rest, !.pc = pc]
  OBVIOUS
<1>18. x = Next1([r EXCEPT !.lines[l] = row], "release", "pick")
  BY <1>5, <1>14, <1>15, <1>16, <1>17 DEF Next1
<1>19. rest \subseteq LineIds /\ pc \in Pcs
  BY <1>4, <1>15, <1>16 DEF Pcs
<1>20. x \in RequestRow /\ x.lines = ls /\ x.pc = pc /\ x.todo = rest
  BY <1>14, <1>17, <1>19 DEF RequestRow
<1>21. UNCHANGED <<inventoryVars, cart, walletVars, orders>>
  BY DEF PrepareClear
<1>22. CASE Over(p, "failed") /\ UNCHANGED lines
  BY <1>21, <1>22, OverStep
<1>23. CASE /\ lines' = [lines EXCEPT ![l] = row]
            /\ Becomes(p, IF pc = "pick" THEN ToReserve(x) ELSE x)
  <2>1. lines \in CartLines
    BY DEF Inv, TablesOK
  <2>2. lines' \in CartLines
    BY <1>6, <1>10, <1>23, <2>1 DEF CartLines
  <2>3. CASE pc = "pick"
    <3>1. ToReserve(x) \in RequestRow /\ LocalOK(p, ToReserve(x), orders)
      BY <1>2, <1>12, <1>20, ToReserveIsLocal
    <3>2. Becomes(p, ToReserve(x))
      BY <1>23, <2>3
    <3>3. QED
      BY <1>21, <2>2, <3>1, <3>2, LinesStep
  <2>4. CASE pc # "pick"
    <3>1. pc = "release" /\ rest # {}
      BY <1>16, <2>4
    <3>2. rest \subseteq Live(ls)
      BY <1>4, <1>7, <1>11, <1>15 DEF Live, CartLines
    <3>3. \A k \in rest : ls[k].reservation \in ReservationIds
      BY <1>2, <1>3, <1>4, <1>7, <1>11, <1>15 DEF PrepareOK, CartLines
    <3>4. PrepareOK(x)
      BY <1>12, <1>20, <3>1, <3>2, <3>3 DEF PrepareOK
    <3>5. LocalOK(p, x, orders)
      BY <1>2, <1>20, <3>1, <3>4, PrepareIsLocal
    <3>6. Becomes(p, x)
      BY <1>23, <2>4
    <3>7. QED
      BY <1>20, <1>21, <2>2, <3>5, <3>6, LinesStep
  <2>5. QED
    BY <2>3, <2>4
<1>24. Line(p) = l
  BY <1>1, <1>5 DEF Line
<1>25. QED
  BY <1>1, <1>9, <1>18, <1>20, <1>22, <1>23, <1>24 DEF PrepareClear
LEMMA ToRollbackStep ==
    ASSUME Inv, NEW p \in Prepares, p \in Requests, ToRollback(p),
           UNCHANGED <<inventoryVars, cart, lines, walletVars, orders>>
    PROVE  Inv'
<1>1. PICK r \in RequestRow : r = request[p]
  BY Knows
<1>2. CASE Over(p, "failed")
  BY <1>2, OverStep
<1>3. CASE r.held # {} /\ Becomes(p, [r EXCEPT !.todo = r.held, !.pc = "rollback"])
  <2>1. PICK x : x = [r EXCEPT !.todo = r.held, !.pc = "rollback"]
    OBVIOUS
  <2>2. x \in RequestRow /\ x.pc = "rollback" /\ x.todo # {}
    BY <1>3, <2>1 DEF RequestRow, Pcs
  <2>3. PrepareOK(x)
    BY <2>2 DEF PrepareOK
  <2>4. LocalOK(p, x, orders)
    BY <2>2, <2>3, PrepareIsLocal
  <2>5. QED
    BY <1>3, <2>1, <2>2, <2>4, RequestStep
<1>4. QED
  BY <1>1, <1>2, <1>3 DEF ToRollback

LEMMA PreparePickKeeps ==
    ASSUME Inv, NEW p \in Requests, PreparePick(p)
    PROVE  Inv'
<1>1. PICK r \in RequestRow : r = request[p] /\ LocalOK(p, r, orders)
  BY Knows
<1>2. p \in Prepares /\ r.pc = "pick"
  BY <1>1 DEF PreparePick, At
<1>3. PrepareOK(r)
  BY <1>1, <1>2 DEF LocalOK
<1>4. UNCHANGED <<inventoryVars, cart, lines, walletVars, orders>>
  BY DEF PreparePick
<1>5. CASE Goto(p, "reserve")
  <2>1. PICK x : x = [r EXCEPT !.pc = "reserve"]
    OBVIOUS
  <2>2. /\ x \in RequestRow /\ x.pc = "reserve"
        /\ x.todo = r.todo /\ x.lines = r.lines
    BY <2>1 DEF RequestRow, Pcs
  <2>3. PrepareOK(x)
    BY <1>2, <1>3, <2>2 DEF PrepareOK
  <2>4. LocalOK(p, x, orders)
    BY <1>2, <2>2, <2>3, PrepareIsLocal
  <2>5. Becomes(p, x)
    BY <1>1, <1>5, <2>1 DEF Goto
  <2>6. QED
    BY <1>4, <2>2, <2>4, <2>5, RequestStep
<1>6. CASE r.wh < Len(AllowList) /\ Becomes(p, [r EXCEPT !.wh = @ + 1])
  <2>1. PICK x : x = [r EXCEPT !.wh = r.wh + 1]
    OBVIOUS
  <2>2. r.wh + 1 \in 1..Len(AllowList)
    BY <1>6, StockAssumption DEF RequestRow
  <2>3. /\ x \in RequestRow /\ x.pc = r.pc
        /\ x.todo = r.todo /\ x.lines = r.lines
    BY <2>1, <2>2 DEF RequestRow
  <2>4. PrepareOK(x)
    BY <1>2, <1>3, <2>3 DEF PrepareOK
  <2>5. LocalOK(p, x, orders)
    BY <1>2, <2>3, <2>4, PrepareIsLocal
  <2>6. QED
    BY <1>4, <1>6, <2>1, <2>3, <2>5, RequestStep
<1>7. CASE ToRollback(p)
  BY <1>2, <1>4, <1>7, ToRollbackStep
<1>8. QED
  BY <1>1, <1>5, <1>6, <1>7 DEF PreparePick

\* Warehouses of the allow list are warehouses.
LEMMA ItemsAreItems ==
    ASSUME NEW l \in LineIds, NEW w \in 1..Len(AllowList)
    PROVE  <<VariantOf[l], AllowList[w]>> \in Items
  BY LinesAssumption, StockAssumption DEF Items

LEMMA PrepareReserveKeeps ==
    ASSUME Inv, NEW p \in Requests, PrepareReserve(p)
    PROVE  Inv'
<1>1. PICK r \in RequestRow : r = request[p] /\ LocalOK(p, r, orders)
  BY Knows
<1>2. p \in Prepares /\ r.pc = "reserve"
  BY <1>1 DEF PrepareReserve, At
<1>3. PrepareOK(r)
  BY <1>1, <1>2 DEF LocalOK
<1>4. r.todo # {} /\ r.todo \subseteq LineIds
  BY <1>2, <1>3 DEF PrepareOK, RequestRow
<1>5. PICK l : l = First(r.todo)
  OBVIOUS
<1>6. l \in r.todo /\ l \in LineIds
  BY <1>4, <1>5, FirstIsOne
<1>7. r.lines \in CartLines /\ r.todo \subseteq Live(r.lines)
  BY <1>2, <1>3 DEF PrepareOK
<1>8. PICK i : i = <<VariantOf[l], AllowList[r.wh]>>
  OBVIOUS
<1>9. i \in Items
  BY <1>6, <1>8, ItemsAreItems DEF RequestRow
<1>10. PICK q : q = r.lines[l].quantity
  OBVIOUS
<1>11. q \in Quantity
  BY <1>6, <1>7, <1>10, MaxIntAssumption DEF CartLines, LineRow, Live, Quantity
<1>12. <<p, l>> \in ReservationIds
  BY <1>2, <1>6, StockAssumption
<1>13. PICK rest : rest = r.todo \ {l}
  OBVIOUS
<1>14. PICK pc : pc = IF rest = {} THEN "attach" ELSE "pick"
  OBVIOUS
<1>15. PICK held : held = r.held \union {l}
  OBVIOUS
<1>16. PICK x : x = [r EXCEPT !.todo = rest, !.pc = pc, !.wh = 1, !.held = held]
  OBVIOUS
<1>17. x = [Next1(r, "pick", "attach") EXCEPT !.wh = 1, !.held = @ \union {l}]
  BY <1>5, <1>13, <1>14, <1>15, <1>16 DEF Next1, RequestRow
<1>18. /\ rest \subseteq LineIds /\ pc \in Pcs /\ held \subseteq LineIds
       /\ held # {} /\ 1 \in 1..Len(AllowList)
  BY <1>4, <1>6, <1>13, <1>14, <1>15, StockAssumption DEF Pcs, RequestRow
<1>19. /\ x \in RequestRow /\ x.lines = r.lines /\ x.pc = pc /\ x.todo = rest
       /\ x.held = held
  BY <1>16, <1>18 DEF RequestRow
<1>20. UNCHANGED <<cart, lines, walletVars, orders>>
  BY DEF PrepareReserve
<1>21. CASE /\ Reserve(<<p, l>>, i, q)
            /\ Becomes(p, IF pc = "attach" THEN [x EXCEPT !.todo = x.held] ELSE x)
  <2>1. IInv'
    BY <1>9, <1>11, <1>12, <1>21, ReserveStep DEF Inv
  <2>2. CommittedStay
    BY <1>21 DEF Reserve, CommittedStay, Inv, IInv, TypeOK
  <2>3. CASE pc = "attach"
    <3>1. PICK y : y = [x EXCEPT !.todo = held]
      OBVIOUS
    <3>2. y \in RequestRow /\ y.pc = "attach" /\ y.todo # {}
      BY <1>18, <1>19, <2>3, <3>1 DEF RequestRow
    <3>3. PrepareOK(y)
      BY <3>2 DEF PrepareOK
    <3>4. LocalOK(p, y, orders)
      BY <1>2, <3>2, <3>3, PrepareIsLocal
    <3>5. Becomes(p, y)
      BY <1>19, <1>21, <2>3, <3>1
    <3>6. QED
      BY <1>20, <2>1, <2>2, <3>2, <3>4, <3>5, StockStep
  <2>4. CASE pc # "attach"
    <3>1. pc = "pick" /\ rest # {}
      BY <1>14, <2>4
    <3>2. PrepareOK(x)
      BY <1>7, <1>13, <1>19, <3>1 DEF PrepareOK
    <3>3. LocalOK(p, x, orders)
      BY <1>2, <1>19, <3>1, <3>2, PrepareIsLocal
    <3>4. Becomes(p, x)
      BY <1>21, <2>4
    <3>5. QED
      BY <1>19, <1>20, <2>1, <2>2, <3>3, <3>4, StockStep
  <2>5. QED
    BY <2>3, <2>4
<1>22. CASE ToRollback(p) /\ UNCHANGED inventoryVars
  BY <1>2, <1>20, <1>22, ToRollbackStep
<1>23. Line(p) = l /\ ItemFor(p, l) = i
  BY <1>1, <1>5, <1>8 DEF Line, ItemFor
<1>24. QED
  BY <1>1, <1>10, <1>17, <1>19, <1>21, <1>22, <1>23 DEF PrepareReserve
LEMMA PrepareRollbackKeeps ==
    ASSUME Inv, NEW p \in Requests, PrepareRollback(p)
    PROVE  Inv'
<1>1. PICK r \in RequestRow : r = request[p] /\ LocalOK(p, r, orders)
  BY Knows
<1>2. p \in Prepares /\ r.pc = "rollback"
  BY <1>1 DEF PrepareRollback, At
<1>3. r.todo # {} /\ r.todo \subseteq LineIds
  BY <1>1, <1>2 DEF LocalOK, PrepareOK, RequestRow
<1>4. PICK l : l = First(r.todo)
  OBVIOUS
<1>5. l \in LineIds
  BY <1>3, <1>4, FirstIsOne
<1>6. <<p, l>> \in ReservationIds
  BY <1>2, <1>5, StockAssumption
<1>7. TryRelease(<<p, l>>)
  BY <1>1, <1>4 DEF PrepareRollback, Line
<1>8. IInv' /\ CommittedStay
  BY <1>6, <1>7, TryReleaseStep DEF Inv
<1>9. PICK rest : rest = r.todo \ {l}
  OBVIOUS
<1>10. PICK pc : pc = IF rest = {} THEN "failed" ELSE "rollback"
  OBVIOUS
<1>11. PICK x : x = [r EXCEPT !.todo = rest, !.pc = pc]
  OBVIOUS
<1>12. x = Next1(r, "rollback", "failed")
  BY <1>4, <1>9, <1>10, <1>11 DEF Next1
<1>13. rest \subseteq LineIds /\ pc \in Pcs
  BY <1>3, <1>9, <1>10 DEF Pcs
<1>14. x \in RequestRow /\ x.pc = pc /\ x.todo = rest
  BY <1>11, <1>13 DEF RequestRow
<1>15. UNCHANGED <<cart, lines, walletVars, orders>>
  BY DEF PrepareRollback
<1>16. CASE Over(p, "failed")
  BY <1>8, <1>15, <1>16, OverIsLocal, StockStep DEF Over
<1>17. CASE pc # "failed" /\ Becomes(p, x)
  <2>1. pc = "rollback" /\ rest # {}
    BY <1>10, <1>17
  <2>2. PrepareOK(x)
    BY <1>14, <2>1 DEF PrepareOK
  <2>3. LocalOK(p, x, orders)
    BY <1>2, <1>14, <2>1, <2>2, PrepareIsLocal
  <2>4. QED
    BY <1>8, <1>14, <1>15, <1>17, <2>3, StockStep
<1>18. QED
  BY <1>1, <1>12, <1>14, <1>16, <1>17 DEF PrepareRollback

LEMMA PrepareAttachKeeps ==
    ASSUME Inv, NEW p \in Requests, PrepareAttach(p)
    PROVE  Inv'
<1>1. PICK r \in RequestRow : r = request[p] /\ LocalOK(p, r, orders)
  BY Knows
<1>2. p \in Prepares /\ r.pc = "attach"
  BY <1>1 DEF PrepareAttach, At
<1>3. r.todo # {} /\ r.todo \subseteq LineIds
  BY <1>1, <1>2 DEF LocalOK, PrepareOK, RequestRow
<1>4. PICK l : l = First(r.todo)
  OBVIOUS
<1>5. l \in LineIds
  BY <1>3, <1>4, FirstIsOne
<1>6. PICK v : v = <<p, l>>
  OBVIOUS
<1>7. v \in ReservationIds
  BY <1>2, <1>5, <1>6, StockAssumption
<1>8. lines' \in CartLines
  <2>1. lines \in CartLines /\ lines[l] \in LineRow
    BY <1>5 DEF Inv, TablesOK, CartLines
  <2>2. PICK row : row = [lines[l] EXCEPT !.reservation = v]
    OBVIOUS
  <2>3. /\ row \in LineRow
        /\ row.state = lines[l].state /\ row.quantity = lines[l].quantity
    BY <1>7, <2>1, <2>2 DEF LineRow
  <2>4. [lines EXCEPT ![l] = row] \in CartLines
    BY <1>5, <2>1, <2>3 DEF CartLines
  <2>5. lines' = [lines EXCEPT ![l] = row] \/ lines' = lines
    BY <1>1, <1>4, <1>6, <2>2 DEF PrepareAttach, Line
  <2>6. QED
    BY <2>1, <2>4, <2>5
<1>9. PICK rest : rest = r.todo \ {l}
  OBVIOUS
<1>10. PICK pc : pc = IF rest = {} THEN "quote" ELSE "attach"
  OBVIOUS
<1>11. PICK x : x = [r EXCEPT !.todo = rest, !.pc = pc]
  OBVIOUS
<1>12. x = Next1(r, "attach", "quote")
  BY <1>4, <1>9, <1>10, <1>11 DEF Next1
<1>13. rest \subseteq LineIds /\ pc \in Pcs
  BY <1>3, <1>9, <1>10 DEF Pcs
<1>14. x \in RequestRow /\ x.pc = pc /\ x.todo = rest
  BY <1>11, <1>13 DEF RequestRow
<1>15. PrepareOK(x)
  BY <1>10, <1>14 DEF PrepareOK
<1>16. LocalOK(p, x, orders)
  BY <1>2, <1>10, <1>14, <1>15, PrepareIsLocal
<1>17. Becomes(p, x) /\ UNCHANGED <<inventoryVars, cart, walletVars, orders>>
  BY <1>1, <1>12 DEF PrepareAttach
<1>18. QED
  BY <1>8, <1>14, <1>16, <1>17, LinesStep

LEMMA PrepareQuoteKeeps ==
    ASSUME Inv, NEW p \in Requests, PrepareQuote(p)
    PROVE  Inv'
<1>1. PICK r \in RequestRow : r = request[p]
  BY Knows
<1>2. p \in Prepares /\ UNCHANGED <<inventoryVars, cart, lines, walletVars, orders>>
  BY DEF PrepareQuote
<1>3. CASE Over(p, "failed")
  BY <1>2, <1>3, OverStep
<1>4. CASE Goto(p, "lock")
  <2>1. PICK x : x = [r EXCEPT !.pc = "lock"]
    OBVIOUS
  <2>2. x \in RequestRow /\ x.pc = "lock"
    BY <2>1 DEF RequestRow, Pcs
  <2>3. PrepareOK(x)
    BY <2>2 DEF PrepareOK
  <2>4. LocalOK(p, x, orders)
    BY <1>2, <2>2, <2>3, PrepareIsLocal
  <2>5. Becomes(p, x)
    BY <1>1, <1>4, <2>1 DEF Goto
  <2>6. QED
    BY <1>2, <2>2, <2>4, <2>5, RequestStep
<1>5. QED
  BY <1>3, <1>4 DEF PrepareQuote

\* A step that moves a request on and writes the cart.
LEMMA CartStep ==
    ASSUME Inv, NEW p \in Requests, NEW x \in RequestRow, Becomes(p, x),
           LocalOK(p, x, orders), cart' \in CartRow,
           cart'.status = "converted" =>
               cart.status = "converted" \/ \E o \in Places : Complete(orders[o]),
           UNCHANGED <<inventoryVars, lines, walletVars, orders>>
    PROVE  Inv'
<1>1. IInv' /\ CommittedStay
  BY InventoryStays DEF Inv
<1>2. /\ orders' = orders /\ giftBalance' = giftBalance
      /\ pointsBalance' = pointsBalance /\ lines' \in CartLines
  BY DEF Inv, TablesOK, walletVars
<1>3. QED
  BY <1>1, <1>2, StepKeeps DEF Becomes

LEMMA PrepareLockKeeps ==
    ASSUME Inv, NEW p \in Requests, PrepareLock(p)
    PROVE  Inv'
<1>1. cart' \in CartRow /\ cart'.status = "locked"
  BY DEF PrepareLock, Inv, TablesOK, CartRow
<1>2. p \notin Places
  BY RequestsAssumption DEF PrepareLock
<1>3. UNCHANGED <<inventoryVars, lines, walletVars, orders>> /\ Over(p, "done")
  BY DEF PrepareLock
<1>4. QED
  BY <1>1, <1>2, <1>3, OverIsLocal, CartStep DEF Over

LEMMA PrepareKeeps ==
    ASSUME Inv, NEW p \in Requests, Prepare(p)
    PROVE  Inv'
  BY PrepareReadLinesKeeps, PrepareReleaseKeeps, PrepareClearKeeps,
     PreparePickKeeps, PrepareReserveKeeps, PrepareRollbackKeeps,
     PrepareAttachKeeps, PrepareQuoteKeeps, PrepareLockKeeps
     DEF Prepare
-----------------------------------------------------------------------------
(***************************************************************************)
(* placeOrder                                                              *)
(***************************************************************************)

\* Where a placement is and what it knows.
LEMMA PlaceKnows ==
    ASSUME Inv, NEW p \in Places
    PROVE  /\ p \in Requests
           /\ request[p] \in RequestRow
           /\ PlaceOK(request[p], orders[p])
           /\ orders[p] \in {NoOrder} \union OrderRow
           /\ OrderOK(orders[p])
<1>1. p \in Requests
  BY DEF Requests
<1>2. QED
  BY <1>1, Knows DEF LocalOK, Inv, TablesOK

LEMMA PlaceReadLinesKeeps ==
    ASSUME Inv, NEW p \in Requests, PlaceReadLines(p)
    PROVE  Inv'
<1>1. p \in Places /\ UNCHANGED <<inventoryVars, cart, lines, walletVars, orders>>
  BY DEF PlaceReadLines
<1>2. PICK r \in RequestRow : r = request[p] /\ PlaceOK(r, orders[p])
  BY <1>1, PlaceKnows
<1>3. r.pc = "lines"
  BY <1>2 DEF PlaceReadLines, At
<1>4. CASE Over(p, "failed")
  BY <1>1, <1>4, OverStep
<1>5. CASE /\ \A l \in PhysicalLines(lines) : lines[l].reservation # None
           /\ Becomes(p, [r EXCEPT !.lines = lines, !.pc = "quoteGift"])
  <2>1. lines \in CartLines
    BY DEF Inv, TablesOK
  <2>2. PICK x : x = [r EXCEPT !.lines = lines, !.pc = "quoteGift"]
    OBVIOUS
  <2>3. /\ x \in RequestRow /\ x.pc = "quoteGift" /\ x.lines = lines
        /\ x.cart = r.cart /\ x.gift = r.gift
    BY <2>1, <2>2 DEF RequestRow, Pcs, PlacePcs
  <2>4. \A l \in PhysicalLines(lines) : lines[l].reservation \in ReservationIds
    BY <1>5, <2>1 DEF CartLines, LineRow, PhysicalLines, Live
  <2>5. r.cart \in CartRow /\ r.gift = 0 /\ orders[p] = NoOrder
    BY <1>2, <1>3 DEF PlaceOK
  <2>6. PlaceOK(x, orders[p])
    BY <2>1, <2>3, <2>4, <2>5 DEF PlaceOK, PlacePcs
  <2>7. StatusOK(p, x, orders)
    BY <2>3 DEF StatusOK
  <2>8. LocalOK(p, x, orders)
    BY <1>1, <2>6, <2>7, PlaceIsLocal
  <2>9. QED
    BY <1>1, <1>5, <2>2, <2>3, <2>8, RequestStep
<1>6. QED
  BY <1>2, <1>4, <1>5 DEF PlaceReadLines

LEMMA PlaceQuoteGiftKeeps ==
    ASSUME Inv, NEW p \in Requests, PlaceQuoteGift(p)
    PROVE  Inv'
<1>1. p \in Places /\ UNCHANGED <<inventoryVars, cart, lines, walletVars, orders>>
  BY DEF PlaceQuoteGift
<1>2. PICK r \in RequestRow : r = request[p] /\ PlaceOK(r, orders[p])
  BY <1>1, PlaceKnows
<1>3. r.pc = "quoteGift"
  BY <1>2 DEF PlaceQuoteGift, At
<1>4. /\ r.cart \in CartRow /\ r.lines \in CartLines
      /\ \A l \in PhysicalLines(r.lines) : r.lines[l].reservation \in ReservationIds
      /\ r.gift = 0 /\ orders[p] = NoOrder
  BY <1>2, <1>3 DEF PlaceOK, PlacePcs
<1>5. Subtotal(r.lines) \in Nat
  BY <1>4, SubtotalIsNat
<1>6. ASSUME NEW gift \in Nat, gift <= Subtotal(r.lines),
             Becomes(p, [r EXCEPT !.pc = "quotePoints", !.gift = gift])
      PROVE  Inv'
  <2>1. PICK x : x = [r EXCEPT !.pc = "quotePoints", !.gift = gift]
    OBVIOUS
  <2>2. /\ x \in RequestRow /\ x.pc = "quotePoints" /\ x.lines = r.lines
        /\ x.cart = r.cart /\ x.gift = gift
    BY <1>6, <2>1 DEF RequestRow, Pcs, PlacePcs
  <2>3. PlaceOK(x, orders[p])
    BY <1>4, <1>6, <2>2 DEF PlaceOK, PlacePcs
  <2>4. StatusOK(p, x, orders)
    BY <2>2 DEF StatusOK
  <2>5. LocalOK(p, x, orders)
    BY <1>1, <2>3, <2>4, PlaceIsLocal
  <2>6. QED
    BY <1>1, <1>6, <2>1, <2>2, <2>5, RequestStep
<1>7. CASE Over(p, "failed")
  BY <1>1, <1>7, OverStep
<1>8. CASE Goto(p, "quotePoints")
  <2>1. [r EXCEPT !.pc = "quotePoints"] = [r EXCEPT !.pc = "quotePoints", !.gift = 0]
    BY <1>4 DEF RequestRow
  <2>2. Becomes(p, [r EXCEPT !.pc = "quotePoints", !.gift = 0])
    BY <1>2, <1>8, <2>1 DEF Goto
  <2>3. 0 \in Nat /\ 0 <= Subtotal(r.lines)
    BY <1>5
  <2>4. QED
    BY <1>6, <2>2, <2>3
<1>9. CASE Becomes(p, [r EXCEPT !.pc = "quotePoints",
                           !.gift = MinOf(giftBalance, Subtotal(r.lines))])
  <2>1. PICK gift : gift = MinOf(giftBalance, Subtotal(r.lines))
    OBVIOUS
  <2>2. gift \in Nat /\ gift <= Subtotal(r.lines)
    BY <1>5, <2>1 DEF MinOf, Inv, TablesOK
  <2>3. QED
    BY <1>6, <1>9, <2>1, <2>2
<1>10. QED
  BY <1>2, <1>7, <1>8, <1>9 DEF PlaceQuoteGift, Total

LEMMA PlaceQuotePointsKeeps ==
    ASSUME Inv, NEW p \in Requests, PlaceQuotePoints(p)
    PROVE  Inv'
<1>1. p \in Places /\ UNCHANGED <<inventoryVars, cart, lines, walletVars, orders>>
  BY DEF PlaceQuotePoints
<1>2. PICK r \in RequestRow : r = request[p] /\ PlaceOK(r, orders[p])
  BY <1>1, PlaceKnows
<1>3. r.pc = "quotePoints"
  BY <1>2 DEF PlaceQuotePoints, At
<1>4. /\ r.cart \in CartRow /\ r.lines \in CartLines
      /\ \A l \in PhysicalLines(r.lines) : r.lines[l].reservation \in ReservationIds
      /\ r.gift <= Subtotal(r.lines) /\ orders[p] = NoOrder
  BY <1>2, <1>3 DEF PlaceOK, PlacePcs
<1>5. Subtotal(r.lines) \in Nat /\ r.gift \in Nat
  BY <1>4, SubtotalIsNat DEF RequestRow
<1>6. PICK quote : quote = MinOf(MinOf(r.cart.points, pointsBalance),
                                 Subtotal(r.lines) - r.gift)
  OBVIOUS
<1>7. quote \in Nat /\ r.gift + quote <= Subtotal(r.lines)
  <2>1. r.cart.points \in Nat /\ pointsBalance \in Nat
    BY <1>4, WalletsAssumption DEF CartRow, Inv, TablesOK
  <2>2. Subtotal(r.lines) - r.gift \in Nat
    BY <1>4, <1>5
  <2>3. QED
    BY <1>4, <1>5, <1>6, <2>1, <2>2 DEF MinOf
<1>8. CASE Over(p, "failed")
  BY <1>1, <1>8, OverStep
<1>9. CASE Becomes(p, [r EXCEPT !.pc = "insert", !.points = quote])
  <2>1. PICK x : x = [r EXCEPT !.pc = "insert", !.points = quote]
    OBVIOUS
  <2>2. /\ x \in RequestRow /\ x.pc = "insert" /\ x.lines = r.lines
        /\ x.cart = r.cart /\ x.gift = r.gift /\ x.points = quote
    BY <1>7, <2>1 DEF RequestRow, Pcs, PlacePcs
  <2>3. PlaceOK(x, orders[p])
    BY <1>4, <1>7, <2>2 DEF PlaceOK, PlacePcs
  <2>4. StatusOK(p, x, orders)
    BY <2>2 DEF StatusOK
  <2>5. LocalOK(p, x, orders)
    BY <1>1, <2>3, <2>4, PlaceIsLocal
  <2>6. QED
    BY <1>1, <1>9, <2>1, <2>2, <2>5, RequestStep
<1>10. QED
  BY <1>2, <1>6, <1>8, <1>9 DEF PlaceQuotePoints, Total
Orders == [Places -> {NoOrder} \union OrderRow]

LEMMA DebitsAreNat ==
    ASSUME NEW os \in Orders
    PROVE  /\ GiftDebits(os) \in [Places -> Nat]
           /\ PointsDebits(os) \in [Places -> Nat]
  BY DEF Orders, OrderRow, GiftDebits, PointsDebits

\* One order changes: the sums of the debits change by what its own do.
LEMMA DebitsAfterOrder ==
    ASSUME NEW os \in Orders, NEW p \in Places, NEW o \in OrderRow, NEW os2,
           os2 = [os EXCEPT ![p] = o]
    PROVE  /\ SumOf(GiftDebits(os2))
                  = SumOf(GiftDebits(os)) + o.giftDebit - GiftDebits(os)[p]
           /\ SumOf(PointsDebits(os2))
                  = SumOf(PointsDebits(os)) + o.pointsDebit - PointsDebits(os)[p]
<1>1. os2 \in Orders /\ os2[p] = o /\ o # NoOrder
  BY OrdersAreOrders DEF Orders
<1>2. PICK g, g2 : g = GiftDebits(os) /\ g2 = GiftDebits(os2)
  OBVIOUS
<1>3. PICK n, n2 : n = PointsDebits(os) /\ n2 = PointsDebits(os2)
  OBVIOUS
<1>4. g \in [Places -> Nat] /\ g2 \in [Places -> Nat]
  BY <1>1, <1>2, DebitsAreNat
<1>5. n \in [Places -> Nat] /\ n2 \in [Places -> Nat]
  BY <1>1, <1>3, DebitsAreNat
<1>6. g2[p] = o.giftDebit /\ \A t \in Places \ {p} : g2[t] = g[t]
  BY <1>1, <1>2 DEF GiftDebits, Orders
<1>7. n2[p] = o.pointsDebit /\ \A t \in Places \ {p} : n2[t] = n[t]
  BY <1>1, <1>3 DEF PointsDebits, Orders
<1>8. SumOf(g2) = SumOf(g) + g2[p] - g[p]
  BY <1>4, <1>6, SumAfterOne, WalletsAssumption
<1>9. SumOf(n2) = SumOf(n) + n2[p] - n[p]
  BY <1>5, <1>7, SumAfterOne, WalletsAssumption
<1>10. QED
  BY <1>2, <1>3, <1>6, <1>7, <1>8, <1>9

LEMMA WalletsStay ==
    ASSUME Inv, UNCHANGED walletVars, NEW p \in Places, NEW o \in OrderRow,
           orders' = [orders EXCEPT ![p] = o],
           o.giftDebit = GiftDebits(orders)[p],
           o.pointsDebit = PointsDebits(orders)[p]
    PROVE  /\ WalletsOK'
           /\ giftBalance' \in Nat /\ pointsBalance' \in Nat
<1>1. orders \in Orders
  BY DEF Inv, TablesOK, Orders
<1>2. PICK g, n : /\ g = GiftDebits(orders) /\ n = PointsDebits(orders)
                  /\ g \in [Places -> Nat] /\ n \in [Places -> Nat]
  BY <1>1, DebitsAreNat
<1>3. SumOf(g) \in Nat /\ SumOf(n) \in Nat
  BY <1>2, SumIsNat, WalletsAssumption
<1>4. /\ SumOf(GiftDebits(orders')) = SumOf(g) + o.giftDebit - g[p]
      /\ SumOf(PointsDebits(orders')) = SumOf(n) + o.pointsDebit - n[p]
  BY <1>1, <1>2, DebitsAfterOrder
<1>5. g[p] \in Nat /\ n[p] \in Nat /\ o.giftDebit = g[p] /\ o.pointsDebit = n[p]
  BY <1>2
<1>6. /\ SumOf(GiftDebits(orders')) = SumOf(g)
      /\ SumOf(PointsDebits(orders')) = SumOf(n)
  BY <1>3, <1>4, <1>5
<1>7. QED
  BY <1>2, <1>6 DEF WalletsOK, Inv, TablesOK, walletVars

LEMMA PlaceInsertKeeps ==
    ASSUME Inv, NEW p \in Requests, PlaceInsert(p)
    PROVE  Inv'
<1>1. p \in Places /\ UNCHANGED <<inventoryVars, cart, lines, walletVars>>
  BY DEF PlaceInsert
<1>2. PICK r \in RequestRow : r = request[p] /\ PlaceOK(r, orders[p])
  BY <1>1, PlaceKnows
<1>3. r.pc = "insert"
  BY <1>2 DEF PlaceInsert, At
<1>4. /\ r.cart \in CartRow /\ r.lines \in CartLines
      /\ \A l \in PhysicalLines(r.lines) : r.lines[l].reservation \in ReservationIds
      /\ r.gift + r.points <= Subtotal(r.lines) /\ orders[p] = NoOrder
  BY <1>2, <1>3 DEF PlaceOK, PlacePcs
<1>5. Subtotal(r.lines) \in Nat /\ r.gift \in Nat /\ r.points \in Nat
  BY <1>4, SubtotalIsNat DEF RequestRow
<1>6. PICK total : total = Subtotal(r.lines)
  OBVIOUS
<1>7. PICK o : o = [status |-> "pending", lines |-> r.lines, total |-> total,
                    gift |-> r.gift, points |-> r.points, payment |-> 0,
                    giftDebit |-> 0, pointsDebit |-> 0, paid |-> FALSE,
                    consumed |-> {}]
  OBVIOUS
<1>8. o \in OrderRow
  BY <1>4, <1>5, <1>6, <1>7 DEF OrderRow
<1>9. /\ o.lines = r.lines /\ o.gift = r.gift /\ o.points = r.points
      /\ o.giftDebit = 0 /\ o.pointsDebit = 0 /\ ~o.paid /\ o.consumed = {}
      /\ o.total = total
  BY <1>7
<1>10. orders' = [orders EXCEPT ![p] = o] /\ Goto(p, "redeemGift")
  BY <1>2, <1>6, <1>7 DEF PlaceInsert, Total
<1>11. OrderOK(o)
  BY <1>4, <1>6, <1>9 DEF OrderOK
<1>12. PICK x : x = [r EXCEPT !.pc = "redeemGift"]
  OBVIOUS
<1>13. /\ x \in RequestRow /\ x.pc = "redeemGift" /\ x.lines = r.lines
       /\ x.cart = r.cart /\ x.gift = r.gift /\ x.points = r.points
  BY <1>12 DEF RequestRow, Pcs, PlacePcs
<1>14. orders'[p] = o
  BY <1>1, <1>10 DEF Inv, TablesOK
<1>15. PlaceOK(x, orders'[p])
  BY <1>4, <1>8, <1>9, <1>13, <1>14 DEF PlaceOK, PlacePcs
<1>16. StatusOK(p, x, orders')
  BY <1>13 DEF StatusOK
<1>17. LocalOK(p, x, orders')
  BY <1>1, <1>15, <1>16, PlaceIsLocal
<1>18. /\ WalletsOK'
       /\ giftBalance' \in Nat /\ pointsBalance' \in Nat
  BY <1>1, <1>4, <1>8, <1>9, <1>10, WalletsStay DEF GiftDebits, PointsDebits
<1>19. IInv' /\ CommittedStay
  BY <1>1, InventoryStays DEF Inv
<1>20. ~ Complete(orders[p])
  BY <1>4, OrdersAreOrders DEF Complete
<1>21. request' = [request EXCEPT ![p] = x]
  BY <1>2, <1>10, <1>12 DEF Goto, Becomes
<1>22. lines' = lines /\ cart' = cart
  BY <1>1
<1>23. QED
  BY <1>1, <1>8, <1>9, <1>10, <1>11, <1>13, <1>17, <1>18, <1>19, <1>20, <1>21,
     <1>22, OrderStep
\* A step failed: the placement goes on to cancel its order.
LEMMA CancelStep ==
    ASSUME Inv, NEW p \in Places, p \in Requests, orders[p] # NoOrder, ToCancel(p),
           UNCHANGED <<inventoryVars, cart, lines, walletVars, orders>>
    PROVE  Inv'
<1>1. PICK r \in RequestRow : r = request[p]
  BY Knows
<1>2. PICK x : x = [r EXCEPT !.pc = "readStatus", !.order = p, !.target = "cancelled"]
  OBVIOUS
<1>3. /\ x \in RequestRow /\ x.pc = "readStatus" /\ x.order = p
      /\ x.target = "cancelled"
  BY <1>2 DEF RequestRow, Pcs, Targets
<1>4. PlaceOK(x, orders[p])
  BY <1>3 DEF PlaceOK, PlacePcs
<1>5. StatusOK(p, x, orders)
  BY <1>3 DEF StatusOK
<1>6. LocalOK(p, x, orders)
  BY <1>4, <1>5, PlaceIsLocal
<1>7. Becomes(p, x)
  BY <1>1, <1>2 DEF ToCancel
<1>8. QED
  BY <1>3, <1>6, <1>7, RequestStep

LEMMA PlaceRedeemGiftKeeps ==
    ASSUME Inv, NEW p \in Requests, PlaceRedeemGift(p)
    PROVE  Inv'
<1>1. p \in Places /\ UNCHANGED <<inventoryVars, cart, lines, pointsBalance>>
  BY DEF PlaceRedeemGift
<1>2. PICK r \in RequestRow : r = request[p] /\ PlaceOK(r, orders[p])
  BY <1>1, PlaceKnows
<1>3. r.pc = "redeemGift"
  BY <1>2 DEF PlaceRedeemGift, At
<1>4. PICK old \in OrderRow : old = orders[p]
  BY <1>2, <1>3 DEF PlaceOK
<1>5. /\ r.cart \in CartRow /\ r.lines \in CartLines
      /\ \A l \in PhysicalLines(r.lines) : r.lines[l].reservation \in ReservationIds
      /\ old.lines = r.lines /\ old.gift = r.gift /\ old.points = r.points
      /\ old.giftDebit = 0 /\ old.pointsDebit = 0 /\ ~old.paid
  BY <1>2, <1>3, <1>4 DEF PlaceOK, PlacePcs
<1>6. OrderOK(old) /\ old # NoOrder
  BY <1>1, <1>4, PlaceKnows, OrdersAreOrders
<1>7. old.consumed = {}
  BY <1>5, <1>6 DEF OrderOK
<1>8. CASE /\ r.gift <= giftBalance
           /\ giftBalance' = giftBalance - r.gift
           /\ orders' = [orders EXCEPT ![p].giftDebit = r.gift]
           /\ Goto(p, "redeemPoints")
  <2>1. r.gift \in Nat
    BY DEF RequestRow
  <2>2. PICK o : o = [old EXCEPT !.giftDebit = r.gift]
    OBVIOUS
  <2>3. /\ o \in OrderRow /\ o.lines = old.lines /\ o.gift = old.gift
        /\ o.points = old.points /\ o.giftDebit = r.gift
        /\ o.pointsDebit = old.pointsDebit /\ o.paid = old.paid
        /\ o.consumed = old.consumed /\ o.total = old.total
    BY <2>1, <2>2 DEF OrderRow
  <2>4. orders' = [orders EXCEPT ![p] = o]
    BY <1>1, <1>4, <1>8, <2>2 DEF Inv, TablesOK
  <2>5. OrderOK(o)
    BY <1>5, <1>6, <1>7, <2>3 DEF OrderOK
  <2>6. PICK x : x = [r EXCEPT !.pc = "redeemPoints"]
    OBVIOUS
  <2>7. /\ x \in RequestRow /\ x.pc = "redeemPoints" /\ x.lines = r.lines
        /\ x.cart = r.cart /\ x.gift = r.gift /\ x.points = r.points
    BY <2>6 DEF RequestRow, Pcs, PlacePcs
  <2>8. orders'[p] = o
    BY <1>1, <2>4 DEF Inv, TablesOK
  <2>9. PlaceOK(x, orders'[p])
    BY <1>5, <2>3, <2>7, <2>8 DEF PlaceOK, PlacePcs
  <2>10. StatusOK(p, x, orders')
    BY <2>7 DEF StatusOK
  <2>11. LocalOK(p, x, orders')
    BY <1>1, <2>9, <2>10, PlaceIsLocal
  <2>12. /\ WalletsOK'
         /\ giftBalance' \in Nat /\ pointsBalance' \in Nat
    <3>1. orders \in Orders
      BY DEF Inv, TablesOK, Orders
    <3>2. PICK g, n : /\ g = GiftDebits(orders) /\ n = PointsDebits(orders)
                      /\ g \in [Places -> Nat] /\ n \in [Places -> Nat]
      BY <3>1, DebitsAreNat
    <3>3. SumOf(g) \in Nat /\ SumOf(n) \in Nat
      BY <3>2, SumIsNat, WalletsAssumption
    <3>4. g[p] = 0 /\ n[p] = 0
      BY <1>1, <1>4, <1>5, <3>2 DEF GiftDebits, PointsDebits
    <3>5. /\ SumOf(GiftDebits(orders')) = SumOf(g) + o.giftDebit - g[p]
          /\ SumOf(PointsDebits(orders')) = SumOf(n) + o.pointsDebit - n[p]
      <4>1. PICK os, os2 : os = orders /\ os2 = orders'
        OBVIOUS
      <4>2. os \in Orders /\ o \in OrderRow /\ os2 = [os EXCEPT ![p] = o]
        BY <2>3, <2>4, <3>1, <4>1
      <4>3. /\ SumOf(GiftDebits(os2))
                   = SumOf(GiftDebits(os)) + o.giftDebit - GiftDebits(os)[p]
            /\ SumOf(PointsDebits(os2))
                   = SumOf(PointsDebits(os)) + o.pointsDebit - PointsDebits(os)[p]
        BY <1>1, <4>2, DebitsAfterOrder
      <4>4. QED
        BY <3>2, <4>1, <4>3
    <3>6. /\ SumOf(GiftDebits(orders')) = SumOf(g) + r.gift
          /\ SumOf(PointsDebits(orders')) = SumOf(n)
      BY <1>5, <2>1, <2>3, <3>3, <3>4, <3>5
    <3>7. /\ giftBalance \in Nat /\ pointsBalance \in Nat
          /\ giftBalance + SumOf(g) = GiftCredit
          /\ pointsBalance + SumOf(n) = Points
      BY <3>2 DEF Inv, TablesOK, WalletsOK
    <3>8. /\ giftBalance' \in Nat /\ pointsBalance' \in Nat
          /\ giftBalance' + SumOf(GiftDebits(orders')) = GiftCredit
          /\ pointsBalance' + SumOf(PointsDebits(orders')) = Points
      BY <1>1, <1>8, <2>1, <3>3, <3>6, <3>7
    <3>9. QED
      BY <3>8 DEF WalletsOK
  <2>13. IInv' /\ CommittedStay
    BY <1>1, InventoryStays DEF Inv
  <2>14. ~ Complete(orders[p])
    BY <1>4, <1>5 DEF Complete
  <2>15. request' = [request EXCEPT ![p] = x]
    BY <1>2, <1>8, <2>6 DEF Goto, Becomes
  <2>16. lines' = lines /\ cart' = cart /\ o.consumed = {}
    BY <1>1, <1>7, <2>3
  <2>17. QED
    BY <1>1, <2>3, <2>4, <2>5, <2>7, <2>11, <2>12, <2>13, <2>14, <2>15, <2>16,
       OrderStep
<1>9. CASE ToCancel(p) /\ UNCHANGED <<giftBalance, orders>>
  <2>1. UNCHANGED <<inventoryVars, cart, lines, walletVars, orders>>
    BY <1>1, <1>9 DEF walletVars
  <2>2. QED
    BY <1>1, <1>4, <1>6, <1>9, <2>1, CancelStep
<1>10. QED
  BY <1>2, <1>8, <1>9 DEF PlaceRedeemGift

LEMMA PlaceRedeemPointsKeeps ==
    ASSUME Inv, NEW p \in Requests, PlaceRedeemPoints(p)
    PROVE  Inv'
<1>1. p \in Places /\ UNCHANGED <<inventoryVars, cart, lines, giftBalance>>
  BY DEF PlaceRedeemPoints
<1>2. PICK r \in RequestRow : r = request[p] /\ PlaceOK(r, orders[p])
  BY <1>1, PlaceKnows
<1>3. r.pc = "redeemPoints"
  BY <1>2 DEF PlaceRedeemPoints, At
<1>4. PICK old \in OrderRow : old = orders[p]
  BY <1>2, <1>3 DEF PlaceOK
<1>5. /\ r.cart \in CartRow /\ r.lines \in CartLines
      /\ \A l \in PhysicalLines(r.lines) : r.lines[l].reservation \in ReservationIds
      /\ old.lines = r.lines /\ old.gift = r.gift /\ old.points = r.points
      /\ old.giftDebit = old.gift /\ old.pointsDebit = 0 /\ ~old.paid
  BY <1>2, <1>3, <1>4 DEF PlaceOK, PlacePcs
<1>6. OrderOK(old) /\ old # NoOrder
  BY <1>1, <1>4, PlaceKnows, OrdersAreOrders
<1>7. old.consumed = {}
  BY <1>5, <1>6 DEF OrderOK
<1>8. CASE /\ r.points <= pointsBalance
           /\ pointsBalance' = pointsBalance - r.points
           /\ orders' = [orders EXCEPT ![p].pointsDebit = r.points]
           /\ Goto(p, "pay")
  <2>1. r.gift \in Nat /\ r.points \in Nat
    BY DEF RequestRow
  <2>2. PICK o : o = [old EXCEPT !.pointsDebit = r.points]
    OBVIOUS
  <2>3. /\ o \in OrderRow /\ o.lines = old.lines /\ o.gift = old.gift
        /\ o.points = old.points /\ o.giftDebit = old.giftDebit
        /\ o.pointsDebit = r.points /\ o.paid = old.paid
        /\ o.consumed = old.consumed /\ o.total = old.total
    BY <2>1, <2>2 DEF OrderRow
  <2>4. orders' = [orders EXCEPT ![p] = o]
    BY <1>1, <1>4, <1>8, <2>2 DEF Inv, TablesOK
  <2>5. OrderOK(o)
    BY <1>5, <1>6, <1>7, <2>3 DEF OrderOK
  <2>6. PICK x : x = [r EXCEPT !.pc = "pay"]
    OBVIOUS
  <2>7. /\ x \in RequestRow /\ x.pc = "pay" /\ x.lines = r.lines
        /\ x.cart = r.cart /\ x.gift = r.gift /\ x.points = r.points
    BY <2>6 DEF RequestRow, Pcs, PlacePcs
  <2>8. orders'[p] = o
    BY <1>1, <2>4 DEF Inv, TablesOK
  <2>9. PlaceOK(x, orders'[p])
    BY <1>5, <2>3, <2>7, <2>8 DEF PlaceOK, PlacePcs
  <2>10. StatusOK(p, x, orders')
    BY <2>7 DEF StatusOK
  <2>11. LocalOK(p, x, orders')
    BY <1>1, <2>9, <2>10, PlaceIsLocal
  <2>12. /\ WalletsOK'
         /\ giftBalance' \in Nat /\ pointsBalance' \in Nat
    <3>1. orders \in Orders
      BY DEF Inv, TablesOK, Orders
    <3>2. PICK g, n : /\ g = GiftDebits(orders) /\ n = PointsDebits(orders)
                      /\ g \in [Places -> Nat] /\ n \in [Places -> Nat]
      BY <3>1, DebitsAreNat
    <3>3. SumOf(g) \in Nat /\ SumOf(n) \in Nat
      BY <3>2, SumIsNat, WalletsAssumption
    <3>4. g[p] = old.giftDebit /\ n[p] = 0
      BY <1>1, <1>4, <1>5, <1>6, <3>2 DEF GiftDebits, PointsDebits
    <3>5. /\ SumOf(GiftDebits(orders')) = SumOf(g) + o.giftDebit - g[p]
          /\ SumOf(PointsDebits(orders')) = SumOf(n) + o.pointsDebit - n[p]
      <4>1. PICK os, os2 : os = orders /\ os2 = orders'
        OBVIOUS
      <4>2. os \in Orders /\ o \in OrderRow /\ os2 = [os EXCEPT ![p] = o]
        BY <2>3, <2>4, <3>1, <4>1
      <4>3. /\ SumOf(GiftDebits(os2))
                   = SumOf(GiftDebits(os)) + o.giftDebit - GiftDebits(os)[p]
            /\ SumOf(PointsDebits(os2))
                   = SumOf(PointsDebits(os)) + o.pointsDebit - PointsDebits(os)[p]
        BY <1>1, <4>2, DebitsAfterOrder
      <4>4. QED
        BY <3>2, <4>1, <4>3
    <3>6. /\ SumOf(GiftDebits(orders')) = SumOf(g)
          /\ SumOf(PointsDebits(orders')) = SumOf(n) + r.points
      <4>1. g[p] \in Nat /\ o.giftDebit = g[p] /\ o.pointsDebit = r.points
        BY <1>1, <2>3, <3>2, <3>4
      <4>2. QED
        BY <2>1, <3>3, <3>4, <3>5, <4>1
    <3>7. /\ giftBalance \in Nat /\ pointsBalance \in Nat
          /\ giftBalance + SumOf(g) = GiftCredit
          /\ pointsBalance + SumOf(n) = Points
      BY <3>2 DEF Inv, TablesOK, WalletsOK
    <3>8. /\ giftBalance' \in Nat /\ pointsBalance' \in Nat
          /\ giftBalance' + SumOf(GiftDebits(orders')) = GiftCredit
          /\ pointsBalance' + SumOf(PointsDebits(orders')) = Points
      BY <1>1, <1>8, <2>1, <3>3, <3>6, <3>7
    <3>9. QED
      BY <3>8 DEF WalletsOK
  <2>13. IInv' /\ CommittedStay
    BY <1>1, InventoryStays DEF Inv
  <2>14. ~ Complete(orders[p])
    BY <1>4, <1>5 DEF Complete
  <2>15. request' = [request EXCEPT ![p] = x]
    BY <1>2, <1>8, <2>6 DEF Goto, Becomes
  <2>16. lines' = lines /\ cart' = cart /\ o.consumed = {}
    BY <1>1, <1>7, <2>3
  <2>17. QED
    BY <1>1, <2>3, <2>4, <2>5, <2>7, <2>11, <2>12, <2>13, <2>14, <2>15, <2>16,
       OrderStep
<1>9. CASE ToCancel(p) /\ UNCHANGED <<pointsBalance, orders>>
  <2>1. UNCHANGED <<inventoryVars, cart, lines, walletVars, orders>>
    BY <1>1, <1>9 DEF walletVars
  <2>2. QED
    BY <1>1, <1>4, <1>6, <1>9, <2>1, CancelStep
<1>10. QED
  BY <1>2, <1>8, <1>9 DEF PlaceRedeemPoints
LEMMA PlacePayKeeps ==
    ASSUME Inv, NEW p \in Requests, PlacePay(p)
    PROVE  Inv'
<1>1. p \in Places /\ UNCHANGED <<inventoryVars, cart, lines, walletVars>>
  BY DEF PlacePay
<1>2. PICK r \in RequestRow : r = request[p] /\ PlaceOK(r, orders[p])
  BY <1>1, PlaceKnows
<1>3. r.pc = "pay"
  BY <1>2 DEF PlacePay, At
<1>4. PICK old \in OrderRow : old = orders[p]
  BY <1>2, <1>3 DEF PlaceOK
<1>5. /\ r.cart \in CartRow /\ r.lines \in CartLines
      /\ \A l \in PhysicalLines(r.lines) : r.lines[l].reservation \in ReservationIds
      /\ old.lines = r.lines /\ old.gift = r.gift /\ old.points = r.points
      /\ old.giftDebit = old.gift /\ old.pointsDebit = old.points /\ ~old.paid
  BY <1>2, <1>3, <1>4 DEF PlaceOK, PlacePcs
<1>6. OrderOK(old) /\ old # NoOrder
  BY <1>1, <1>4, PlaceKnows, OrdersAreOrders
<1>7. /\ old.consumed = {} /\ old.total = Subtotal(old.lines)
      /\ old.gift + old.points <= old.total
  BY <1>5, <1>6 DEF OrderOK
<1>8. PICK due : due = old.total - old.gift - old.points
  OBVIOUS
<1>9. due \in Nat
  BY <1>7, <1>8 DEF OrderRow
<1>10. PICK todo : todo = PhysicalLines(r.lines)
  OBVIOUS
<1>11. todo \subseteq LineIds
  BY <1>10 DEF PhysicalLines, Live
<1>12. PICK pc : pc = IF todo = {} THEN "convert" ELSE "commit"
  OBVIOUS
<1>13. CASE /\ orders' = [orders EXCEPT ![p].payment = due, ![p].paid = TRUE]
            /\ Becomes(p, [r EXCEPT !.todo = todo, !.pc = pc])
  <2>1. PICK o : o = [old EXCEPT !.payment = due, !.paid = TRUE]
    OBVIOUS
  <2>2. o \in OrderRow
    BY <1>9, <2>1 DEF OrderRow
  <2>3. /\ o.lines = old.lines /\ o.gift = old.gift
        /\ o.points = old.points /\ o.giftDebit = old.giftDebit
        /\ o.pointsDebit = old.pointsDebit /\ o.paid /\ o.payment = due
        /\ o.consumed = old.consumed /\ o.total = old.total
    BY <2>1 DEF OrderRow
  <2>4. orders' = [orders EXCEPT ![p] = o]
    BY <1>1, <1>4, <1>13, <2>1 DEF Inv, TablesOK
  <2>5. OrderOK(o)
    <3>1. /\ o.total = Subtotal(o.lines) /\ o.gift + o.points <= o.total
          /\ o.payment = o.total - o.gift - o.points
          /\ o.giftDebit = o.gift /\ o.pointsDebit = o.points /\ o.paid
      BY <1>5, <1>7, <1>8, <2>3, Zenon
    <3>2. QED
      BY <3>1, Zenon DEF OrderOK
  <2>6. PICK x : x = [r EXCEPT !.todo = todo, !.pc = pc]
    OBVIOUS
  <2>7. /\ x \in RequestRow /\ x.pc = pc /\ x.lines = r.lines /\ x.todo = todo
        /\ x.cart = r.cart /\ x.gift = r.gift /\ x.points = r.points
    <3>1. pc \in Pcs
      BY <1>12 DEF Pcs, PlacePcs
    <3>2. QED
      BY <1>11, <2>6, <3>1 DEF RequestRow
  <2>8. orders'[p] = o
    BY <1>1, <2>4 DEF Inv, TablesOK
  <2>9. PlaceOK(x, orders'[p])
    <3>1. CASE pc = "commit"
      <4>1. todo # {} /\ todo = PhysicalLines(o.lines)
        BY <1>5, <1>10, <1>12, <2>3, <3>1
      <4>2. QED
        BY <1>5, <2>2, <2>3, <2>7, <2>8, <3>1, <4>1 DEF PlaceOK, PlacePcs
    <3>2. CASE pc = "convert"
      <4>1. Deducted(o)
        BY <1>5, <1>10, <1>12, <2>3, <3>2 DEF Deducted
      <4>2. QED
        BY <1>5, <2>2, <2>3, <2>7, <2>8, <3>2, <4>1 DEF PlaceOK, PlacePcs
    <3>3. QED
      BY <1>12, <3>1, <3>2
  <2>10. StatusOK(p, x, orders')
    BY <1>12, <2>7 DEF StatusOK
  <2>11. LocalOK(p, x, orders')
    BY <1>1, <2>9, <2>10, PlaceIsLocal
  <2>12. /\ o.giftDebit = GiftDebits(orders)[p]
         /\ o.pointsDebit = PointsDebits(orders)[p]
    BY <1>1, <1>4, <1>6, <2>3 DEF GiftDebits, PointsDebits
  <2>13. /\ WalletsOK'
         /\ giftBalance' \in Nat /\ pointsBalance' \in Nat
    BY <1>1, <2>2, <2>4, <2>12, WalletsStay
  <2>14. IInv' /\ CommittedStay
    BY <1>1, InventoryStays DEF Inv
  <2>15. ~ Complete(orders[p])
    BY <1>4, <1>5 DEF Complete
  <2>16. request' = [request EXCEPT ![p] = x]
    BY <1>13, <2>6 DEF Becomes
  <2>17. lines' = lines /\ cart' = cart /\ o.consumed = {}
    BY <1>1, <1>7, <2>3
  <2>18. QED
    BY <1>1, <2>2, <2>4, <2>5, <2>7, <2>11, <2>13, <2>14, <2>15, <2>16, <2>17,
       OrderStep
<1>14. CASE ToCancel(p) /\ UNCHANGED orders
  BY <1>1, <1>4, <1>6, <1>14, CancelStep
<1>15. QED
  BY <1>2, <1>4, <1>8, <1>10, <1>12, <1>13, <1>14 DEF PlacePay

LEMMA PlaceCommitKeeps ==
    ASSUME Inv, NEW p \in Requests, PlaceCommit(p)
    PROVE  Inv'
<1>1. p \in Places /\ UNCHANGED <<cart, lines, walletVars>>
  BY DEF PlaceCommit
<1>2. PICK r \in RequestRow : r = request[p] /\ PlaceOK(r, orders[p])
  BY <1>1, PlaceKnows
<1>3. r.pc = "commit"
  BY <1>2 DEF PlaceCommit, At
<1>4. PICK old \in OrderRow : old = orders[p]
  BY <1>2, <1>3 DEF PlaceOK
<1>5. /\ r.cart \in CartRow /\ r.lines \in CartLines
      /\ \A l \in PhysicalLines(r.lines) : r.lines[l].reservation \in ReservationIds
      /\ old.lines = r.lines /\ old.gift = r.gift /\ old.points = r.points
      /\ old.paid
      /\ r.todo # {} /\ r.todo \subseteq PhysicalLines(old.lines)
      /\ \A l \in PhysicalLines(old.lines) \ r.todo :
             old.lines[l].reservation \in old.consumed
  BY <1>2, <1>3, <1>4 DEF PlaceOK, PlacePcs
<1>6. OrderOK(old) /\ old # NoOrder
  BY <1>1, <1>4, PlaceKnows, OrdersAreOrders
<1>7. r.todo \subseteq LineIds
  BY DEF RequestRow
<1>8. PICK l : l = First(r.todo)
  OBVIOUS
<1>9. l \in r.todo /\ l \in PhysicalLines(r.lines)
  BY <1>5, <1>7, <1>8, FirstIsOne
<1>10. PICK v : v = r.lines[l].reservation
  OBVIOUS
<1>11. v \in ReservationIds
  BY <1>5, <1>9, <1>10
<1>12. CASE Over(p, "failed") /\ UNCHANGED <<inventoryVars, orders>>
  BY <1>1, <1>12, OverStep
<1>13. CASE /\ Commit(v)
            /\ orders' = [orders EXCEPT ![p].consumed = @ \union {v}]
            /\ Becomes(p, Next1(r, "commit", "convert"))
  <2>1. PICK o : o = [old EXCEPT !.consumed = old.consumed \union {v}]
    OBVIOUS
  <2>2. o \in OrderRow
    BY <1>11, <2>1 DEF OrderRow
  <2>3. /\ o.lines = old.lines /\ o.gift = old.gift
        /\ o.points = old.points /\ o.giftDebit = old.giftDebit
        /\ o.pointsDebit = old.pointsDebit /\ o.paid = old.paid
        /\ o.payment = old.payment /\ o.consumed = old.consumed \union {v}
        /\ o.total = old.total
    BY <2>1 DEF OrderRow
  <2>4. orders' = [orders EXCEPT ![p] = o]
    BY <1>1, <1>4, <1>13, <2>1 DEF Inv, TablesOK
  <2>5. OrderOK(o)
    BY <1>5, <1>6, <2>3 DEF OrderOK
  <2>6. PICK rest : rest = r.todo \ {l}
    OBVIOUS
  <2>7. PICK pc : pc = IF rest = {} THEN "convert" ELSE "commit"
    OBVIOUS
  <2>8. PICK x : x = [r EXCEPT !.todo = rest, !.pc = pc]
    OBVIOUS
  <2>9. x = Next1(r, "commit", "convert")
    BY <1>8, <2>6, <2>7, <2>8 DEF Next1
  <2>10. rest \subseteq LineIds /\ pc \in Pcs
    BY <1>7, <2>6, <2>7 DEF Pcs, PlacePcs
  <2>11. /\ x \in RequestRow /\ x.pc = pc /\ x.lines = r.lines /\ x.todo = rest
         /\ x.cart = r.cart /\ x.gift = r.gift /\ x.points = r.points
    BY <2>8, <2>10 DEF RequestRow
  <2>12. orders'[p] = o
    BY <1>1, <2>4 DEF Inv, TablesOK
  <2>13. /\ rest \subseteq PhysicalLines(o.lines)
         /\ \A k \in PhysicalLines(o.lines) \ rest :
                o.lines[k].reservation \in o.consumed
    BY <1>5, <1>10, <2>3, <2>6
  <2>14. PlaceOK(x, orders'[p])
    <3>1. CASE pc = "commit"
      <4>1. rest # {}
        BY <2>7, <3>1
      <4>2. QED
        BY <1>5, <2>2, <2>3, <2>11, <2>12, <2>13, <3>1, <4>1 DEF PlaceOK, PlacePcs
    <3>2. CASE pc = "convert"
      <4>1. Deducted(o)
        BY <2>7, <2>13, <3>2 DEF Deducted
      <4>2. QED
        BY <1>5, <2>2, <2>3, <2>11, <2>12, <3>2, <4>1 DEF PlaceOK, PlacePcs
    <3>3. QED
      BY <2>7, <3>1, <3>2
  <2>15. StatusOK(p, x, orders')
    BY <2>7, <2>11 DEF StatusOK
  <2>16. LocalOK(p, x, orders')
    BY <1>1, <2>14, <2>15, PlaceIsLocal
  <2>17. /\ o.giftDebit = GiftDebits(orders)[p]
         /\ o.pointsDebit = PointsDebits(orders)[p]
    BY <1>1, <1>4, <1>6, <2>3 DEF GiftDebits, PointsDebits
  <2>18. /\ WalletsOK'
         /\ giftBalance' \in Nat /\ pointsBalance' \in Nat
    BY <1>1, <2>2, <2>4, <2>17, WalletsStay
  <2>19. IInv'
    BY <1>11, <1>13, CommitStep DEF Inv
  <2>20. /\ \A w \in ReservationIds \ {v} : reservations'[w] = reservations[w]
         /\ reservations[v].status = "active" /\ reservations'[v].status = "committed"
    BY <1>11, <1>13 DEF Commit, Inv, IInv, TypeOK, ReservationRow
  <2>21. CommittedStay
    BY <2>20 DEF CommittedStay
  <2>22. Complete(orders[p]) => Complete(o)
    BY <1>4, <2>2, <2>3 DEF Complete, Deducted
  <2>23. StockOK
    BY DEF Inv
  <2>24. \A w \in old.consumed : w \in ReservationIds /\ reservations[w].status = "committed"
    BY <1>1, <1>4, <1>6, <2>23 DEF StockOK, Placed, OrderRow
  <2>25. \A w \in o.consumed : reservations'[w].status = "committed"
    BY <2>3, <2>20, <2>21, <2>24 DEF CommittedStay
  <2>26. ASSUME NEW w \in o.consumed, NEW t \in Places \ {p}, orders[t] # NoOrder
         PROVE  w \notin orders[t].consumed
    <3>1. t \in Placed /\ p \in Placed
      BY <1>1, <1>4, <1>6, <2>26 DEF Placed
    <3>2. CASE w = v
      BY <2>20, <2>23, <3>1, <3>2 DEF StockOK
    <3>3. CASE w \in old.consumed
      BY <1>4, <2>23, <3>1, <3>3 DEF StockOK, OrdersNeverShareStock
    <3>4. QED
      BY <2>3, <3>2, <3>3
  <2>27. request' = [request EXCEPT ![p] = x]
    BY <1>13, <2>9 DEF Becomes
  <2>28. lines' = lines /\ cart' = cart
    BY <1>1
  <2>29. QED
    BY <1>1, <2>2, <2>4, <2>5, <2>11, <2>16, <2>18, <2>19, <2>21, <2>22, <2>25,
       <2>26, <2>27, <2>28, OrderStep
<1>14. Line(p) = l
  BY <1>2, <1>8 DEF Line
<1>15. QED
  BY <1>2, <1>10, <1>12, <1>13, <1>14 DEF PlaceCommit

LEMMA PlaceConvertKeeps ==
    ASSUME Inv, NEW p \in Requests, PlaceConvert(p)
    PROVE  Inv'
<1>1. p \in Places /\ UNCHANGED <<inventoryVars, lines, walletVars, orders>>
  BY DEF PlaceConvert
<1>2. PICK r \in RequestRow : r = request[p] /\ PlaceOK(r, orders[p])
  BY <1>1, PlaceKnows
<1>3. r.pc = "convert"
  BY <1>2 DEF PlaceConvert, At
<1>4. Complete(orders[p]) /\ orders[p] # NoOrder
  BY <1>2, <1>3, OrdersAreOrders DEF PlaceOK, Complete
<1>5. PICK x : x = [r EXCEPT !.pc = "readStatus", !.order = p, !.target = "confirmed"]
  OBVIOUS
<1>6. /\ x \in RequestRow /\ x.pc = "readStatus" /\ x.order = p
      /\ x.target = "confirmed"
  BY <1>1, <1>5 DEF RequestRow, Pcs, Targets
<1>7. PlaceOK(x, orders[p])
  BY <1>4, <1>6 DEF PlaceOK, PlacePcs
<1>8. StatusOK(p, x, orders)
  BY <1>1, <1>4, <1>6 DEF StatusOK
<1>9. LocalOK(p, x, orders)
  BY <1>1, <1>7, <1>8, PlaceIsLocal
<1>10. cart' \in CartRow
  BY DEF PlaceConvert, Inv, TablesOK, CartRow
<1>11. Becomes(p, x)
  BY <1>2, <1>5 DEF PlaceConvert
<1>12. QED
  BY <1>1, <1>4, <1>6, <1>9, <1>10, <1>11, CartStep

LEMMA PlaceKeeps ==
    ASSUME Inv, NEW p \in Requests, Place(p)
    PROVE  Inv'
  BY PlaceReadLinesKeeps, PlaceQuoteGiftKeeps, PlaceQuotePointsKeeps,
     PlaceInsertKeeps, PlaceRedeemGiftKeeps, PlaceRedeemPointsKeeps,
     PlacePayKeeps, PlaceCommitKeeps, PlaceConvertKeeps
     DEF Place
-----------------------------------------------------------------------------
(***************************************************************************)
(* transitionStatus                                                        *)
(***************************************************************************)

LEMMA AdminStartKeeps ==
    ASSUME Inv, NEW p \in Requests, AdminStart(p)
    PROVE  Inv'
<1>1. PICK r \in RequestRow : r = request[p]
  BY Knows
<1>2. PICK o \in Places, target \in {"confirmed", "fulfilled", "cancelled"} :
          /\ orders[o] # NoOrder
          /\ Becomes(p, [r EXCEPT !.pc = "readStatus", !.order = o,
                                  !.target = target])
  BY <1>1 DEF AdminStart
<1>3. PICK x : x = [r EXCEPT !.pc = "readStatus", !.order = o, !.target = target]
  OBVIOUS
<1>4. /\ x \in RequestRow /\ x.pc = "readStatus" /\ x.order = o
      /\ x.target = target
  BY <1>3 DEF RequestRow, Pcs, Targets
<1>5. p \notin Places /\ p \notin Prepares
  BY RequestsAssumption DEF AdminStart
<1>6. LocalOK(p, x, orders)
  BY <1>2, <1>4, <1>5 DEF LocalOK, StatusOK, SelectOK, EditOK
<1>7. UNCHANGED <<inventoryVars, cart, lines, walletVars, orders>>
  BY DEF AdminStart
<1>8. QED
  BY <1>2, <1>3, <1>4, <1>6, <1>7, RequestStep

\* A placement that confirms its order has it complete.
LEMMA OutcomeIsEarned ==
    ASSUME Inv, NEW p \in Requests, request[p].pc \in {"readStatus", "saveStatus"}
    PROVE  /\ Outcome(p) \in {"done", "failed"}
           /\ Outcome(p) = "done" /\ p \in Places => Complete(orders[p])
<1>1. p \in Places => PlaceOK(request[p], orders[p])
  BY PlaceKnows
<1>2. QED
  BY <1>1 DEF Outcome, PlaceOK

LEMMA ReadStatusKeeps ==
    ASSUME Inv, NEW p \in Requests, ReadStatus(p)
    PROVE  Inv'
<1>1. PICK r \in RequestRow : r = request[p] /\ LocalOK(p, r, orders)
  BY Knows
<1>2. r.pc = "readStatus"
  BY <1>1 DEF ReadStatus, At
<1>3. UNCHANGED <<inventoryVars, cart, lines, walletVars, orders>>
  BY DEF ReadStatus
<1>4. CASE Over(p, Outcome(p))
  BY <1>1, <1>2, <1>3, <1>4, OutcomeIsEarned, OverStep
<1>5. CASE Over(p, "failed")
  BY <1>3, <1>5, OverStep
<1>6. CASE Goto(p, "saveStatus")
  <2>1. PICK x : x = [r EXCEPT !.pc = "saveStatus"]
    OBVIOUS
  <2>2. /\ x \in RequestRow /\ x.pc = "saveStatus" /\ x.order = r.order
        /\ x.target = r.target
    BY <2>1 DEF RequestRow, Pcs
  <2>3. StatusOK(p, x, orders)
    BY <1>1, <1>2, <2>2 DEF LocalOK, StatusOK
  <2>4. p \in Places => PlaceOK(x, orders[p])
    <3>1. SUFFICES ASSUME p \in Places PROVE PlaceOK(x, orders[p])
      OBVIOUS
    <3>2. PlaceOK(r, orders[p])
      BY <1>1, <3>1 DEF LocalOK
    <3>3. r.target # "cancelled" => Complete(orders[p])
      BY <1>2, <3>2 DEF PlaceOK
    <3>4. QED
      BY <2>2, <3>3 DEF PlaceOK, PlacePcs
  <2>5. LocalOK(p, x, orders)
    BY <2>2, <2>3, <2>4 DEF LocalOK, PrepareOK, SelectOK, EditOK
  <2>6. Becomes(p, x)
    BY <1>1, <1>6, <2>1 DEF Goto
  <2>7. QED
    BY <1>3, <2>2, <2>5, <2>6, RequestStep
<1>7. QED
  BY <1>4, <1>5, <1>6 DEF ReadStatus

\* Whoever holds the order, only its status changes.
LEMMA SaveStatusKeeps ==
    ASSUME Inv, NEW p \in Requests, SaveStatus(p)
    PROVE  Inv'
<1>1. PICK r \in RequestRow : r = request[p] /\ LocalOK(p, r, orders)
  BY Knows
<1>2. r.pc = "saveStatus"
  BY <1>1 DEF SaveStatus, At
<1>3. UNCHANGED <<inventoryVars, cart, lines, walletVars>>
  BY DEF SaveStatus
<1>4. PICK d \in Places : d = r.order /\ orders[d] # NoOrder
  BY <1>1, <1>2 DEF LocalOK, StatusOK
<1>5. PICK status \in {"confirmed", "fulfilled", "cancelled"} : status = r.target
  BY <1>1, <1>2 DEF LocalOK, StatusOK
<1>6. PICK old \in OrderRow : old = orders[d]
  BY <1>4 DEF Inv, TablesOK
<1>7. PICK o : o = [old EXCEPT !.status = status]
  OBVIOUS
<1>8. o \in OrderRow
  BY <1>7 DEF OrderRow
<1>9. /\ o.lines = old.lines /\ o.gift = old.gift
      /\ o.points = old.points /\ o.giftDebit = old.giftDebit
      /\ o.pointsDebit = old.pointsDebit /\ o.paid = old.paid
      /\ o.payment = old.payment /\ o.consumed = old.consumed
      /\ o.total = old.total
  BY <1>7 DEF OrderRow
<1>10. orders' = [orders EXCEPT ![d] = o]
  BY <1>1, <1>4, <1>5, <1>6, <1>7 DEF SaveStatus, Inv, TablesOK
<1>11. orders'[d] = o /\ \A t \in Places \ {d} : orders'[t] = orders[t]
  BY <1>10 DEF Inv, TablesOK
<1>12. OrderOK(o)
  <2>1. OrderOK(old) /\ old # NoOrder
    BY <1>4, <1>6, PlaceKnows
  <2>2. QED
    BY <1>9, <2>1, Zenon DEF OrderOK
<1>13. Complete(old) => Complete(o)
  BY <1>8, <1>9 DEF Complete, Deducted
<1>14. PICK how \in {"done", "failed"} : how = Outcome(p)
  BY <1>1, <1>2, OutcomeIsEarned
<1>15. how = "done" /\ p \in Places => Complete(orders'[p])
  <2>1. SUFFICES ASSUME how = "done", p \in Places PROVE Complete(orders'[p])
    OBVIOUS
  <2>2. Complete(orders[p])
    BY <1>1, <1>2, <1>14, <2>1, OutcomeIsEarned
  <2>3. QED
    BY <1>6, <1>11, <1>13, <2>1, <2>2
<1>16. PICK x : x = [Blank EXCEPT !.pc = how]
  OBVIOUS
<1>17. x \in RequestRow /\ LocalOK(p, x, orders')
  BY <1>15, <1>16, OverIsLocal
<1>18. request' = [request EXCEPT ![p] = x]
  BY <1>14, <1>16 DEF SaveStatus, Over, Becomes
<1>19. p # d => PlaceOK(request[d], o)
  <2>1. PlaceOK(request[d], old)
    BY <1>6, PlaceKnows
  <2>2. old # NoOrder
    BY <1>4, <1>6
  <2>3. QED
    BY <1>8, <1>9, <1>13, <2>1, <2>2 DEF PlaceOK, Deducted
<1>20. /\ o.giftDebit = GiftDebits(orders)[d]
       /\ o.pointsDebit = PointsDebits(orders)[d]
  BY <1>4, <1>6, <1>9 DEF GiftDebits, PointsDebits
<1>21. /\ WalletsOK'
       /\ giftBalance' \in Nat /\ pointsBalance' \in Nat
  BY <1>3, <1>8, <1>10, <1>20, WalletsStay
<1>22. IInv' /\ CommittedStay
  BY <1>3, InventoryStays DEF Inv
<1>23. lines' = lines /\ cart' = cart
  BY <1>3
<1>24. StockOK /\ d \in Placed
  BY <1>4 DEF Inv, Placed
<1>25. \A w \in o.consumed : reservations'[w].status = "committed"
  BY <1>3, <1>6, <1>9, <1>24 DEF StockOK, inventoryVars
<1>26. ASSUME NEW w \in o.consumed, NEW t \in Places \ {d}, orders[t] # NoOrder
       PROVE  w \notin orders[t].consumed
  BY <1>6, <1>9, <1>24, <1>26 DEF StockOK, OrdersNeverShareStock, Placed
<1>27. Complete(orders[d]) => Complete(o)
  BY <1>6, <1>13
<1>28. QED
  BY <1>8, <1>10, <1>12, <1>17, <1>18, <1>19, <1>21, <1>22, <1>23, <1>25,
     <1>26, <1>27, OrderStep

-----------------------------------------------------------------------------
(***************************************************************************)
(* Edits and selections                                                    *)
(***************************************************************************)

LEMMA EditIsLocal ==
    ASSUME NEW p \in Edits, NEW x, EditOK(x), NEW os,
           x.pc \notin {"readStatus", "saveStatus"}
    PROVE  LocalOK(p, x, os)
  BY RequestsAssumption DEF LocalOK, StatusOK

LEMMA SelectIsLocal ==
    ASSUME NEW p \in Selections, NEW x, SelectOK(x), NEW os,
           x.pc \notin {"readStatus", "saveStatus"}
    PROVE  LocalOK(p, x, os)
  BY RequestsAssumption DEF LocalOK, StatusOK

\* An edit read line l.
LEMMA EditReads ==
    ASSUME Inv, NEW p \in Edits, p \in Requests, NEW l \in LineIds,
           NEW pc \in {"requireOpen", "write"},
           NEW target \in {"update", "remove", "insert", "add"},
           Becomes(p, [request[p] EXCEPT !.pc = pc, !.line = l,
                           !.lines = lines, !.target = target]),
           UNCHANGED <<inventoryVars, cart, lines, walletVars, orders>>
    PROVE  Inv'
<1>1. PICK r \in RequestRow : r = request[p]
  BY Knows
<1>2. PICK x : x = [r EXCEPT !.pc = pc, !.line = l, !.lines = lines,
                             !.target = target]
  OBVIOUS
<1>3. lines \in CartLines
  BY DEF Inv, TablesOK
<1>4. x \in RequestRow /\ x.pc = pc /\ x.line = l
  BY <1>2, <1>3 DEF RequestRow, Pcs, Targets
<1>5. LocalOK(p, x, orders)
  BY <1>4, EditIsLocal DEF EditOK
<1>6. Becomes(p, x)
  BY <1>1, <1>2
<1>7. QED
  BY <1>4, <1>5, <1>6, RequestStep

LEMMA EditReadLineKeeps ==
    ASSUME Inv, NEW p \in Requests, EditReadLine(p)
    PROVE  Inv'
<1>1. PICK l \in LineIds, kind \in {"update", "remove"} :
          Becomes(p, [request[p] EXCEPT !.pc = "requireOpen", !.line = l,
                          !.lines = lines, !.target = kind])
  BY DEF EditReadLine, Live
<1>2. p \in Edits /\ UNCHANGED <<inventoryVars, cart, lines, walletVars, orders>>
  BY DEF EditReadLine
<1>3. QED
  BY <1>1, <1>2, EditReads

LEMMA EditFindLineKeeps ==
    ASSUME Inv, NEW p \in Requests, EditFindLine(p)
    PROVE  Inv'
<1>1. PICK l \in LineIds, target \in {"insert", "add"} :
          Becomes(p, [request[p] EXCEPT !.pc = "write", !.line = l,
                          !.lines = lines, !.target = target])
  BY DEF EditFindLine, Live
<1>2. p \in Edits /\ UNCHANGED <<inventoryVars, cart, lines, walletVars, orders>>
  BY DEF EditFindLine
<1>3. QED
  BY <1>1, <1>2, EditReads

LEMMA EditGoesOn ==
    ASSUME Inv, NEW p \in Edits, p \in Requests, NEW pc \in {"find", "write"},
           pc = "write" => request[p].line \in LineIds,
           Goto(p, pc),
           UNCHANGED <<inventoryVars, cart, lines, walletVars, orders>>
    PROVE  Inv'
<1>1. PICK r \in RequestRow : r = request[p]
  BY Knows
<1>2. PICK x : x = [r EXCEPT !.pc = pc]
  OBVIOUS
<1>3. x \in RequestRow /\ x.pc = pc /\ x.line = r.line
  BY <1>2 DEF RequestRow, Pcs
<1>4. LocalOK(p, x, orders)
  BY <1>1, <1>3, EditIsLocal DEF EditOK
<1>5. Becomes(p, x)
  BY <1>1, <1>2 DEF Goto
<1>6. QED
  BY <1>3, <1>4, <1>5, RequestStep

LEMMA EditRequireOpenKeeps ==
    ASSUME Inv, NEW p \in Requests, EditRequireOpen(p)
    PROVE  Inv'
<1>1. p \in Edits /\ UNCHANGED <<inventoryVars, cart, lines, walletVars, orders>>
  BY DEF EditRequireOpen
<1>2. request[p].line \in LineIds
  BY <1>1, Knows DEF EditRequireOpen, At, LocalOK, EditOK
<1>3. QED
  BY <1>1, <1>2, EditGoesOn, OverStep DEF EditRequireOpen

LEMMA EditAddStartKeeps ==
    ASSUME Inv, NEW p \in Requests, EditAddStart(p)
    PROVE  Inv'
<1>1. p \in Edits /\ UNCHANGED <<inventoryVars, cart, lines, walletVars, orders>>
  BY DEF EditAddStart
<1>2. QED
  BY <1>1, EditGoesOn, OverStep DEF EditAddStart

LEMMA EditWriteKeeps ==
    ASSUME Inv, NEW p \in Requests, EditWrite(p)
    PROVE  Inv'
<1>1. p \in Edits /\ UNCHANGED <<inventoryVars, cart, walletVars, orders>>
  BY DEF EditWrite
<1>2. PICK r \in RequestRow : r = request[p] /\ LocalOK(p, r, orders)
  BY Knows
<1>3. PICK l \in LineIds : l = r.line
  BY <1>1, <1>2 DEF EditWrite, At, LocalOK, EditOK
<1>4. lines \in CartLines /\ lines[l] \in LineRow
  BY DEF Inv, TablesOK, CartLines
<1>5. p \notin Places
  BY <1>1, RequestsAssumption
<1>6. CASE Over(p, "failed") /\ UNCHANGED lines
  BY <1>1, <1>6, OverStep
<1>7. ASSUME lines' \in CartLines, Over(p, "done")
      PROVE  Inv'
  BY <1>1, <1>5, <1>7, OverIsLocal, LinesStep DEF Over
<1>8. CASE /\ lines' = [lines EXCEPT ![l].state =
                            IF @ = "live" THEN "deleted" ELSE @]
           /\ Over(p, "done")
  <2>1. PICK state : state = IF lines[l].state = "live" THEN "deleted"
                             ELSE lines[l].state
    OBVIOUS
  <2>2. state \in {"none", "deleted"}
    BY <1>4, <2>1 DEF LineRow
  <2>3. PICK row : row = [lines[l] EXCEPT !.state = state]
    OBVIOUS
  <2>4. row \in LineRow /\ row.state # "live"
    BY <1>4, <2>2, <2>3 DEF LineRow
  <2>5. lines' = [lines EXCEPT ![l] = row]
    BY <1>4, <1>8, <2>1, <2>3 DEF CartLines
  <2>6. lines' \in CartLines
    BY <1>4, <2>4, <2>5 DEF CartLines
  <2>7. QED
    BY <1>7, <1>8, <2>6
<1>9. ASSUME NEW q \in 1..MaxQuantity,
             lines' = [lines EXCEPT ![l] =
                 [state |-> "live", quantity |-> q, reservation |-> None]],
             Over(p, "done")
      PROVE  Inv'
  <2>1. PICK row : row = [state |-> "live", quantity |-> q, reservation |-> None]
    OBVIOUS
  <2>2. q \in 0..MaxInt /\ q > 0
    BY LinesAssumption, MaxIntAssumption
  <2>3. row \in LineRow /\ row.quantity > 0
    BY <2>1, <2>2 DEF LineRow
  <2>4. lines' \in CartLines
    BY <1>4, <1>9, <2>1, <2>3 DEF CartLines
  <2>5. QED
    BY <1>7, <1>9, <2>4
<1>10. QED
  BY <1>2, <1>3, <1>6, <1>8, <1>9 DEF EditWrite

LEMMA SelectReadKeeps ==
    ASSUME Inv, NEW p \in Requests, SelectRead(p)
    PROVE  Inv'
<1>1. p \in Selections /\ UNCHANGED <<inventoryVars, cart, lines, walletVars, orders>>
  BY DEF SelectRead
<1>2. PICK r \in RequestRow : r = request[p]
  BY Knows
<1>3. CASE Over(p, "failed")
  BY <1>1, <1>3, OverStep
<1>4. ASSUME cart.status # "converted", NEW g \in BOOLEAN, NEW n \in PointsAsked,
             Becomes(p, [r EXCEPT !.pc = "save",
                             !.cart = [cart EXCEPT !.gift = g, !.points = n]])
      PROVE  Inv'
  <2>1. PICK c : c = [cart EXCEPT !.gift = g, !.points = n]
    OBVIOUS
  <2>2. c \in CartRow /\ c.status # "converted"
    BY <1>4, <2>1 DEF Inv, TablesOK, CartRow
  <2>3. PICK x : x = [r EXCEPT !.pc = "save", !.cart = c]
    OBVIOUS
  <2>4. x \in RequestRow /\ x.pc = "save" /\ x.cart = c
    BY <2>2, <2>3 DEF RequestRow, Pcs
  <2>5. LocalOK(p, x, orders)
    BY <1>1, <2>2, <2>4, SelectIsLocal DEF SelectOK
  <2>6. QED
    BY <1>1, <1>4, <2>1, <2>3, <2>4, <2>5, RequestStep
<1>5. QED
  BY <1>2, <1>3, <1>4 DEF SelectRead

LEMMA SelectSaveKeeps ==
    ASSUME Inv, NEW p \in Requests, SelectSave(p)
    PROVE  Inv'
<1>1. /\ p \in Selections /\ Over(p, "done") /\ cart' = request[p].cart
      /\ UNCHANGED <<inventoryVars, lines, walletVars, orders>>
  BY DEF SelectSave
<1>2. cart' \in CartRow /\ cart'.status # "converted"
  BY <1>1, Knows DEF SelectSave, At, LocalOK, SelectOK
<1>3. p \notin Places
  BY <1>1, RequestsAssumption
<1>4. QED
  BY <1>1, <1>2, <1>3, OverIsLocal, CartStep DEF Over

LEMMA DieKeeps ==
    ASSUME Inv, NEW p \in Requests, Die(p)
    PROVE  Inv'
  BY OverStep DEF Die
-----------------------------------------------------------------------------
(***************************************************************************)
(* The invariant                                                           *)
(***************************************************************************)

LEMMA InitialInventory == CheckoutInit => IInv
<1> SUFFICES ASSUME CheckoutInit PROVE IInv
  OBVIOUS
<1>1. TypeOK
  BY MaxIntAssumption, StockAssumption
     DEF CheckoutInit, TypeOK, ReservationRow, TransferRow
<1>2. ASSUME NEW status \in Stored, NEW i
      PROVE  Cardinality(UnitsIn(status, i)) = 0
  <2>1. UnitsIn(status, i) = {}
    BY DEF CheckoutInit, UnitsIn, Stored, Settled
  <2>2. QED
    BY <2>1, FS_EmptySet
<1>3. ReservedIsSumOfActive
  BY <1>2 DEF CheckoutInit, ReservedIsSumOfActive, Stored
<1>4. ASSUME NEW i \in Items
      PROVE  onHand[i] = opening[i] + adjustments[i].manual + adjustments[i].transfer
                         - Cardinality(UnitsIn("committed", i))
  <2>1. Cardinality(UnitsIn("committed", i)) = 0
    BY <1>2 DEF Stored, Settled
  <2>2. /\ onHand[i] \in Nat /\ opening[i] = onHand[i]
        /\ adjustments[i].manual = 0 /\ adjustments[i].transfer = 0
    BY StockAssumption, MaxIntAssumption DEF CheckoutInit
  <2>3. QED
    BY <2>1, <2>2
<1>5. OnHandReconciles
  BY <1>4 DEF OnHandReconciles
<1>6. ReservedWithinOnHand /\ NoRowNoStock
  BY StockAssumption, MaxIntAssumption
     DEF CheckoutInit, ReservedWithinOnHand, NoRowNoStock
<1>7. QED
  BY <1>1, <1>3, <1>5, <1>6 DEF IInv

LEMMA InitialCheckout == CheckoutInit => Inv
<1> SUFFICES ASSUME CheckoutInit PROVE Inv
  OBVIOUS
<1>1. lines \in CartLines
  <2>1. ASSUME NEW l \in LineIds
        PROVE  lines[l] \in LineRow /\ (lines[l].state = "live" => lines[l].quantity > 0)
    BY LinesAssumption DEF CheckoutInit, LineRow
  <2>2. lines \in [LineIds -> LineRow]
    BY <2>1 DEF CheckoutInit
  <2>3. QED
    BY <2>1, <2>2 DEF CartLines
<1>2. /\ Blank \in RequestRow /\ Blank.pc = "start" /\ Blank.gift = 0
  BY StockAssumption DEF Blank, RequestRow, Pcs
<1>3. TablesOK
  BY <1>1, <1>2, CartAssumption, WalletsAssumption DEF CheckoutInit, TablesOK
<1>4. ASSUME NEW p \in Requests
      PROVE  LocalOK(p, request[p], orders)
  <2>1. request[p] = Blank
    BY DEF CheckoutInit
  <2>2. p \in Places => orders[p] = NoOrder
    BY DEF CheckoutInit
  <2>3. QED
    BY <1>2, <2>1, <2>2
       DEF LocalOK, PrepareOK, PlaceOK, SelectOK, EditOK, StatusOK, PlacePcs
<1>5. \A p \in Places : OrderOK(orders[p])
  BY DEF CheckoutInit, OrderOK
<1>6. StockOK
  BY DEF CheckoutInit, StockOK, OrdersNeverShareStock, Placed
<1>7. WalletsOK
  <2>1. /\ GiftDebits(orders) = [p \in Places |-> 0]
        /\ PointsDebits(orders) = [p \in Places |-> 0]
    BY DEF CheckoutInit, GiftDebits, PointsDebits
  <2>2. SumOf(GiftDebits(orders)) = 0 /\ SumOf(PointsDebits(orders)) = 0
    BY <2>1, SumOfZeros
  <2>3. QED
    BY <2>2, WalletsAssumption DEF CheckoutInit, WalletsOK
<1>8. ConvertedOK
  BY CartAssumption DEF CheckoutInit, ConvertedOK
<1>9. QED
  BY InitialInventory, <1>3, <1>4, <1>5, <1>6, <1>7, <1>8 DEF Inv

LEMMA NothingHappens ==
    ASSUME Inv, UNCHANGED checkoutVars
    PROVE  Inv'
<1>1. IInv'
  BY InventoryStays DEF Inv, checkoutVars
<1>2. /\ cart' = cart /\ lines' = lines /\ giftBalance' = giftBalance
      /\ pointsBalance' = pointsBalance /\ orders' = orders /\ request' = request
      /\ reservations' = reservations
  BY DEF checkoutVars, inventoryVars
<1>3. QED
  BY <1>1, <1>2
     DEF Inv, TablesOK, StockOK, OrdersNeverShareStock, Placed, WalletsOK, ConvertedOK

LEMMA EveryStepKeeps == Inv /\ [CheckoutNext]_checkoutVars => Inv'
<1> SUFFICES ASSUME Inv, [CheckoutNext]_checkoutVars PROVE Inv'
  OBVIOUS
<1>1. CASE CheckoutNext
  <2>1. PICK p \in Requests :
            \/ ReadCart(p) \/ Prepare(p) \/ Place(p)
            \/ AdminStart(p) \/ ReadStatus(p) \/ SaveStatus(p) \/ Edit(p)
            \/ SelectRead(p) \/ SelectSave(p) \/ Die(p)
    BY <1>1 DEF CheckoutNext
  <2>2. CASE Edit(p)
    BY <2>2, EditReadLineKeeps, EditRequireOpenKeeps, EditAddStartKeeps,
       EditFindLineKeeps, EditWriteKeeps DEF Edit
  <2>3. QED
    BY <2>1, <2>2, ReadCartKeeps, PrepareKeeps, PlaceKeeps, AdminStartKeeps,
       ReadStatusKeeps, SaveStatusKeeps, SelectReadKeeps, SelectSaveKeeps, DieKeeps
<1>2. CASE UNCHANGED checkoutVars
  BY <1>2, NothingHappens
<1>3. QED
  BY <1>1, <1>2

LEMMA CheckoutInvariant == CheckoutSpec => []Inv
<1>1. QED
  BY InitialCheckout, EveryStepKeeps, PTL DEF CheckoutSpec

-----------------------------------------------------------------------------
(***************************************************************************)
(* Theorems                                                                *)
(***************************************************************************)

\* placeOrder reads the cart and its lines in no transaction, so two placements
\* of one cart may hold the same reservations; InventoryService.commit settles
\* each for one of them only.
THEOREM StockIsSoldOnce == CheckoutSpec => []OrdersNeverShareStock
<1>1. Inv => OrdersNeverShareStock
  BY DEF Inv, StockOK
<1>2. QED
  BY <1>1, CheckoutInvariant, PTL

\* GiftCardsService.redeem and LoyaltyService.redeem check the balance again
\* under a lock: whatever was quoted without one, balances and the orders' debits
\* add up and nothing is overdrawn.
THEOREM WalletsAddUp == CheckoutSpec => []WalletsBalance
<1>1. Inv => WalletsBalance
  <2> SUFFICES ASSUME Inv PROVE WalletsBalance
    OBVIOUS
  <2>1. /\ giftBalance >= 0 /\ pointsBalance >= 0
        /\ giftBalance + SumOf(GiftDebits(orders)) = GiftCredit
        /\ pointsBalance + SumOf(PointsDebits(orders)) = Points
    BY DEF Inv, TablesOK, WalletsOK
  <2>2. /\ GiftDebits(orders)
               = [p \in Places |-> IF p \in Placed THEN orders[p].giftDebit ELSE 0]
        /\ PointsDebits(orders)
               = [p \in Places |-> IF p \in Placed THEN orders[p].pointsDebit ELSE 0]
    BY DEF GiftDebits, PointsDebits, Placed
  <2>3. QED
    BY <2>1, <2>2, Zenon DEF WalletsBalance
<1>2. QED
  BY <1>1, CheckoutInvariant, PTL

\* An order that placeOrder confirmed is paid for to the cent, from the lines it
\* was inserted with, by payment, gift card and points together.
THEOREM SuccessIsPaidFor == CheckoutSpec => []CompletedOrdersArePaid
<1>1. Inv => CompletedOrdersArePaid
  <2> SUFFICES ASSUME Inv, NEW p \in Completed
               PROVE  /\ orders[p].paid
                      /\ orders[p].payment >= 0
                      /\ orders[p].payment + orders[p].giftDebit
                             + orders[p].pointsDebit = Subtotal(orders[p].lines)
    BY DEF CompletedOrdersArePaid
  <2>1. p \in Places /\ request[p].pc = "done"
    BY DEF Completed, At
  <2>2. PICK o \in OrderRow : o = orders[p] /\ o.paid /\ OrderOK(o) /\ o # NoOrder
    BY <2>1, PlaceKnows, OrdersAreOrders DEF PlaceOK, Complete
  <2>3. /\ o.total = Subtotal(o.lines)
        /\ o.payment = o.total - o.gift - o.points
        /\ o.giftDebit = o.gift /\ o.pointsDebit = o.points
    BY <2>2, Zenon DEF OrderOK
  <2>4. /\ o.payment \in Nat /\ o.total \in Nat /\ o.gift \in Nat /\ o.points \in Nat
    BY DEF OrderRow
  <2>5. o.payment >= 0 /\ o.payment + o.giftDebit + o.pointsDebit = Subtotal(o.lines)
    BY <2>3, <2>4
  <2>6. QED
    BY <2>2, <2>5, Zenon
<1>2. QED
  BY <1>1, CheckoutInvariant, PTL

\* placeOrder commits reservations after the payment: an order whose payment
\* failed, or that died before it, has taken no stock.
THEOREM StockIsTakenWhenPaid == CheckoutSpec => []OnlyPaidOrdersTakeStock
<1>1. Inv => OnlyPaidOrdersTakeStock
  BY DEF Inv, OrderOK, OnlyPaidOrdersTakeStock, Placed
<1>2. QED
  BY <1>1, CheckoutInvariant, PTL

\* Carts are saved whole, stale status included, yet no save converts a cart
\* but the one of a placement that was paid and has all its stock.
THEOREM ConversionFollowsAnOrder == CheckoutSpec => []ConvertedCartsAreOrdered
<1>1. Inv => ConvertedCartsAreOrdered
  <2> SUFFICES ASSUME Inv, cart.status = "converted"
               PROVE  \E p \in Placed :
                          /\ orders[p].paid
                          /\ \A l \in PhysicalLines(orders[p].lines) :
                                 orders[p].lines[l].reservation \in orders[p].consumed
    BY DEF ConvertedCartsAreOrdered
  <2>1. PICK p \in Places : Complete(orders[p])
    BY DEF Inv, ConvertedOK
  <2>2. p \in Placed
    BY <2>1, OrdersAreOrders DEF Complete, Placed
  <2>3. QED
    BY <2>1, <2>2 DEF Complete, Deducted
<1>2. QED
  BY <1>1, CheckoutInvariant, PTL
-----------------------------------------------------------------------------
(***************************************************************************)
(* A cart nobody edits: what is reserved is what is ordered                *)
(***************************************************************************)

\* The lines are those the cart started with, and a reservation attached to one
\* was made for it.
Unedited(ls) ==
    \A l \in LineIds :
        /\ ls[l].state = IF InitialLines[l] > 0 THEN "live" ELSE "none"
        /\ ls[l].quantity = InitialLines[l]
        /\ ls[l].reservation \in {None} \union (Prepares \X {l})

\* So are those a request has in hand.
ReadsUnedited(p, r) ==
    /\ p \in Prepares /\ r.pc \in {"release", "clear", "pick", "reserve"} =>
           Unedited(r.lines)
    /\ p \in Places /\ r.pc \in PlacePcs => Unedited(r.lines)

\* What prepare q reserves for line l is the line's variant and quantity.
MadeFor(rs) ==
    \A q \in Prepares, l \in LineIds :
        rs[<<q, l>>].status # "none" =>
            /\ rs[<<q, l>>].item[1] = VariantOf[l]
            /\ rs[<<q, l>>].quantity = InitialLines[l]

QuantityInv ==
    /\ Unedited(lines)
    /\ \A p \in Requests : ReadsUnedited(p, request[p])
    /\ \A p \in Places : orders[p] # NoOrder => Unedited(orders[p].lines)
    /\ MadeFor(reservations)

LEMMA QuantityStep ==
    ASSUME Inv, QuantityInv, NEW p \in Requests, NEW x,
           request' = [request EXCEPT ![p] = x], ReadsUnedited(p, x),
           Unedited(lines'), orders' = orders, MadeFor(reservations')
    PROVE  QuantityInv'
  BY DEF QuantityInv, Inv, TablesOK

\* Settling a reservation does not change what it is for.
LEMMA SettlingKeepsWhat ==
    ASSUME IInv, MadeFor(reservations), NEW r \in ReservationIds,
           Release(r) \/ Commit(r)
    PROVE  MadeFor(reservations')
<1>1. reservations \in [ReservationIds -> ReservationRow]
  BY DEF IInv, TypeOK
<1>2. PICK status : reservations' = [reservations EXCEPT ![r].status = status]
  BY DEF Release, Commit
<1>3. reservations[r].status # "none"
  BY DEF Release, Commit
<1>4. /\ reservations'[r].item = reservations[r].item
      /\ reservations'[r].quantity = reservations[r].quantity
  BY <1>1, <1>2, <1>3 DEF ReservationRow
<1>5. \A s \in ReservationIds \ {r} : reservations'[s] = reservations[s]
  BY <1>1, <1>2
<1>6. ASSUME NEW q \in Prepares, NEW l \in LineIds,
             reservations'[<<q, l>>].status # "none"
      PROVE  /\ reservations'[<<q, l>>].item[1] = VariantOf[l]
             /\ reservations'[<<q, l>>].quantity = InitialLines[l]
  <2>1. <<q, l>> \in ReservationIds
    BY StockAssumption
  <2>2. PICK s \in ReservationIds : s = <<q, l>>
    BY <2>1
  <2>3. reservations[s].status # "none" =>
            /\ reservations[s].item[1] = VariantOf[l]
            /\ reservations[s].quantity = InitialLines[l]
    BY <2>2 DEF MadeFor
  <2>4. QED
    BY <1>3, <1>4, <1>5, <1>6, <2>2, <2>3
<1>7. QED
  BY <1>6 DEF MadeFor

LEMMA TryReleaseKeepsWhat ==
    ASSUME IInv, MadeFor(reservations), NEW r \in ReservationIds \union {None},
           TryRelease(r)
    PROVE  MadeFor(reservations')
<1>1. CASE r \in ReservationIds /\ Release(r)
  BY <1>1, SettlingKeepsWhat
<1>2. CASE UNCHANGED inventoryVars
  BY <1>2 DEF inventoryVars
<1>3. QED
  BY <1>1, <1>2 DEF TryRelease

LEMMA OverReadsNothing ==
    ASSUME NEW p, NEW how \in {"done", "failed"}
    PROVE  ReadsUnedited(p, [Blank EXCEPT !.pc = how])
  BY DEF ReadsUnedited, PlacePcs, Blank

\* A request that goes on with the lines it has, or stops using them.
LEMMA ReadsGoOn ==
    ASSUME NEW p \in Requests, NEW r, NEW x, ReadsUnedited(p, r),
           x.lines = r.lines,
           x.pc \in {"release", "clear", "pick", "reserve"} =>
               r.pc \in {"release", "clear", "pick", "reserve"},
           x.pc \in PlacePcs => r.pc \in PlacePcs
    PROVE  ReadsUnedited(p, x)
  BY DEF ReadsUnedited

\* The steps that neither write lines nor reservations nor orders.
LEMMA QuietStep ==
    ASSUME Inv, QuantityInv, NEW p \in Requests, NEW x, Becomes(p, x),
           ReadsUnedited(p, x), UNCHANGED <<reservations, lines, orders>>
    PROVE  QuantityInv'
<1>1. Unedited(lines') /\ MadeFor(reservations')
  BY DEF QuantityInv
<1>2. QED
  BY <1>1, QuantityStep DEF Becomes

LEMMA ReadsOf ==
    ASSUME Inv, QuantityInv, NEW p \in Requests
    PROVE  request[p] \in RequestRow /\ ReadsUnedited(p, request[p])
  BY DEF Inv, TablesOK, QuantityInv

\* Every way a request has of moving on without reading or writing lines.
LEMMA MovesOn ==
    ASSUME Inv, QuantityInv, NEW p \in Requests,
           UNCHANGED <<reservations, lines, orders>>,
           \/ ReadCart(p) \/ PreparePick(p) \/ PrepareQuote(p) \/ PrepareLock(p)
           \/ PlaceQuoteGift(p) \/ PlaceQuotePoints(p) \/ PlaceConvert(p)
           \/ AdminStart(p) \/ ReadStatus(p) \/ SelectRead(p) \/ SelectSave(p)
           \/ Die(p)
    PROVE  QuantityInv'
<1>1. PICK r \in RequestRow : r = request[p] /\ ReadsUnedited(p, r)
  BY ReadsOf
<1>2. ASSUME NEW how \in {"done", "failed"}, Over(p, how)
      PROVE  QuantityInv'
  BY <1>2, OverReadsNothing, QuietStep DEF Over
<1>3. ASSUME NEW x, Becomes(p, x), x.lines = r.lines,
             x.pc \in {"release", "clear", "pick", "reserve"} =>
                 r.pc \in {"release", "clear", "pick", "reserve"},
             x.pc \in PlacePcs => r.pc \in PlacePcs
      PROVE  QuantityInv'
  BY <1>1, <1>3, ReadsGoOn, QuietStep
<1>4. CASE ReadCart(p)
  <2>1. PICK x : x = [r EXCEPT !.pc = "lines", !.cart = cart]
    OBVIOUS
  <2>2. x.lines = r.lines /\ x.pc = "lines"
    BY <2>1 DEF RequestRow
  <2>3. Becomes(p, x)
    BY <1>1, <1>4, <2>1 DEF ReadCart
  <2>4. QED
    BY <1>3, <2>2, <2>3 DEF PlacePcs
<1>5. ASSUME NEW pc, Goto(p, pc),
             pc \in {"release", "clear", "pick", "reserve"} =>
                 r.pc \in {"release", "clear", "pick", "reserve"},
             pc \in PlacePcs => r.pc \in PlacePcs
      PROVE  QuantityInv'
  <2>1. PICK x : x = [r EXCEPT !.pc = pc]
    OBVIOUS
  <2>2. x.lines = r.lines /\ x.pc = pc
    BY <2>1 DEF RequestRow
  <2>3. Becomes(p, x)
    BY <1>1, <1>5, <2>1 DEF Goto
  <2>4. QED
    BY <1>3, <1>5, <2>2, <2>3
<1>6. CASE PreparePick(p)
  <2>1. r.pc = "pick"
    BY <1>1, <1>6 DEF PreparePick, At
  <2>2. CASE Goto(p, "reserve")
    BY <1>5, <2>1, <2>2 DEF PlacePcs
  <2>3. CASE Becomes(p, [r EXCEPT !.wh = @ + 1])
    <3>1. PICK x : x = [r EXCEPT !.wh = @ + 1]
      OBVIOUS
    <3>2. x.lines = r.lines /\ x.pc = "pick"
      BY <2>1, <3>1 DEF RequestRow
    <3>3. QED
      BY <1>3, <2>1, <2>3, <3>1, <3>2 DEF PlacePcs
  <2>4. CASE ToRollback(p)
    <3>1. CASE Over(p, "failed")
      BY <1>2, <3>1
    <3>2. CASE Becomes(p, [r EXCEPT !.todo = r.held, !.pc = "rollback"])
      <4>1. PICK x : x = [r EXCEPT !.todo = r.held, !.pc = "rollback"]
        OBVIOUS
      <4>2. x.lines = r.lines /\ x.pc = "rollback"
        BY <4>1 DEF RequestRow
      <4>3. QED
        BY <1>3, <3>2, <4>1, <4>2 DEF PlacePcs
    <3>3. QED
      BY <1>1, <2>4, <3>1, <3>2 DEF ToRollback
  <2>5. QED
    BY <1>1, <1>6, <2>2, <2>3, <2>4 DEF PreparePick
<1>7. CASE PrepareQuote(p)
  <2>1. Over(p, "failed") \/ Goto(p, "lock")
    BY <1>7 DEF PrepareQuote
  <2>2. QED
    BY <1>2, <1>5, <2>1 DEF PlacePcs
<1>8. CASE PrepareLock(p)
  BY <1>2, <1>8 DEF PrepareLock
<1>9. CASE PlaceQuoteGift(p)
  <2>1. r.pc = "quoteGift"
    BY <1>1, <1>9 DEF PlaceQuoteGift, At
  <2>2. CASE Goto(p, "quotePoints") \/ Over(p, "failed")
    BY <1>2, <1>5, <2>1, <2>2 DEF PlacePcs
  <2>3. CASE Becomes(p, [r EXCEPT !.pc = "quotePoints",
                             !.gift = MinOf(giftBalance, Total(p))])
    <3>1. PICK x : x = [r EXCEPT !.pc = "quotePoints",
                                 !.gift = MinOf(giftBalance, Total(p))]
      OBVIOUS
    <3>2. x.lines = r.lines /\ x.pc = "quotePoints"
      BY <3>1 DEF RequestRow
    <3>3. QED
      BY <1>3, <2>1, <2>3, <3>1, <3>2 DEF PlacePcs
  <2>4. QED
    BY <1>1, <1>9, <2>2, <2>3 DEF PlaceQuoteGift
<1>10. CASE PlaceQuotePoints(p)
  <2>1. r.pc = "quotePoints"
    BY <1>1, <1>10 DEF PlaceQuotePoints, At
  <2>2. CASE Over(p, "failed")
    BY <1>2, <2>2
  <2>3. ASSUME NEW points, Becomes(p, [r EXCEPT !.pc = "insert", !.points = points])
        PROVE  QuantityInv'
    <3>1. PICK x : x = [r EXCEPT !.pc = "insert", !.points = points]
      OBVIOUS
    <3>2. x.lines = r.lines /\ x.pc = "insert"
      BY <3>1 DEF RequestRow
    <3>3. QED
      BY <1>3, <2>1, <2>3, <3>1, <3>2 DEF PlacePcs
  <2>4. QED
    BY <1>1, <1>10, <2>2, <2>3 DEF PlaceQuotePoints
<1>11. ASSUME NEW o, NEW target,
              Becomes(p, [r EXCEPT !.pc = "readStatus", !.order = o,
                                   !.target = target])
       PROVE  QuantityInv'
  <2>1. PICK x : x = [r EXCEPT !.pc = "readStatus", !.order = o, !.target = target]
    OBVIOUS
  <2>2. x.lines = r.lines /\ x.pc = "readStatus"
    BY <2>1 DEF RequestRow
  <2>3. QED
    BY <1>3, <1>11, <2>1, <2>2 DEF PlacePcs
<1>12. CASE PlaceConvert(p) \/ AdminStart(p)
  BY <1>1, <1>11, <1>12 DEF PlaceConvert, AdminStart
<1>13. CASE ReadStatus(p)
  <2>1. Outcome(p) \in {"done", "failed"}
    BY DEF Outcome
  <2>2. Over(p, Outcome(p)) \/ Over(p, "failed") \/ Goto(p, "saveStatus")
    BY <1>13 DEF ReadStatus
  <2>3. QED
    BY <1>2, <1>5, <2>1, <2>2 DEF PlacePcs
<1>14. CASE SelectRead(p)
  <2>1. CASE Over(p, "failed")
    BY <1>2, <2>1
  <2>2. ASSUME NEW c, Becomes(p, [r EXCEPT !.pc = "save", !.cart = c])
        PROVE  QuantityInv'
    <3>1. PICK x : x = [r EXCEPT !.pc = "save", !.cart = c]
      OBVIOUS
    <3>2. x.lines = r.lines /\ x.pc = "save"
      BY <3>1 DEF RequestRow
    <3>3. QED
      BY <1>3, <2>2, <3>1, <3>2 DEF PlacePcs
  <2>3. QED
    BY <1>1, <1>14, <2>1, <2>2 DEF SelectRead
<1>15. CASE SelectSave(p) \/ Die(p)
  BY <1>2, <1>15 DEF SelectSave, Die
<1>16. QED
  BY <1>4, <1>6, <1>7, <1>8, <1>9, <1>10, <1>12, <1>13, <1>14, <1>15
LEMMA ReadLinesKeepsWhat ==
    ASSUME Inv, QuantityInv, NEW p \in Requests,
           PrepareReadLines(p) \/ PlaceReadLines(p)
    PROVE  QuantityInv'
<1>1. PICK r \in RequestRow : r = request[p] /\ ReadsUnedited(p, r)
  BY ReadsOf
<1>2. Unedited(lines) /\ UNCHANGED <<reservations, lines, orders>>
  BY DEF QuantityInv, PrepareReadLines, PlaceReadLines, inventoryVars
<1>3. ASSUME NEW x, Becomes(p, x), x.lines = lines
      PROVE  QuantityInv'
  BY <1>2, <1>3, QuietStep DEF ReadsUnedited
<1>4. CASE Over(p, "failed")
  BY <1>2, <1>4, OverReadsNothing, QuietStep DEF Over
<1>5. CASE PrepareReadLines(p)
  <2>1. PICK y : y = [r EXCEPT !.lines = lines]
    OBVIOUS
  <2>2. y.lines = lines
    BY <2>1 DEF RequestRow
  <2>3. PICK old : old = {l \in Live(lines) : lines[l].reservation # None}
    OBVIOUS
  <2>4. \/ Over(p, "failed")
        \/ Becomes(p, ToReserve(y))
        \/ Becomes(p, [y EXCEPT !.todo = old, !.pc = "release"])
    BY <1>1, <1>5, <2>1, <2>3 DEF PrepareReadLines
  <2>5. y \in RequestRow
    BY <2>1 DEF RequestRow, Inv, TablesOK
  <2>6. ToReserve(y).lines = lines
    BY <2>2, <2>5 DEF ToReserve, RequestRow
  <2>7. [y EXCEPT !.todo = old, !.pc = "release"].lines = lines
    BY <2>2, <2>5 DEF RequestRow
  <2>8. QED
    BY <1>3, <1>4, <2>4, <2>6, <2>7
<1>6. CASE PlaceReadLines(p)
  <2>1. PICK x : x = [r EXCEPT !.lines = lines, !.pc = "quoteGift"]
    OBVIOUS
  <2>2. x.lines = lines
    BY <2>1 DEF RequestRow
  <2>3. Over(p, "failed") \/ Becomes(p, x)
    BY <1>1, <1>6, <2>1 DEF PlaceReadLines
  <2>4. QED
    BY <1>3, <1>4, <2>2, <2>3
<1>7. QED
  BY <1>5, <1>6

LEMMA PrepareReleaseKeepsWhat ==
    ASSUME Inv, QuantityInv, NEW p \in Requests, PrepareRelease(p)
    PROVE  QuantityInv'
<1>1. PICK r \in RequestRow : r = request[p] /\ ReadsUnedited(p, r)
                              /\ LocalOK(p, r, orders)
  BY ReadsOf, Knows
<1>2. p \in Prepares /\ r.pc = "release"
  BY <1>1 DEF PrepareRelease, At
<1>3. PrepareOK(r)
  BY <1>1, <1>2 DEF LocalOK
<1>4. r.todo # {} /\ r.todo \subseteq LineIds
  BY <1>2, <1>3 DEF PrepareOK, RequestRow
<1>5. PICK v : v = r.lines[First(r.todo)].reservation
  OBVIOUS
<1>6. v \in ReservationIds
  BY <1>2, <1>3, <1>4, <1>5, FirstIsOne DEF PrepareOK
<1>7. TryRelease(v)
  BY <1>1, <1>5 DEF PrepareRelease, Line
<1>8. MadeFor(reservations')
  BY <1>6, <1>7, TryReleaseKeepsWhat DEF Inv, QuantityInv
<1>9. PICK x : x = [r EXCEPT !.pc = "clear"]
  OBVIOUS
<1>10. x.lines = r.lines /\ x.pc = "clear"
  BY <1>9 DEF RequestRow
<1>11. ReadsUnedited(p, x)
  BY <1>1, <1>2, <1>10, ReadsGoOn DEF PlacePcs
<1>12. request' = [request EXCEPT ![p] = x] /\ Unedited(lines') /\ orders' = orders
  BY <1>1, <1>9 DEF PrepareRelease, Goto, Becomes, QuantityInv
<1>13. QED
  BY <1>8, <1>11, <1>12, QuantityStep

LEMMA PrepareClearKeepsWhat ==
    ASSUME Inv, QuantityInv, NEW p \in Requests, PrepareClear(p)
    PROVE  QuantityInv'
<1>1. PICK r \in RequestRow : r = request[p] /\ ReadsUnedited(p, r)
                              /\ LocalOK(p, r, orders)
  BY ReadsOf, Knows
<1>2. p \in Prepares /\ r.pc = "clear"
  BY <1>1 DEF PrepareClear, At
<1>3. PrepareOK(r)
  BY <1>1, <1>2 DEF LocalOK
<1>4. r.todo # {} /\ r.todo \subseteq LineIds /\ r.lines \in CartLines
  BY <1>2, <1>3 DEF PrepareOK, RequestRow
<1>5. PICK l \in LineIds : l = First(r.todo)
  BY <1>4, FirstIsOne
<1>6. Unedited(r.lines) /\ Unedited(lines) /\ lines \in CartLines
  BY <1>1, <1>2 DEF ReadsUnedited, QuantityInv, Inv, TablesOK
<1>7. PICK row : row = [r.lines[l] EXCEPT !.reservation = None]
  OBVIOUS
<1>8. /\ row.state = IF InitialLines[l] > 0 THEN "live" ELSE "none"
      /\ row.quantity = InitialLines[l] /\ row.reservation = None
  BY <1>4, <1>6, <1>7 DEF Unedited, CartLines, LineRow
<1>9. PICK ls : ls = [r.lines EXCEPT ![l] = row]
  OBVIOUS
<1>10. Unedited(ls)
  BY <1>4, <1>6, <1>8, <1>9 DEF Unedited, CartLines
<1>11. Unedited([lines EXCEPT ![l] = row])
  BY <1>6, <1>8 DEF Unedited, CartLines
<1>12. PICK y : y = [r EXCEPT !.lines = ls]
  OBVIOUS
<1>13. y.lines = ls /\ y = [r EXCEPT !.lines[l] = row] /\ y.todo = r.todo
  BY <1>9, <1>12 DEF RequestRow
<1>14. y \in [pc : Pcs, cart : CartRow \union {None}, lines : {ls},
              todo : SUBSET LineIds, wh : 1..Len(AllowList), held : SUBSET LineIds,
              gift : Nat, points : Nat, order : Places \union {None},
              target : Targets \union {None}, line : LineIds \union {None}]
  BY <1>12 DEF RequestRow
<1>15. PICK x : x = Next1(y, "release", "pick")
  OBVIOUS
<1>16. x.lines = ls
  BY <1>13, <1>14, <1>15 DEF Next1
<1>17. ToReserve(x).lines = ls
  BY <1>14, <1>15, <1>16 DEF Next1, ToReserve
<1>18. ASSUME NEW z, z.lines = ls PROVE ReadsUnedited(p, z)
  BY <1>10, <1>18 DEF ReadsUnedited
<1>19. \/ /\ lines' = [lines EXCEPT ![l] = row]
          /\ Becomes(p, x) \/ Becomes(p, ToReserve(x))
       \/ /\ lines' = lines
          /\ Over(p, "failed")
  BY <1>1, <1>5, <1>7, <1>13, <1>15 DEF PrepareClear, Line
<1>20. Unedited(lines')
  BY <1>6, <1>11, <1>19
<1>21. MadeFor(reservations') /\ orders' = orders
  BY DEF PrepareClear, QuantityInv, inventoryVars
<1>22. CASE Over(p, "failed")
  BY <1>20, <1>21, <1>22, OverReadsNothing, QuantityStep DEF Over, Becomes
<1>23. CASE Becomes(p, x)
  BY <1>16, <1>18, <1>20, <1>21, <1>23, QuantityStep DEF Becomes
<1>24. CASE Becomes(p, ToReserve(x))
  BY <1>17, <1>18, <1>20, <1>21, <1>24, QuantityStep DEF Becomes
<1>25. QED
  BY <1>19, <1>22, <1>23, <1>24
LEMMA PrepareReserveKeepsWhat ==
    ASSUME Inv, QuantityInv, NEW p \in Requests, PrepareReserve(p)
    PROVE  QuantityInv'
<1>1. PICK r \in RequestRow : r = request[p] /\ ReadsUnedited(p, r)
                              /\ LocalOK(p, r, orders)
  BY ReadsOf, Knows
<1>2. p \in Prepares /\ r.pc = "reserve"
  BY <1>1 DEF PrepareReserve, At
<1>3. PrepareOK(r)
  BY <1>1, <1>2 DEF LocalOK
<1>4. r.todo # {} /\ r.todo \subseteq LineIds /\ r.lines \in CartLines
  BY <1>2, <1>3 DEF PrepareOK, RequestRow
<1>5. PICK l \in LineIds : l = First(r.todo)
  BY <1>4, FirstIsOne
<1>6. Unedited(r.lines)
  BY <1>1, <1>2 DEF ReadsUnedited
<1>7. PICK q : q = r.lines[l].quantity /\ q = InitialLines[l]
  BY <1>6 DEF Unedited
<1>8. PICK i : i = <<VariantOf[l], AllowList[r.wh]>>
  OBVIOUS
<1>9. PICK v \in ReservationIds : v = <<p, l>>
  BY <1>2, StockAssumption
<1>10. UNCHANGED <<lines, orders>> /\ Unedited(lines)
  BY DEF PrepareReserve, QuantityInv
<1>11. PICK x : x = [Next1(r, "pick", "attach") EXCEPT !.wh = 1,
                         !.held = @ \union {First(r.todo)}]
  OBVIOUS
<1>12. x.lines = r.lines /\ [x EXCEPT !.todo = x.held].lines = r.lines
  BY <1>11 DEF Next1, RequestRow
<1>13. ASSUME NEW z, z.lines = r.lines PROVE ReadsUnedited(p, z)
  BY <1>6, <1>13 DEF ReadsUnedited
<1>14. CASE /\ Reserve(v, i, q)
            /\ Becomes(p, x) \/ Becomes(p, [x EXCEPT !.todo = x.held])
  <2>1. reservations \in [ReservationIds -> ReservationRow]
    BY DEF Inv, IInv, TypeOK
  <2>2. /\ reservations'[v].item = i /\ reservations'[v].quantity = q
        /\ \A w \in ReservationIds \ {v} : reservations'[w] = reservations[w]
    BY <1>14, <2>1 DEF Reserve
  <2>3. i[1] = VariantOf[l]
    BY <1>8
  <2>4. ASSUME NEW s \in Prepares, NEW k \in LineIds,
               reservations'[<<s, k>>].status # "none"
        PROVE  /\ reservations'[<<s, k>>].item[1] = VariantOf[k]
               /\ reservations'[<<s, k>>].quantity = InitialLines[k]
    <3>1. PICK w \in ReservationIds : w = <<s, k>>
      BY StockAssumption
    <3>2. CASE w = v
      BY <1>7, <1>9, <2>2, <2>3, <3>1, <3>2
    <3>3. CASE w # v
      <4>1. reservations'[w] = reservations[w]
        BY <2>2, <3>3
      <4>2. MadeFor(reservations)
        BY DEF QuantityInv
      <4>3. QED
        BY <2>4, <3>1, <4>1, <4>2 DEF MadeFor
    <3>4. QED
      BY <3>2, <3>3
  <2>5. MadeFor(reservations')
    BY <2>4 DEF MadeFor
  <2>6. CASE Becomes(p, x)
    BY <1>10, <1>12, <1>13, <2>5, <2>6, QuantityStep DEF Becomes
  <2>7. CASE Becomes(p, [x EXCEPT !.todo = x.held])
    BY <1>10, <1>12, <1>13, <2>5, <2>7, QuantityStep DEF Becomes
  <2>8. QED
    BY <1>14, <2>6, <2>7
<1>15. CASE ToRollback(p) /\ UNCHANGED inventoryVars
  <2>1. UNCHANGED <<reservations, lines, orders>>
    BY <1>10, <1>15 DEF inventoryVars
  <2>2. CASE Over(p, "failed")
    BY <2>1, <2>2, OverReadsNothing, QuietStep DEF Over
  <2>3. CASE Becomes(p, [r EXCEPT !.todo = r.held, !.pc = "rollback"])
    <3>1. [r EXCEPT !.todo = r.held, !.pc = "rollback"].lines = r.lines
      BY DEF RequestRow
    <3>2. QED
      BY <1>13, <2>1, <2>3, <3>1, QuietStep
  <2>4. QED
    BY <1>1, <1>15, <2>2, <2>3 DEF ToRollback
<1>16. Line(p) = l /\ ItemFor(p, l) = i
  BY <1>1, <1>5, <1>8 DEF Line, ItemFor
<1>17. QED
  BY <1>1, <1>5, <1>7, <1>9, <1>11, <1>14, <1>15, <1>16 DEF PrepareReserve

LEMMA PrepareRollbackKeepsWhat ==
    ASSUME Inv, QuantityInv, NEW p \in Requests, PrepareRollback(p)
    PROVE  QuantityInv'
<1>1. PICK r \in RequestRow : r = request[p] /\ ReadsUnedited(p, r)
                              /\ LocalOK(p, r, orders)
  BY ReadsOf, Knows
<1>2. p \in Prepares /\ r.pc = "rollback"
  BY <1>1 DEF PrepareRollback, At
<1>3. r.todo # {} /\ r.todo \subseteq LineIds
  BY <1>1, <1>2 DEF LocalOK, PrepareOK, RequestRow
<1>4. PICK v \in ReservationIds : v = <<p, First(r.todo)>>
  BY <1>2, <1>3, FirstIsOne, StockAssumption
<1>5. TryRelease(v)
  BY <1>1, <1>4 DEF PrepareRollback, Line
<1>6. MadeFor(reservations')
  BY <1>5, TryReleaseKeepsWhat DEF Inv, QuantityInv
<1>7. PICK x : x = Next1(r, "rollback", "failed")
  OBVIOUS
<1>8. x.pc \in {"rollback", "failed"}
  BY <1>7 DEF Next1, RequestRow
<1>9. ReadsUnedited(p, x)
  BY <1>8 DEF ReadsUnedited, PlacePcs
<1>10. Unedited(lines') /\ orders' = orders
  BY DEF PrepareRollback, QuantityInv
<1>11. Over(p, "failed") \/ Becomes(p, x)
  BY <1>1, <1>7 DEF PrepareRollback
<1>12. QED
  BY <1>6, <1>9, <1>10, <1>11, OverReadsNothing, QuantityStep DEF Over, Becomes

LEMMA PrepareAttachKeepsWhat ==
    ASSUME Inv, QuantityInv, NEW p \in Requests, PrepareAttach(p)
    PROVE  QuantityInv'
<1>1. PICK r \in RequestRow : r = request[p] /\ LocalOK(p, r, orders)
  BY Knows
<1>2. p \in Prepares /\ r.pc = "attach"
  BY <1>1 DEF PrepareAttach, At
<1>3. r.todo # {} /\ r.todo \subseteq LineIds
  BY <1>1, <1>2 DEF LocalOK, PrepareOK, RequestRow
<1>4. PICK l \in LineIds : l = First(r.todo)
  BY <1>3, FirstIsOne
<1>5. Unedited(lines) /\ lines \in CartLines
  BY DEF QuantityInv, Inv, TablesOK
<1>6. Unedited([lines EXCEPT ![l].reservation = <<p, l>>])
  BY <1>2, <1>5 DEF Unedited, CartLines, LineRow
<1>7. \/ lines' = [lines EXCEPT ![l].reservation = <<p, l>>]
      \/ lines' = lines
  BY <1>1, <1>4 DEF PrepareAttach, Line
<1>8. PICK x : x = Next1(r, "attach", "quote")
  OBVIOUS
<1>9. x.pc \in {"attach", "quote"}
  BY <1>8 DEF Next1, RequestRow
<1>10. ReadsUnedited(p, x)
  BY <1>9 DEF ReadsUnedited, PlacePcs
<1>11. Unedited(lines')
  BY <1>5, <1>6, <1>7
<1>12. /\ orders' = orders /\ MadeFor(reservations')
       /\ request' = [request EXCEPT ![p] = x]
  BY <1>1, <1>8 DEF PrepareAttach, QuantityInv, inventoryVars, Becomes
<1>13. QED
  BY <1>10, <1>11, <1>12, QuantityStep

\* A step that changes the order of placement d, but not its lines.
LEMMA OrderQuantityStep ==
    ASSUME Inv, QuantityInv, NEW p \in Requests, NEW x,
           request' = [request EXCEPT ![p] = x], ReadsUnedited(p, x),
           lines' = lines, MadeFor(reservations'),
           NEW d \in Places, NEW o, orders' = [orders EXCEPT ![d] = o],
           Unedited(o.lines)
    PROVE  QuantityInv'
  BY DEF QuantityInv, Inv, TablesOK

\* The steps of a placement that has inserted its order.
LEMMA PlacedKeepsWhat ==
    ASSUME Inv, QuantityInv, NEW p \in Requests,
           \/ PlaceInsert(p) \/ PlaceRedeemGift(p) \/ PlaceRedeemPoints(p)
           \/ PlacePay(p) \/ PlaceCommit(p)
    PROVE  QuantityInv'
<1>1. p \in Places /\ lines' = lines
  BY DEF PlaceInsert, PlaceRedeemGift, PlaceRedeemPoints, PlacePay, PlaceCommit
<1>2. PICK r \in RequestRow : /\ r = request[p] /\ ReadsUnedited(p, r)
                              /\ PlaceOK(r, orders[p])
  BY <1>1, ReadsOf, PlaceKnows
<1>3. /\ r.pc \in {"insert", "redeemGift", "redeemPoints", "pay", "commit"}
      /\ r.pc \in PlacePcs
  BY <1>2 DEF PlaceInsert, PlaceRedeemGift, PlaceRedeemPoints, PlacePay,
              PlaceCommit, At, PlacePcs
<1>4. Unedited(r.lines)
  BY <1>1, <1>2, <1>3 DEF ReadsUnedited
<1>5. ASSUME NEW x, x.lines = r.lines PROVE ReadsUnedited(p, x)
  BY <1>1, <1>4, <1>5, RequestsAssumption DEF ReadsUnedited
<1>6. MadeFor(reservations)
  BY DEF QuantityInv
<1>7. ASSUME NEW pc, Goto(p, pc)
      PROVE  \E x : request' = [request EXCEPT ![p] = x] /\ ReadsUnedited(p, x)
  <2>1. PICK x : x = [r EXCEPT !.pc = pc]
    OBVIOUS
  <2>2. x.lines = r.lines
    BY <2>1 DEF RequestRow
  <2>3. QED
    BY <1>2, <1>5, <1>7, <2>1, <2>2 DEF Goto, Becomes
<1>8. CASE PlaceInsert(p)
  <2>1. PICK o : o.lines = r.lines /\ orders' = [orders EXCEPT ![p] = o]
    <3>1. PICK o : o = [status |-> "pending", lines |-> r.lines, total |-> Total(p),
                        gift |-> r.gift, points |-> r.points, payment |-> 0,
                        giftDebit |-> 0, pointsDebit |-> 0, paid |-> FALSE,
                        consumed |-> {}]
      OBVIOUS
    <3>2. o.lines = r.lines
      BY <3>1
    <3>3. QED
      BY <1>2, <1>8, <3>1, <3>2 DEF PlaceInsert
  <2>2. MadeFor(reservations') /\ Goto(p, "redeemGift")
    BY <1>6, <1>8 DEF PlaceInsert, inventoryVars
  <2>3. QED
    BY <1>1, <1>4, <1>7, <2>1, <2>2, OrderQuantityStep
<1>9. CASE r.pc # "insert"
  <2>1. PICK old \in OrderRow : old = orders[p] /\ old.lines = r.lines
    BY <1>2, <1>3, <1>9 DEF PlaceOK
  <2>2. ASSUME NEW o, o.lines = old.lines, orders' = [orders EXCEPT ![p] = o],
               MadeFor(reservations'), NEW x, Becomes(p, x), ReadsUnedited(p, x)
        PROVE  QuantityInv'
    BY <1>1, <1>4, <2>1, <2>2, OrderQuantityStep DEF Becomes
  <2>3. ASSUME ToCancel(p), UNCHANGED orders, UNCHANGED inventoryVars
        PROVE  QuantityInv'
    <3>1. PICK x : x = [r EXCEPT !.pc = "readStatus", !.order = p,
                                 !.target = "cancelled"]
      OBVIOUS
    <3>2. x.lines = r.lines /\ Becomes(p, x)
      BY <1>2, <2>3, <3>1 DEF RequestRow, ToCancel
    <3>3. UNCHANGED <<reservations, lines, orders>>
      BY <1>1, <2>3 DEF inventoryVars
    <3>4. QED
      BY <1>5, <3>2, <3>3, QuietStep
  <2>4. CASE PlaceRedeemGift(p)
    <3>1. UNCHANGED inventoryVars /\ MadeFor(reservations')
      BY <1>6, <2>4 DEF PlaceRedeemGift, inventoryVars
    <3>2. CASE ToCancel(p) /\ UNCHANGED orders
      BY <2>3, <3>1, <3>2
    <3>3. CASE /\ orders' = [orders EXCEPT ![p].giftDebit = r.gift]
               /\ Goto(p, "redeemPoints")
      <4>1. PICK o : o = [old EXCEPT !.giftDebit = r.gift]
        OBVIOUS
      <4>2. o.lines = old.lines
        BY <4>1 DEF OrderRow
      <4>3. orders' = [orders EXCEPT ![p] = o]
        BY <1>1, <2>1, <3>3, <4>1 DEF Inv, TablesOK
      <4>4. QED
        BY <1>7, <2>2, <3>1, <3>3, <4>2, <4>3 DEF Becomes
    <3>4. QED
      BY <1>2, <2>4, <3>2, <3>3 DEF PlaceRedeemGift
  <2>5. CASE PlaceRedeemPoints(p)
    <3>1. UNCHANGED inventoryVars /\ MadeFor(reservations')
      BY <1>6, <2>5 DEF PlaceRedeemPoints, inventoryVars
    <3>2. CASE ToCancel(p) /\ UNCHANGED orders
      BY <2>3, <3>1, <3>2
    <3>3. CASE /\ orders' = [orders EXCEPT ![p].pointsDebit = r.points]
               /\ Goto(p, "pay")
      <4>1. PICK o : o = [old EXCEPT !.pointsDebit = r.points]
        OBVIOUS
      <4>2. o.lines = old.lines
        BY <4>1 DEF OrderRow
      <4>3. orders' = [orders EXCEPT ![p] = o]
        BY <1>1, <2>1, <3>3, <4>1 DEF Inv, TablesOK
      <4>4. QED
        BY <1>7, <2>2, <3>1, <3>3, <4>2, <4>3 DEF Becomes
    <3>4. QED
      BY <1>2, <2>5, <3>2, <3>3 DEF PlaceRedeemPoints
  <2>6. CASE PlacePay(p)
    <3>1. UNCHANGED inventoryVars /\ MadeFor(reservations')
      BY <1>6, <2>6 DEF PlacePay, inventoryVars
    <3>2. CASE ToCancel(p) /\ UNCHANGED orders
      BY <2>3, <3>1, <3>2
    <3>3. ASSUME NEW due, NEW todo, NEW pc,
                 orders' = [orders EXCEPT ![p].payment = due, ![p].paid = TRUE],
                 Becomes(p, [r EXCEPT !.todo = todo, !.pc = pc])
          PROVE  QuantityInv'
      <4>1. PICK o : o = [old EXCEPT !.payment = due, !.paid = TRUE]
        OBVIOUS
      <4>2. o.lines = old.lines
        BY <4>1 DEF OrderRow
      <4>3. orders' = [orders EXCEPT ![p] = o]
        BY <1>1, <2>1, <3>3, <4>1 DEF Inv, TablesOK
      <4>4. PICK x : x = [r EXCEPT !.todo = todo, !.pc = pc]
        OBVIOUS
      <4>5. x.lines = r.lines
        BY <4>4 DEF RequestRow
      <4>6. QED
        BY <1>5, <2>2, <3>1, <3>3, <4>2, <4>3, <4>4, <4>5
    <3>4. QED
      BY <1>2, <2>6, <3>2, <3>3 DEF PlacePay
  <2>7. CASE PlaceCommit(p)
    <3>1. r.pc = "commit"
      BY <1>2, <2>7 DEF PlaceCommit, At
    <3>2. r.todo # {} /\ r.todo \subseteq LineIds /\ r.todo \subseteq PhysicalLines(r.lines)
      BY <1>2, <2>1, <3>1 DEF PlaceOK, RequestRow
    <3>3. PICK v \in ReservationIds : v = r.lines[Line(p)].reservation
      BY <1>2, <1>3, <3>2, FirstIsOne DEF PlaceOK, Line
    <3>4. CASE Over(p, "failed") /\ UNCHANGED <<inventoryVars, orders>>
      <4>1. UNCHANGED <<reservations, lines, orders>>
        BY <1>1, <3>4 DEF inventoryVars
      <4>2. QED
        BY <3>4, <4>1, OverReadsNothing, QuietStep DEF Over
    <3>5. CASE /\ Commit(v)
               /\ orders' = [orders EXCEPT ![p].consumed = @ \union {v}]
               /\ Becomes(p, Next1(r, "commit", "convert"))
      <4>1. MadeFor(reservations')
        BY <1>6, <3>5, SettlingKeepsWhat DEF Inv
      <4>2. PICK o : o = [old EXCEPT !.consumed = old.consumed \union {v}]
        OBVIOUS
      <4>3. o.lines = old.lines
        BY <4>2 DEF OrderRow
      <4>4. orders' = [orders EXCEPT ![p] = o]
        BY <1>1, <2>1, <3>5, <4>2 DEF Inv, TablesOK
      <4>5. Next1(r, "commit", "convert").lines = r.lines
        BY DEF Next1, RequestRow
      <4>6. QED
        BY <1>5, <2>2, <3>5, <4>1, <4>3, <4>4, <4>5
    <3>6. QED
      BY <1>2, <2>7, <3>3, <3>4, <3>5 DEF PlaceCommit
  <2>8. CASE PlaceInsert(p)
    BY <1>2, <1>9, <2>8 DEF PlaceInsert, At
  <2>9. QED
    BY <2>4, <2>5, <2>6, <2>7, <2>8
<1>10. QED
  BY <1>2, <1>3, <1>8, <1>9
     DEF PlaceInsert, PlaceRedeemGift, PlaceRedeemPoints, PlacePay, PlaceCommit, At
LEMMA SaveStatusKeepsWhat ==
    ASSUME Inv, QuantityInv, NEW p \in Requests, SaveStatus(p)
    PROVE  QuantityInv'
<1>1. PICK d \in Places : d = request[p].order /\ orders[d] # NoOrder
  BY Knows DEF SaveStatus, At, LocalOK, StatusOK
<1>2. PICK old \in OrderRow : old = orders[d]
  BY <1>1 DEF Inv, TablesOK
<1>3. PICK o : o = [old EXCEPT !.status = request[p].target]
  OBVIOUS
<1>4. o.lines = old.lines
  BY <1>3 DEF OrderRow
<1>5. orders' = [orders EXCEPT ![d] = o]
  BY <1>1, <1>2, <1>3 DEF SaveStatus, Inv, TablesOK
<1>6. Unedited(o.lines)
  BY <1>1, <1>2, <1>4 DEF QuantityInv
<1>7. PICK how \in {"done", "failed"} : how = Outcome(p)
  BY DEF Outcome
<1>8. ReadsUnedited(p, [Blank EXCEPT !.pc = how])
  BY OverReadsNothing
<1>9. /\ request' = [request EXCEPT ![p] = [Blank EXCEPT !.pc = how]]
      /\ lines' = lines /\ MadeFor(reservations')
  BY <1>7 DEF SaveStatus, Over, Becomes, QuantityInv, inventoryVars
<1>10. QED
  BY <1>5, <1>6, <1>8, <1>9, OrderQuantityStep

LEMMA QuantitiesKeep ==
    ASSUME Edits = {}, Inv, QuantityInv, [CheckoutNext]_checkoutVars
    PROVE  QuantityInv'
<1>1. CASE CheckoutNext
  <2>1. PICK p \in Requests :
            \/ ReadCart(p) \/ Prepare(p) \/ Place(p)
            \/ AdminStart(p) \/ ReadStatus(p) \/ SaveStatus(p) \/ Edit(p)
            \/ SelectRead(p) \/ SelectSave(p) \/ Die(p)
    BY <1>1 DEF CheckoutNext
  <2>2. CASE \/ ReadCart(p) \/ AdminStart(p) \/ ReadStatus(p)
             \/ SelectRead(p) \/ SelectSave(p) \/ Die(p)
    <3>1. UNCHANGED <<reservations, lines, orders>>
      BY <2>2 DEF ReadCart, AdminStart, ReadStatus, SelectRead, SelectSave, Die,
                  inventoryVars
    <3>2. QED
      BY <2>2, <3>1, MovesOn
  <2>3. CASE Prepare(p)
    <3>1. PreparePick(p) \/ PrepareQuote(p) \/ PrepareLock(p) =>
              UNCHANGED <<reservations, lines, orders>>
      BY DEF PreparePick, PrepareQuote, PrepareLock, inventoryVars
    <3>2. QED
      BY <2>3, <3>1, MovesOn, ReadLinesKeepsWhat, PrepareReleaseKeepsWhat,
         PrepareClearKeepsWhat, PrepareReserveKeepsWhat,
         PrepareRollbackKeepsWhat, PrepareAttachKeepsWhat DEF Prepare
  <2>4. CASE Place(p)
    <3>1. PlaceQuoteGift(p) \/ PlaceQuotePoints(p) \/ PlaceConvert(p) =>
              UNCHANGED <<reservations, lines, orders>>
      BY DEF PlaceQuoteGift, PlaceQuotePoints, PlaceConvert, inventoryVars
    <3>2. QED
      BY <2>4, <3>1, MovesOn, ReadLinesKeepsWhat, PlacedKeepsWhat DEF Place
  <2>5. ~ Edit(p)
    BY DEF Edit, EditReadLine, EditRequireOpen, EditAddStart, EditFindLine, EditWrite
  <2>6. QED
    BY <2>1, <2>2, <2>3, <2>4, <2>5, SaveStatusKeepsWhat
<1>2. CASE UNCHANGED checkoutVars
  BY <1>2 DEF checkoutVars, inventoryVars, QuantityInv
<1>3. QED
  BY <1>1, <1>2

LEMMA InitialQuantities == CheckoutInit => QuantityInv
<1> SUFFICES ASSUME CheckoutInit PROVE QuantityInv
  OBVIOUS
<1>1. Unedited(lines)
  BY DEF CheckoutInit, Unedited
<1>2. ASSUME NEW p \in Requests PROVE ReadsUnedited(p, request[p])
  BY DEF CheckoutInit, ReadsUnedited, Blank, PlacePcs
<1>3. MadeFor(reservations)
  <2>1. ASSUME NEW q \in Prepares, NEW l \in LineIds
        PROVE  reservations[<<q, l>>].status = "none"
    BY StockAssumption DEF CheckoutInit
  <2>2. QED
    BY <2>1 DEF MadeFor
<1>4. QED
  BY <1>1, <1>2, <1>3 DEF CheckoutInit, QuantityInv

\* FulfillmentService.ship relies on it: "Stock on-hand was already deducted at
\* placeOrder (reservation commit)".  As long as nobody edits the lines of the
\* cart, the stock deducted for a completed order is what it orders, line by
\* line, however prepares and placements interleave.  Without the hypothesis it
\* is false, as the run checkout_quantity shows.
THEOREM UneditedCartsDeductWhatTheyOrder ==
    ASSUME Edits = {}
    PROVE  CheckoutSpec => []OrderedQuantityDeducted
<1>1. Inv /\ QuantityInv => OrderedQuantityDeducted
  <2> SUFFICES ASSUME Inv, QuantityInv, NEW p \in Completed,
                      NEW l \in PhysicalLines(orders[p].lines)
               PROVE  \E r \in orders[p].consumed :
                          /\ reservations[r].item[1] = VariantOf[l]
                          /\ reservations[r].quantity = orders[p].lines[l].quantity
    BY DEF OrderedQuantityDeducted
  <2>1. p \in Places /\ request[p].pc = "done"
    BY DEF Completed, At
  <2>2. PICK o \in OrderRow : o = orders[p] /\ o # NoOrder /\ Deducted(o)
    BY <2>1, PlaceKnows, OrdersAreOrders DEF PlaceOK, Complete
  <2>3. l \in LineIds
    BY DEF PhysicalLines, Live
  <2>4. PICK r : r = o.lines[l].reservation /\ r \in o.consumed
    BY <2>2 DEF Deducted
  <2>5. r \in ReservationIds /\ reservations[r].status = "committed"
    BY <2>1, <2>2, <2>4 DEF OrderRow, Inv, StockOK, Placed
  <2>6. Unedited(o.lines)
    BY <2>1, <2>2 DEF QuantityInv
  <2>7. o.lines[l].quantity = InitialLines[l] /\ r \in Prepares \X {l}
    BY <2>3, <2>4, <2>5, <2>6, NoneAssumption DEF Unedited
  <2>8. PICK q \in Prepares : r = <<q, l>>
    BY <2>7
  <2>9. /\ reservations[r].item[1] = VariantOf[l]
        /\ reservations[r].quantity = InitialLines[l]
    BY <2>3, <2>5, <2>8 DEF QuantityInv, MadeFor
  <2>10. QED
    BY <2>2, <2>4, <2>7, <2>9
<1>2. Inv /\ QuantityInv /\ [CheckoutNext]_checkoutVars => QuantityInv'
  BY QuantitiesKeep
<1>3. CheckoutSpec => []QuantityInv
  BY <1>2, InitialQuantities, CheckoutInvariant, PTL DEF CheckoutSpec
<1>4. QED
  BY <1>1, <1>3, CheckoutInvariant, PTL
-----------------------------------------------------------------------------
(***************************************************************************)
(* The inventory, as checkout uses it                                      *)
(***************************************************************************)

LEMMA TryReleaseIsAStep ==
    ASSUME NEW r \in ReservationIds \union {None}, TryRelease(r)
    PROVE  [Next]_inventoryVars
  BY DEF TryRelease, Next, ReservationNext

LEMMA CheckoutStepsAreSteps ==
    ASSUME Inv, [CheckoutNext]_checkoutVars
    PROVE  [Next]_inventoryVars
<1>1. CASE UNCHANGED inventoryVars
  BY <1>1
<1>2. CASE UNCHANGED checkoutVars
  BY <1>2 DEF checkoutVars
<1>3. CASE CheckoutNext
  <2>1. PICK p \in Requests :
            \/ ReadCart(p) \/ Prepare(p) \/ Place(p)
            \/ AdminStart(p) \/ ReadStatus(p) \/ SaveStatus(p) \/ Edit(p)
            \/ SelectRead(p) \/ SelectSave(p) \/ Die(p)
    BY <1>3 DEF CheckoutNext
  <2>2. PICK r \in RequestRow : r = request[p] /\ LocalOK(p, r, orders)
    BY Knows
  <2>3. CASE PrepareRelease(p)
    <3>1. p \in Prepares /\ r.pc = "release" /\ TryRelease(r.lines[First(r.todo)].reservation)
      BY <2>2, <2>3 DEF PrepareRelease, At, Line
    <3>2. r.todo # {} /\ r.todo \subseteq LineIds
      BY <2>2, <3>1 DEF LocalOK, PrepareOK, RequestRow
    <3>3. r.lines[First(r.todo)].reservation \in ReservationIds
      BY <2>2, <3>1, <3>2, FirstIsOne DEF LocalOK, PrepareOK
    <3>4. QED
      BY <3>1, <3>3, TryReleaseIsAStep
  <2>4. CASE PrepareRollback(p)
    <3>1. p \in Prepares /\ r.pc = "rollback" /\ TryRelease(<<p, First(r.todo)>>)
      BY <2>2, <2>4 DEF PrepareRollback, At, Line
    <3>2. r.todo # {} /\ r.todo \subseteq LineIds
      BY <2>2, <3>1 DEF LocalOK, PrepareOK, RequestRow
    <3>3. <<p, First(r.todo)>> \in ReservationIds
      BY <3>1, <3>2, FirstIsOne, StockAssumption
    <3>4. QED
      BY <3>1, <3>3, TryReleaseIsAStep
  <2>5. CASE PrepareReserve(p)
    <3>1. p \in Prepares /\ r.pc = "reserve"
      BY <2>2, <2>5 DEF PrepareReserve, At
    <3>2. r.todo # {} /\ r.todo \subseteq LineIds /\ r.lines \in CartLines
          /\ r.todo \subseteq Live(r.lines)
      BY <2>2, <3>1 DEF LocalOK, PrepareOK, RequestRow
    <3>3. PICK l \in LineIds : l = First(r.todo) /\ l \in Live(r.lines)
      BY <3>2, FirstIsOne
    <3>4. PICK q \in Quantity : q = r.lines[l].quantity
      BY <3>2, <3>3, MaxIntAssumption DEF CartLines, LineRow, Live, Quantity
    <3>5. PICK i \in Items : i = <<VariantOf[l], AllowList[r.wh]>>
      BY ItemsAreItems DEF RequestRow
    <3>6. PICK v \in ReservationIds : v = <<p, l>>
      BY <3>1, StockAssumption
    <3>7. Reserve(v, i, q) \/ UNCHANGED inventoryVars
      BY <2>2, <2>5, <3>3, <3>4, <3>5, <3>6 DEF PrepareReserve, Line, ItemFor
    <3>8. QED
      BY <3>7 DEF Next, ReservationNext
  <2>6. CASE PlaceCommit(p)
    <3>1. p \in Places /\ r.pc = "commit" /\ PlaceOK(r, orders[p])
      BY <2>2, <2>6 DEF PlaceCommit, At, LocalOK
    <3>2. r.todo # {} /\ r.todo \subseteq LineIds /\ r.todo \subseteq PhysicalLines(r.lines)
      BY <3>1 DEF PlaceOK, RequestRow
    <3>3. PICK v \in ReservationIds : v = r.lines[First(r.todo)].reservation
      BY <3>1, <3>2, FirstIsOne DEF PlaceOK, PlacePcs
    <3>4. Commit(v) \/ UNCHANGED inventoryVars
      BY <2>2, <2>6, <3>3 DEF PlaceCommit, Line
    <3>5. QED
      BY <3>4 DEF Next, ReservationNext
  <2>7. CASE \/ ReadCart(p) \/ AdminStart(p) \/ ReadStatus(p) \/ SaveStatus(p)
             \/ Edit(p) \/ SelectRead(p) \/ SelectSave(p) \/ Die(p)
    BY <2>7 DEF ReadCart, AdminStart, ReadStatus, SaveStatus, SelectRead,
       SelectSave, Die, Edit, EditReadLine, EditRequireOpen, EditAddStart,
       EditFindLine, EditWrite
  <2>8. CASE \/ PrepareReadLines(p) \/ PrepareClear(p) \/ PreparePick(p)
             \/ PrepareAttach(p) \/ PrepareQuote(p) \/ PrepareLock(p)
    BY <2>8 DEF PrepareReadLines, PrepareClear, PreparePick, PrepareAttach,
       PrepareQuote, PrepareLock
  <2>9. CASE \/ PlaceReadLines(p) \/ PlaceQuoteGift(p) \/ PlaceQuotePoints(p)
             \/ PlaceInsert(p) \/ PlaceRedeemGift(p) \/ PlaceRedeemPoints(p)
             \/ PlacePay(p) \/ PlaceConvert(p)
    BY <2>9 DEF PlaceReadLines, PlaceQuoteGift, PlaceQuotePoints, PlaceInsert,
       PlaceRedeemGift, PlaceRedeemPoints, PlacePay, PlaceConvert
  <2>10. QED
    BY <2>1, <2>3, <2>4, <2>5, <2>6, <2>7, <2>8, <2>9 DEF Prepare, Place
<1>4. QED
  BY <1>2, <1>3

\* Whatever requests do to the inventory, they do through InventoryService: each
\* step of checkout is a step of Inventory, or leaves it alone.
THEOREM CheckoutStepsTheInventory == CheckoutSpec => [][Next]_inventoryVars
<1>1. QED
  BY CheckoutStepsAreSteps, CheckoutInvariant, PTL DEF CheckoutSpec

\* A reservation that prepare made can be honoured by placeOrder: its stock is on
\* hand until it is settled, so that InventoryService.commit refuses it only when
\* it is settled already, never for want of stock.
THEOREM CheckoutReservesWhatIsThere == CheckoutSpec => []ReservedStockIsOnHand
<1>1. Inv => ReservedStockIsOnHand
  BY ReservedWithinStock DEF Inv
<1>2. QED
  BY <1>1, CheckoutInvariant, PTL

\* The carts, lines and wallets keep their types, and no balance exceeds what the
\* wallet held at the start.
THEOREM CheckoutKeepsTypes == CheckoutSpec => []CheckoutTypeOK
<1>1. Inv => CheckoutTypeOK
  <2> SUFFICES ASSUME Inv PROVE CheckoutTypeOK
    OBVIOUS
  <2>1. TypeOK /\ cart \in CartRow /\ lines \in [LineIds -> LineRow]
    BY DEF Inv, IInv, TablesOK, CartLines
  <2>2. SumOf(GiftDebits(orders)) \in Nat /\ SumOf(PointsDebits(orders)) \in Nat
    BY DebitsAreNat, SumIsNat, WalletsAssumption DEF Inv, TablesOK, Orders
  <2>3. giftBalance \in 0..GiftCredit /\ pointsBalance \in 0..Points
    BY <2>2, WalletsAssumption DEF Inv, TablesOK, WalletsOK
  <2>4. QED
    BY <2>1, <2>3 DEF CheckoutTypeOK
<1>2. QED
  BY <1>1, CheckoutInvariant, PTL
=============================================================================
