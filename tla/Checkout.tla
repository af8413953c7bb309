------------------------------ MODULE Checkout ------------------------------
(***************************************************************************)
(* One B2C cart on its way to orders: CartService's edits and selections,  *)
(* CheckoutService.prepare, OrdersService.placeOrder and updateStatus.     *)
(*                                                                         *)
(* Unlike the inventory's, these handlers run in no transaction.  Each     *)
(* statement is a step of its own, on rows read earlier, and repository    *)
(* .save() writes the whole row back, stale columns included.  The         *)
(* requests below run concurrently; each may also die between two of its   *)
(* steps (a crash, a lost database).  The inventory's transactions are     *)
(* single steps, the actions of Inventory (InventoryTx justifies that), as *)
(* are the locked redemptions of gift cards and loyalty points.            *)
(*                                                                         *)
(* Every unit costs 1; promotions, taxes and shipping, functions of the    *)
(* cart and of its lines, add nothing.                                     *)
(***************************************************************************)
EXTENDS Inventory, Sequences

CONSTANTS
    LineIds,            \* primary keys of cart_lines
    CreatedAt,          \* when each line was created
    VariantOf,          \* the variant of each line
    Physical,           \* variants that are stocked, not digital or a service
    AllowList,          \* the store's warehouses, the primary one first
    Prepares, Places, Edits, Selections, Admins,   \* the requests, by kind
    ZeroPaid,           \* the placements with payment method 'zero'
    InitialCart,        \* the cart at the start
    InitialLines,       \* quantities of the lines the cart starts with
    InitialStock,       \* quantities on hand at the start, by item
    GiftCredit,         \* balance of the gift card
    Points,             \* balance of the loyalty account
    PointsAsked,        \* loyalty points a selection may ask for
    MaxQuantity,        \* largest quantity an edit asks for
    None

ASSUME LinesAssumption ==
    /\ IsFiniteSet(LineIds)
    /\ VariantOf \in [LineIds -> Variants]
    /\ CreatedAt \in [LineIds -> Nat]
    /\ InitialLines \in [LineIds -> 0..MaxInt]
    /\ MaxQuantity \in 0..MaxInt

ASSUME StockAssumption ==
    /\ ReservationIds = Prepares \X LineIds
    /\ AllowList \in Seq(Warehouses) /\ AllowList # << >>
    /\ InitialStock \in [Items -> 0..MaxInt]

ASSUME WalletsAssumption ==
    /\ IsFiniteSet(Places)
    /\ GiftCredit \in Nat /\ Points \in Nat
    /\ PointsAsked \subseteq Nat

\* Every request is of one kind.
ASSUME RequestsAssumption ==
    /\ Places \intersect (Prepares \union Edits \union Selections \union Admins) = {}
    /\ Prepares \intersect (Edits \union Selections \union Admins) = {}
    /\ Edits \intersect (Selections \union Admins) = {}
    /\ Selections \intersect Admins = {}

ASSUME NoneAssumption == None \notin ReservationIds

VARIABLES
    cart,               \* the carts row
    lines,              \* the cart_lines rows
    giftBalance,        \* gift_cards.balance_minor
    pointsBalance,      \* loyalty_accounts.points_balance
    orders,             \* the order each placement inserts
    request             \* how far each request is, and what it has read

checkoutVars == <<inventoryVars, cart, lines, giftBalance, pointsBalance,
                  orders, request>>

Requests == Prepares \union Places \union Edits \union Selections \union Admins

MinOf(a, b) == IF a < b THEN a ELSE b

\* The sum of a function's values, natural numbers, counted unit by unit.
SumOf(q) == Cardinality(UNION {{s} \X (1..q[s]) : s \in DOMAIN q})

-----------------------------------------------------------------------------
(***************************************************************************)
(* Tables                                                                  *)
(***************************************************************************)

CartRow == [status : {"open", "locked", "converted"}, gift : BOOLEAN,
            points : PointsAsked]

ASSUME CartAssumption == InitialCart \in CartRow /\ InitialCart.status = "open"

LineRow == [state : {"none", "live", "deleted"}, quantity : 0..MaxInt,
            reservation : ReservationIds \union {None}]

Live(ls) == {l \in LineIds : ls[l].state = "live"}

\* Loops visit lines in order of creation.
First(L) == CHOOSE l \in L : \A k \in L : CreatedAt[l] <= CreatedAt[k]

PhysicalLines(ls) == {l \in Live(ls) : VariantOf[l] \in Physical}

\* lineSubtotalMinor
Subtotal(ls) ==
    SumOf([l \in LineIds |-> IF l \in Live(ls) THEN ls[l].quantity ELSE 0])

\* The unique (cart, variant) key accepts line l as a live row.
UniqueVariant(l) ==
    \A k \in Live(lines) \ {l} : VariantOf[k] # VariantOf[l]

\* The pairs ORDER_STATUS_TRANSITIONS allows; draft and approved are B2B.
CanTransition(from, to) ==
    <<from, to>> \in {<<"pending", "confirmed">>, <<"pending", "cancelled">>,
                      <<"confirmed", "fulfilled">>,
                      <<"confirmed", "cancelled">>}

NoOrder == [status |-> "none"]

\* What a request has read so far, cleared when it is over.
Blank == [pc |-> "start", cart |-> None, lines |-> None, todo |-> {},
          wh |-> 1, held |-> {}, gift |-> 0, points |-> 0, order |-> None,
          target |-> None, line |-> None]

CheckoutInit ==
    /\ rows = {i \in Items : InitialStock[i] > 0}
    /\ onHand = InitialStock
    /\ reserved = [i \in Items |-> 0]
    /\ reservations = [r \in ReservationIds |-> [status |-> "none"]]
    /\ transfers = [t \in TransferIds |-> [status |-> "none"]]
    /\ adjustments = [i \in Items |-> [manual |-> 0, transfer |-> 0]]
    /\ opening = InitialStock
    /\ cart = InitialCart
    /\ lines = [l \in LineIds |->
           [state |-> IF InitialLines[l] > 0 THEN "live" ELSE "none",
            quantity |-> InitialLines[l], reservation |-> None]]
    /\ giftBalance = GiftCredit
    /\ pointsBalance = Points
    /\ orders = [p \in Places |-> NoOrder]
    /\ request = [p \in Requests |-> Blank]

\* Request p goes on with new local state, or is over.
Becomes(p, r) == request' = [request EXCEPT ![p] = r]
Goto(p, pc) == Becomes(p, [request[p] EXCEPT !.pc = pc])
Over(p, how) == Becomes(p, [Blank EXCEPT !.pc = how])

At(p, pc) == request[p].pc = pc

walletVars == <<giftBalance, pointsBalance>>

\* The first of the lines a loop has yet to visit, and the request after it.
Line(p) == First(request[p].todo)
Next1(r, again, next) ==
    LET rest == r.todo \ {First(r.todo)}
    IN  [r EXCEPT !.todo = rest, !.pc = IF rest = {} THEN next ELSE again]

\* inventory.release(r), its exception swallowed by the caller.
TryRelease(r) ==
    IF r # None /\ reservations[r].status = "active"
    THEN Release(r)
    ELSE UNCHANGED inventoryVars

-----------------------------------------------------------------------------
(***************************************************************************)
(* CheckoutService.prepare                                                 *)
(***************************************************************************)

\* getEntityWithLines reads the cart, then its lines: prepare and placeOrder
\* both start with it.
ReadCart(p) ==
    /\ p \in Prepares \union Places /\ At(p, "start")
    /\ Becomes(p, [request[p] EXCEPT !.pc = "lines", !.cart = cart])
    /\ UNCHANGED <<inventoryVars, cart, lines, walletVars, orders>>

\* Where prepare goes once the old reservations are released: it reserves the
\* physical lines, if there are any, and quotes.
ToReserve(r) ==
    LET todo == PhysicalLines(r.lines)
    IN  [r EXCEPT !.todo = todo, !.pc = IF todo = {} THEN "quote" ELSE "pick"]

PrepareReadLines(p) ==
    /\ p \in Prepares /\ At(p, "lines")
    /\ IF request[p].cart.status = "converted" \/ Live(lines) = {}
       THEN Over(p, "failed")
       ELSE LET r == [request[p] EXCEPT !.lines = lines]
                old == {l \in Live(lines) : lines[l].reservation # None}
            IN  Becomes(p, IF old = {}
                           THEN ToReserve(r)
                           ELSE [r EXCEPT !.todo = old, !.pc = "release"])
    /\ UNCHANGED <<inventoryVars, cart, lines, walletVars, orders>>

\* A line's prior reservation is released...
PrepareRelease(p) ==
    /\ p \in Prepares /\ At(p, "release")
    /\ TryRelease(request[p].lines[Line(p)].reservation)
    /\ Goto(p, "clear")
    /\ UNCHANGED <<cart, lines, walletVars, orders>>

\* ...and the line, as it was read, is saved without it.  Saving a row that was
\* deleted inserts it again, unless the unique key rejects it.
PrepareClear(p) ==
    LET l == Line(p)
        row == [request[p].lines[l] EXCEPT !.reservation = None]
        r == Next1([request[p] EXCEPT !.lines[l] = row], "release", "pick")
    IN  /\ p \in Prepares /\ At(p, "clear")
        /\ IF UniqueVariant(l)
           THEN /\ lines' = [lines EXCEPT ![l] = row]
                /\ Becomes(p, IF r.pc = "pick" THEN ToReserve(r) ELSE r)
           ELSE /\ Over(p, "failed")
                /\ UNCHANGED lines
        /\ UNCHANGED <<inventoryVars, cart, walletVars, orders>>

\* The item of a line in the warehouse prepare is looking at.
ItemFor(p, l) == <<VariantOf[l], AllowList[request[p].wh]>>

\* Some line cannot be reserved: undo the reservations made so far.
ToRollback(p) ==
    IF request[p].held = {}
    THEN Over(p, "failed")
    ELSE Becomes(p, [request[p] EXCEPT !.todo = request[p].held, !.pc = "rollback"])

\* reserveForStore looks, without a lock, for a warehouse with enough stock...
PreparePick(p) ==
    LET l == Line(p)
        i == ItemFor(p, l)
    IN  /\ p \in Prepares /\ At(p, "pick")
        /\ IF i \in rows /\ request[p].lines[l].quantity <= Available(i)
           THEN Goto(p, "reserve")
           ELSE IF request[p].wh < Len(AllowList)
           THEN Becomes(p, [request[p] EXCEPT !.wh = @ + 1])
           ELSE ToRollback(p)
        /\ UNCHANGED <<inventoryVars, cart, lines, walletVars, orders>>

\* Wrong on purpose: one unit is reserved, whatever the line's quantity.
ReserveOneUnit(p) ==
    LET l == Line(p)
        i == ItemFor(p, l)
        r == [Next1(request[p], "pick", "attach") EXCEPT
                 !.wh = 1, !.held = @ \union {l}]
    IN  /\ p \in Prepares /\ At(p, "reserve")
        /\ IF i \in rows /\ 1 <= Available(i)
           THEN /\ Reserve(<<p, l>>, i, 1)
                /\ Becomes(p, IF r.pc = "attach"
                              THEN [r EXCEPT !.todo = r.held]
                              ELSE r)
           ELSE /\ ToRollback(p)
                /\ UNCHANGED inventoryVars
        /\ UNCHANGED <<cart, lines, walletVars, orders>>

\* ...and reserves there, or fails when the stock is gone by now.
PrepareReserve(p) ==
    LET l == Line(p)
        i == ItemFor(p, l)
        q == request[p].lines[l].quantity
        r == [Next1(request[p], "pick", "attach") EXCEPT
                 !.wh = 1, !.held = @ \union {l}]
    IN  /\ p \in Prepares /\ At(p, "reserve")
        /\ IF i \in rows /\ q <= Available(i)
           THEN /\ Reserve(<<p, l>>, i, q)
                /\ Becomes(p, IF r.pc = "attach"
                              THEN [r EXCEPT !.todo = r.held]
                              ELSE r)
           ELSE /\ ToRollback(p)
                /\ UNCHANGED inventoryVars
        /\ UNCHANGED <<cart, lines, walletVars, orders>>

PrepareRollback(p) ==
    LET r == Next1(request[p], "rollback", "failed")
    IN  /\ p \in Prepares /\ At(p, "rollback")
        /\ TryRelease(<<p, Line(p)>>)
        /\ IF r.pc = "failed" THEN Over(p, "failed") ELSE Becomes(p, r)
        /\ UNCHANGED <<cart, lines, walletVars, orders>>

\* attachReservations: an UPDATE of one column, which misses a deleted row.
PrepareAttach(p) ==
    LET l == Line(p)
    IN  /\ p \in Prepares /\ At(p, "attach")
        /\ lines' = IF l \in Live(lines)
                    THEN [lines EXCEPT ![l].reservation = <<p, l>>]
                    ELSE lines
        /\ Becomes(p, Next1(request[p], "attach", "quote"))
        /\ UNCHANGED <<inventoryVars, cart, walletVars, orders>>

\* A gift card without balance is depleted and its quote throws; the quotes
\* change nothing that placeOrder uses.
PrepareQuote(p) ==
    /\ p \in Prepares /\ At(p, "quote")
    /\ IF request[p].cart.gift /\ giftBalance = 0
       THEN Over(p, "failed")
       ELSE Goto(p, "lock")
    /\ UNCHANGED <<inventoryVars, cart, lines, walletVars, orders>>

PrepareLock(p) ==
    /\ p \in Prepares /\ At(p, "lock")
    /\ cart' = [cart EXCEPT !.status = "locked"]
    /\ Over(p, "done")
    /\ UNCHANGED <<inventoryVars, lines, walletVars, orders>>

-----------------------------------------------------------------------------
(***************************************************************************)
(* OrdersService.placeOrder                                                *)
(***************************************************************************)

PlaceReadLines(p) ==
    /\ p \in Places /\ At(p, "lines")
    /\ IF \/ request[p].cart.status # "locked"
          \/ Live(lines) = {}
          \/ \E l \in PhysicalLines(lines) : lines[l].reservation = None
       THEN Over(p, "failed")
       ELSE Becomes(p, [request[p] EXCEPT !.lines = lines, !.pc = "quoteGift"])
    /\ UNCHANGED <<inventoryVars, cart, lines, walletVars, orders>>

\* What the order costs before gift card and points.
Total(p) == Subtotal(request[p].lines)

PlaceQuoteGift(p) ==
    /\ p \in Places /\ At(p, "quoteGift")
    /\ IF ~request[p].cart.gift
       THEN Goto(p, "quotePoints")
       ELSE IF giftBalance = 0
       THEN Over(p, "failed")
       ELSE Becomes(p, [request[p] EXCEPT !.pc = "quotePoints",
                           !.gift = MinOf(giftBalance, Total(p))])
    /\ UNCHANGED <<inventoryVars, cart, lines, walletVars, orders>>

\* Wrong on purpose: the points are capped by the total before the gift card.
QuotePointsOnTotal(p) ==
    LET quote == MinOf(MinOf(request[p].cart.points, pointsBalance), Total(p))
    IN  /\ p \in Places \ ZeroPaid /\ At(p, "quotePoints")
        /\ Becomes(p, [request[p] EXCEPT !.pc = "insert", !.points = quote])
        /\ UNCHANGED <<inventoryVars, cart, lines, walletVars, orders>>

\* LoyaltyService.quoteRedeem caps the points by the balance and by what the
\* gift card leaves to pay; 'zero' then wants nothing left.
PlaceQuotePoints(p) ==
    LET quote == MinOf(MinOf(request[p].cart.points, pointsBalance),
                       Total(p) - request[p].gift)
        due == Total(p) - request[p].gift - quote
    IN  /\ p \in Places /\ At(p, "quotePoints")
        /\ IF p \in ZeroPaid /\ due # 0
           THEN Over(p, "failed")
           ELSE Becomes(p, [request[p] EXCEPT !.pc = "insert",
                               !.points = quote])
        /\ UNCHANGED <<inventoryVars, cart, lines, walletVars, orders>>

\* Wrong on purpose: the order lines are read again when they are inserted.
InsertCurrentLines(p) ==
    /\ p \in Places /\ At(p, "insert")
    /\ orders' = [orders EXCEPT ![p] =
           [status |-> "pending", lines |-> lines, total |-> Total(p),
            gift |-> request[p].gift, points |-> request[p].points,
            payment |-> 0, giftDebit |-> 0, pointsDebit |-> 0,
            paid |-> FALSE, consumed |-> {}]]
    /\ Goto(p, "redeemGift")
    /\ UNCHANGED <<inventoryVars, cart, lines, walletVars>>

\* The order and its lines are inserted as they were read.  payment is what
\* PaymentEngine takes, giftDebit and pointsDebit what the wallets lost to the
\* order, consumed the reservations committed for it.
PlaceInsert(p) ==
    /\ p \in Places /\ At(p, "insert")
    /\ orders' = [orders EXCEPT ![p] =
           [status |-> "pending",
            lines |-> request[p].lines,
            total |-> Total(p), gift |-> request[p].gift,
            points |-> request[p].points,
            payment |-> 0, giftDebit |-> 0, pointsDebit |-> 0,
            paid |-> FALSE, consumed |-> {}]]
    /\ Goto(p, "redeemGift")
    /\ UNCHANGED <<inventoryVars, cart, lines, walletVars>>

\* The step failed: placeOrder cancels the order and throws.
ToCancel(p) ==
    Becomes(p, [request[p] EXCEPT !.pc = "readStatus", !.order = p,
                                  !.target = "cancelled"])

\* Wrong on purpose: redeem debits what was quoted, as far as there is credit.
RedeemGiftClamped(p) ==
    /\ p \in Places /\ At(p, "redeemGift")
    /\ giftBalance' = IF request[p].gift > giftBalance
                      THEN 0 ELSE giftBalance - request[p].gift
    /\ orders' = [orders EXCEPT ![p].giftDebit = request[p].gift]
    /\ Goto(p, "redeemPoints")
    /\ UNCHANGED <<inventoryVars, cart, lines, pointsBalance>>

\* GiftCardsService.redeem checks the balance again, under a lock.
PlaceRedeemGift(p) ==
    /\ p \in Places /\ At(p, "redeemGift")
    /\ IF request[p].gift <= giftBalance
       THEN /\ giftBalance' = giftBalance - request[p].gift
            /\ orders' = [orders EXCEPT ![p].giftDebit = request[p].gift]
            /\ Goto(p, "redeemPoints")
       ELSE /\ ToCancel(p)
            /\ UNCHANGED <<giftBalance, orders>>
    /\ UNCHANGED <<inventoryVars, cart, lines, pointsBalance>>

\* Wrong on purpose: the reservations are committed before the payment.
RedeemThenCommit(p) ==
    /\ p \in Places /\ At(p, "redeemPoints")
    /\ request[p].points <= pointsBalance
    /\ pointsBalance' = pointsBalance - request[p].points
    /\ orders' = [orders EXCEPT ![p].pointsDebit = request[p].points]
    /\ Becomes(p, [request[p] EXCEPT !.pc = "commit",
                      !.todo = PhysicalLines(request[p].lines)])
    /\ UNCHANGED <<inventoryVars, cart, lines, giftBalance>>

\* LoyaltyService.redeem does the same.
PlaceRedeemPoints(p) ==
    /\ p \in Places /\ At(p, "redeemPoints")
    /\ IF request[p].points <= pointsBalance
       THEN /\ pointsBalance' = pointsBalance - request[p].points
            /\ orders' = [orders EXCEPT ![p].pointsDebit = request[p].points]
            /\ Goto(p, "pay")
       ELSE /\ ToCancel(p)
            /\ UNCHANGED <<pointsBalance, orders>>
    /\ UNCHANGED <<inventoryVars, cart, lines, giftBalance>>

\* PaymentEngine takes what is due (pending, authorized and captured go on
\* alike), or fails.
PlacePay(p) ==
    LET due == orders[p].total - orders[p].gift - orders[p].points
        todo == PhysicalLines(request[p].lines)
    IN  /\ p \in Places /\ At(p, "pay")
        /\ \/ /\ orders' = [orders EXCEPT ![p].payment = due, ![p].paid = TRUE]
              /\ Becomes(p, [request[p] EXCEPT !.todo = todo,
                     !.pc = IF todo = {} THEN "convert" ELSE "commit"])
           \/ /\ ToCancel(p)
              /\ UNCHANGED orders
        /\ UNCHANGED <<inventoryVars, cart, lines, walletVars>>

\* Wrong on purpose: a reservation that is committed already will do.
CommitAgain(p) ==
    LET r == request[p].lines[Line(p)].reservation
    IN  /\ p \in Places /\ At(p, "commit")
        /\ IF reservations[r].status = "active"
           THEN Commit(r)
           ELSE /\ reservations[r].status = "committed"
                /\ UNCHANGED inventoryVars
        /\ orders' = [orders EXCEPT ![p].consumed = @ \union {r}]
        /\ Becomes(p, Next1(request[p], "commit", "convert"))
        /\ UNCHANGED <<cart, lines, walletVars>>

\* Wrong on purpose: a reservation that cannot be committed is skipped.
CommitOrSkip(p) ==
    LET r == request[p].lines[Line(p)].reservation
    IN  /\ p \in Places /\ At(p, "commit")
        /\ IF reservations[r].status = "active"
           THEN /\ Commit(r)
                /\ orders' = [orders EXCEPT ![p].consumed = @ \union {r}]
           ELSE UNCHANGED <<inventoryVars, orders>>
        /\ Becomes(p, Next1(request[p], "commit", "convert"))
        /\ UNCHANGED <<cart, lines, walletVars>>

\* A reservation that cannot be committed makes placeOrder throw: the order
\* stays pending and the cart locked.
PlaceCommit(p) ==
    LET r == request[p].lines[Line(p)].reservation
    IN  /\ p \in Places /\ At(p, "commit")
        /\ IF reservations[r].status = "active"
           THEN /\ Commit(r)
                /\ orders' = [orders EXCEPT ![p].consumed = @ \union {r}]
                /\ Becomes(p, Next1(request[p], "commit", "convert"))
           ELSE /\ Over(p, "failed")
                /\ UNCHANGED <<inventoryVars, orders>>
        /\ UNCHANGED <<cart, lines, walletVars>>

PlaceConvert(p) ==
    /\ p \in Places /\ At(p, "convert")
    /\ cart' = [cart EXCEPT !.status = "converted"]
    /\ Becomes(p, [request[p] EXCEPT !.pc = "readStatus", !.order = p,
                                     !.target = "confirmed"])
    /\ UNCHANGED <<inventoryVars, lines, walletVars, orders>>

-----------------------------------------------------------------------------
(***************************************************************************)
(* OrdersService.transitionStatus, from placeOrder and from updateStatus   *)
(***************************************************************************)

AdminStart(a) ==
    /\ a \in Admins /\ At(a, "start")
    /\ \E p \in Places, target \in {"confirmed", "fulfilled", "cancelled"} :
           /\ orders[p] # NoOrder
           /\ Becomes(a, [request[a] EXCEPT !.pc = "readStatus", !.order = p,
                                            !.target = target])
    /\ UNCHANGED <<inventoryVars, cart, lines, walletVars, orders>>

\* A placement ends well only if it confirms its order.
Outcome(p) ==
    IF p \in Places /\ request[p].target = "cancelled" THEN "failed" ELSE "done"

ReadStatus(p) ==
    LET from == orders[request[p].order].status
        to == request[p].target
    IN  /\ At(p, "readStatus")
        /\ IF from = to
           THEN Over(p, Outcome(p))
           ELSE IF CanTransition(from, to)
           THEN Goto(p, "saveStatus")
           ELSE Over(p, "failed")
        /\ UNCHANGED <<inventoryVars, cart, lines, walletVars, orders>>

\* Only the status differs from the row as it was read.
SaveStatus(p) ==
    /\ At(p, "saveStatus")
    /\ orders' = [orders EXCEPT ![request[p].order].status = request[p].target]
    /\ Over(p, Outcome(p))
    /\ UNCHANGED <<inventoryVars, cart, lines, walletVars>>

-----------------------------------------------------------------------------
(***************************************************************************)
(* CartService's edits and selections                                      *)
(***************************************************************************)

\* updateLine and removeLine read the line first, then the cart.
EditReadLine(e) ==
    /\ e \in Edits /\ At(e, "start")
    /\ \E l \in Live(lines), kind \in {"update", "remove"} :
           Becomes(e, [request[e] EXCEPT !.pc = "requireOpen", !.line = l,
                           !.lines = lines, !.target = kind])
    /\ UNCHANGED <<inventoryVars, cart, lines, walletVars, orders>>

EditRequireOpen(e) ==
    /\ e \in Edits /\ At(e, "requireOpen")
    /\ IF cart.status = "open" THEN Goto(e, "write") ELSE Over(e, "failed")
    /\ UNCHANGED <<inventoryVars, cart, lines, walletVars, orders>>

\* addLine reads the cart first, then the line of the variant, if there is one.
EditAddStart(e) ==
    /\ e \in Edits /\ At(e, "start")
    /\ IF cart.status = "open" THEN Goto(e, "find") ELSE Over(e, "failed")
    /\ UNCHANGED <<inventoryVars, cart, lines, walletVars, orders>>

EditFindLine(e) ==
    /\ e \in Edits /\ At(e, "find")
    /\ \E v \in Variants :
           LET found == {l \in Live(lines) : VariantOf[l] = v}
               fresh == {l \in LineIds : /\ VariantOf[l] = v
                                         /\ lines[l].state = "none"}
           IN  \E l \in IF found # {} THEN found ELSE fresh :
                   Becomes(e, [request[e] EXCEPT !.pc = "write", !.line = l,
                       !.lines = lines,
                       !.target = IF found = {} THEN "insert" ELSE "add"])
    /\ UNCHANGED <<inventoryVars, cart, lines, walletVars, orders>>

\* The write of an edit, on the row as it was read.
EditWrite(e) ==
    LET l == request[e].line
        read == request[e].lines[l].quantity
        what == request[e].target
    IN  /\ e \in Edits /\ At(e, "write")
        /\ IF what = "remove"
           THEN /\ lines' = [lines EXCEPT ![l].state =
                                 IF @ = "live" THEN "deleted" ELSE @]
                /\ Over(e, "done")
           ELSE IF UniqueVariant(l) /\ (what = "insert" => l \notin Live(lines))
           THEN \E q \in 1..MaxQuantity :
                    /\ what = "add" => q > read
                    /\ lines' = [lines EXCEPT ![l] =
                           [state |-> "live", quantity |-> q,
                            reservation |-> None]]
                    /\ Over(e, "done")
           ELSE /\ Over(e, "failed")
                /\ UNCHANGED lines
        /\ UNCHANGED <<inventoryVars, cart, walletVars, orders>>

\* setGiftCard, setLoyaltyPoints, setCoupon, setTaxContext, selectShipping and
\* clearShipping read the cart...
SelectRead(s) ==
    /\ s \in Selections /\ At(s, "start")
    /\ IF cart.status = "converted"
       THEN Over(s, "failed")
       ELSE \E g \in BOOLEAN, n \in PointsAsked :
                /\ g = cart.gift \/ n = cart.points
                /\ Becomes(s, [request[s] EXCEPT !.pc = "save",
                       !.cart = [cart EXCEPT !.gift = g, !.points = n]])
    /\ UNCHANGED <<inventoryVars, cart, lines, walletVars, orders>>

\* ...and save it, with the status it had when it was read.
SelectSave(s) ==
    /\ s \in Selections /\ At(s, "save")
    /\ cart' = request[s].cart
    /\ Over(s, "done")
    /\ UNCHANGED <<inventoryVars, lines, walletVars, orders>>

-----------------------------------------------------------------------------

\* A request dies: the process crashes, or the database is lost.
Die(p) ==
    /\ request[p].pc \notin {"start", "done", "failed"}
    /\ Over(p, "failed")
    /\ UNCHANGED <<inventoryVars, cart, lines, walletVars, orders>>

Prepare(p) ==
    \/ PrepareReadLines(p) \/ PrepareRelease(p) \/ PrepareClear(p)
    \/ PreparePick(p) \/ PrepareReserve(p) \/ PrepareRollback(p)
    \/ PrepareAttach(p) \/ PrepareQuote(p) \/ PrepareLock(p)

Place(p) ==
    \/ PlaceReadLines(p) \/ PlaceQuoteGift(p) \/ PlaceQuotePoints(p)
    \/ PlaceInsert(p) \/ PlaceRedeemGift(p) \/ PlaceRedeemPoints(p)
    \/ PlacePay(p) \/ PlaceCommit(p) \/ PlaceConvert(p)

Edit(e) ==
    \/ EditReadLine(e) \/ EditRequireOpen(e)
    \/ EditAddStart(e) \/ EditFindLine(e) \/ EditWrite(e)

CheckoutNext ==
    \E p \in Requests :
        \/ ReadCart(p)
        \/ Prepare(p)
        \/ Place(p)
        \/ AdminStart(p) \/ ReadStatus(p) \/ SaveStatus(p)
        \/ Edit(p)
        \/ SelectRead(p) \/ SelectSave(p)
        \/ Die(p)

CheckoutSpec == CheckoutInit /\ [][CheckoutNext]_checkoutVars

-----------------------------------------------------------------------------
(***************************************************************************)
(* Properties                                                              *)
(***************************************************************************)

\* The cart, its lines and the wallets hold what their columns can, whichever
\* saves of stale rows overwrite each other.
CheckoutTypeOK ==
    /\ TypeOK
    /\ cart \in CartRow
    /\ lines \in [LineIds -> LineRow]
    /\ giftBalance \in 0..GiftCredit
    /\ pointsBalance \in 0..Points

Placed == {p \in Places : orders[p] # NoOrder}
Completed == {p \in Places : At(p, "done")}

\* Two placements may read the same cart, lines and reservations, yet no
\* reservation is ever deducted for two orders.
OrdersNeverShareStock ==
    \A p, q \in Placed : p # q => orders[p].consumed \intersect orders[q].consumed = {}

\* What an order took from a wallet stays on record: the gift card's and the
\* loyalty account's balances are what they were at the start, less what was
\* debited for orders, and never overdrawn, although every quote is made without
\* a lock.
WalletsBalance ==
    /\ giftBalance >= 0 /\ pointsBalance >= 0
    /\ giftBalance + SumOf([p \in Places |->
           IF p \in Placed THEN orders[p].giftDebit ELSE 0]) = GiftCredit
    /\ pointsBalance + SumOf([p \in Places |->
           IF p \in Placed THEN orders[p].pointsDebit ELSE 0]) = Points

\* An order whose placement succeeded is paid for in full: the payment, the
\* gift card debit and the points debit add up to the total of the lines it
\* was inserted with, whatever happened to cart and wallets meanwhile, and the
\* payment is never negative.
CompletedOrdersArePaid ==
    \A p \in Completed :
        /\ orders[p].paid
        /\ orders[p].payment >= 0
        /\ orders[p].payment + orders[p].giftDebit + orders[p].pointsDebit
               = Subtotal(orders[p].lines)

\* Stock leaves only for orders that are paid: a placement that fails before
\* its payment is taken has deducted nothing.
OnlyPaidOrdersTakeStock ==
    \A p \in Placed : orders[p].consumed # {} => orders[p].paid

\* A converted cart has an order that was paid and whose physical lines'
\* reservations were all deducted.
ConvertedCartsAreOrdered ==
    cart.status = "converted" =>
        \E p \in Placed :
            /\ orders[p].paid
            /\ \A l \in PhysicalLines(orders[p].lines) :
                   orders[p].lines[l].reservation \in orders[p].consumed

\* The stock deducted for a completed order is the quantity it orders, line by
\* line: "Stock on-hand was already deducted at placeOrder (reservation
\* commit)", says FulfillmentService.ship of the quantities it ships.
OrderedQuantityDeducted ==
    \A p \in Completed : \A l \in PhysicalLines(orders[p].lines) :
        \E r \in orders[p].consumed :
            /\ reservations[r].item[1] = VariantOf[l]
            /\ reservations[r].quantity = orders[p].lines[l].quantity

\* "Place order from a locked cart": when an order is inserted, its cart is
\* locked.
OrderFromLockedCart ==
    [][\A p \in Places : orders[p] = NoOrder /\ orders'[p] # NoOrder =>
           cart.status = "locked"]_orders
=============================================================================
