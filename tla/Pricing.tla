------------------------------ MODULE Pricing ------------------------------
(***************************************************************************)
(* What CheckoutService.prepare asks of the promotions, tax, shipping and  *)
(* currency services, and the administration of the rows they read:        *)
(* coupons, discount rules, customer segments, tax classes and rules,      *)
(* exchange rates and a store's display currencies.                        *)
(*                                                                         *)
(* The quote reads each of those on its own, so an edit may fall between   *)
(* any two of its steps.  An update of a row reads it and saves it later;  *)
(* TypeORM's save() inserts a row that was removed meanwhile again.        *)
(* Reservations and the cart's own writes are in Checkout.                 *)
(***************************************************************************)
EXTENDS Integers, FiniteSetsExt

CONSTANTS
    RuleRows,           \* discount rules that may be entered
    CouponRows,         \* coupons that may be entered
    Rates,              \* exchange rates <<n, d>>: n for d
    Subtotal,           \* merchandise in the cart
    ShippingPrices,     \* what a shipping method may ask
    TaxAnswers,         \* what a tax provider may ask
    GiftBalances, PointsWorth,
    MaxPriceEdits       \* bound: edits

ASSUME PricingAssumption ==
    /\ Subtotal \in Nat /\ ShippingPrices \cup TaxAnswers \cup GiftBalances \subseteq Nat
    /\ PointsWorth \subseteq Nat
    /\ \A row \in RuleRows \cup CouponRows : row.value \in Nat /\ row.priority \in Int
    /\ \A r \in Rates : r \in (Nat \ {0}) \X (Nat \ {0})

VARIABLES
    priced,             \* the rows, by table
    display,            \* store_currency_configs of the cart's store
    priceEditor,        \* the update under way: its table, or "none"
    shipping,           \* the cart's shippingMinor
    quote,              \* prepare under way
    priceEdits

priceVars == <<priced, display, priceEditor, shipping, quote, priceEdits>>

NoRow == [at |-> "none"]
CodeOrder == [rule1 |-> 1, rule2 |-> 2, rule3 |-> 3]
RuleIds == DOMAIN CodeOrder
SegmentRows == {[at |-> "row", active |-> a, matches |-> m] : a \in BOOLEAN, m \in BOOLEAN}
PlainRow == [at |-> "row"]
RateRows == {[at |-> "row", rate |-> r] : r \in Rates}

\* The rows a table may hold.  Each table is kept by a service of its own, alike.
RowsOf(t) ==
    CASE t \in RuleIds -> RuleRows
      [] t = "coupon" -> CouponRows
      [] t = "segment" -> SegmentRows
      [] t \in {"taxClass", "taxRule"} -> {PlainRow}
      [] t = "rate" -> RateRows

Tables == RuleIds \cup {"coupon", "segment", "taxClass", "taxRule", "rate"}
Entered(t) == priced[t] # NoRow

Base == "base"          \* the cart's currency
Foreign == "foreign"
NoDisplay == [main |-> "none", enabled |-> {}]
\* defaultStoreCurrencyConfig: the store's own currency.
DisplayRow == IF display = NoDisplay THEN [main |-> Base, enabled |-> {Base}] ELSE display

NoQuote ==
    [at |-> "idle", ship |-> 0, sum |-> 0, free |-> FALSE, loaded |-> [r \in RuleIds |-> NoRow],
     left |-> {}, tax |-> 0, inclusive |-> FALSE, gift |-> 0, points |-> 0,
     total |-> 0, currency |-> Base, rate |-> <<1, 1>>]

PricingInit ==
    /\ priced = [t \in Tables |-> NoRow]
    /\ display = NoDisplay
    /\ priceEditor = "none"
    /\ shipping = 0
    /\ quote = NoQuote
    /\ priceEdits = 0

-----------------------------------------------------------------------------
(***************************************************************************)
(* Administration.                                                         *)
(***************************************************************************)
PriceEdit ==
    /\ priceEdits < MaxPriceEdits
    /\ priceEdits' = priceEdits + 1
    /\ UNCHANGED <<shipping, quote>>

\* A tax rule belongs to a class: a foreign key, ON DELETE CASCADE.
ClassStands(t) == t = "taxRule" => Entered("taxClass")

CreateRow(t) ==
    /\ PriceEdit /\ ~Entered(t) /\ ClassStands(t)
    /\ \E row \in RowsOf(t) : priced' = [priced EXCEPT ![t] = row]
    /\ UNCHANGED <<display, priceEditor>>

UpdateReads(t) ==
    /\ PriceEdit /\ Entered(t)
    /\ priceEditor = "none" /\ priceEditor' = t
    /\ UNCHANGED <<priced, display>>

\* save(row): the row as read and edited, inserted again if it is gone.
UpdateSaves(t) ==
    /\ priceEditor = t /\ priceEditor' = "none"
    /\ \E row \in RowsOf(t) :
           priced' = IF ClassStands(t) THEN [priced EXCEPT ![t] = row] ELSE priced
    /\ UNCHANGED <<display, shipping, quote, priceEdits>>

RemoveRow(t) ==
    /\ PriceEdit /\ Entered(t)
    /\ priced' = [u \in Tables |->
           IF u = t \/ (t = "taxClass" /\ u = "taxRule") THEN NoRow ELSE priced[u]]
    /\ UNCHANGED <<display, priceEditor>>

CreateCoupon == CreateRow("coupon")
UpdateCoupon == UpdateReads("coupon") \/ UpdateSaves("coupon")
RemoveCoupon == RemoveRow("coupon")
CreateDiscountRule == \E r \in RuleIds : CreateRow(r)
UpdateDiscountRule == \E r \in RuleIds : UpdateReads(r) \/ UpdateSaves(r)
RemoveDiscountRule == \E r \in RuleIds : RemoveRow(r)
CreateSegment == CreateRow("segment")
UpdateSegment == UpdateReads("segment") \/ UpdateSaves("segment")
RemoveSegment == RemoveRow("segment")
CreateTaxClass == CreateRow("taxClass")
UpdateTaxClass == UpdateReads("taxClass") \/ UpdateSaves("taxClass")
RemoveTaxClass == RemoveRow("taxClass")
CreateTaxRule == CreateRow("taxRule")
UpdateTaxRule == UpdateReads("taxRule") \/ UpdateSaves("taxRule")
RemoveTaxRule == RemoveRow("taxRule")
CreateRate == CreateRow("rate")
UpdateRate == UpdateReads("rate") \/ UpdateSaves("rate")
RemoveRate == RemoveRow("rate")

\* upsert, alone or for each pair that syncFromProvider asks a provider about.
UpsertRate ==
    /\ PriceEdit
    /\ \E row \in RateRows : priced' = [priced EXCEPT !["rate"] = row]
    /\ UNCHANGED <<display, priceEditor>>

\* The listener of StoreCreated, and every reader: the row is made when missing.
EnsureDisplay ==
    /\ PriceEdit /\ display' = DisplayRow /\ UNCHANGED <<priced, priceEditor>>

\* The primary currency is always among the enabled ones.
WithPrimaryDisplay(main, enabled) == [main |-> main, enabled |-> enabled \cup {main}]

UpdateDisplay ==
    /\ PriceEdit
    /\ \E main \in {Base, Foreign}, enabled \in SUBSET {Base, Foreign} :
           display' = WithPrimaryDisplay(main, enabled)
    /\ UNCHANGED <<priced, priceEditor>>

\* findQuotedRate: the provider is asked again and need not answer as it did before.
QuotedRates == ShippingPrices

\* CartService.selectShipping and clearShipping.
SelectShipping ==
    /\ priceEdits < MaxPriceEdits /\ priceEdits' = priceEdits + 1
    /\ shipping' \in QuotedRates
    /\ UNCHANGED <<priced, display, priceEditor, quote>>

ClearShipping ==
    /\ priceEdits < MaxPriceEdits /\ priceEdits' = priceEdits + 1
    /\ shipping' = 0
    /\ UNCHANGED <<priced, display, priceEditor, quote>>

-----------------------------------------------------------------------------
(***************************************************************************)
(* Discounts.  A row gives a part of the subtotal, an amount, or free      *)
(* shipping; its schedule is folded into "active".                         *)
(***************************************************************************)
MeetsMinimum(row) == Subtotal >= row.min

\* computeRuleDiscount, capped at the subtotal.
RuleDiscount(row) ==
    IF ~row.active \/ ~MeetsMinimum(row) THEN 0
    ELSE CASE row.kind = "percentage" -> (Subtotal * row.value) \div 10000
           [] row.kind = "fixed_amount" -> Min({row.value, Subtotal})
           [] OTHER -> 0

GivesFreeShipping(row) == row.active /\ MeetsMinimum(row) /\ row.kind = "free_shipping"

\* isSegmentEligible: fails closed for a segment that is gone, inactive or missed.
Eligible(row) ==
    row.restricted => /\ Entered("segment")
                      /\ priced["segment"].active /\ priced["segment"].matches

Qualifying(rules) == {r \in RuleIds : rules[r] # NoRow /\ rules[r].active}

\* By priority, highest first, then by code.
ComesFirst(rules, r, s) ==
    rules[r].priority > rules[s].priority \/
    (rules[r].priority = rules[s].priority /\ CodeOrder[r] <= CodeOrder[s])
TopRule(rules, S) == CHOOSE r \in S : \A s \in S : ComesFirst(rules, r, s)

SelectAutomaticRules(rules) ==
    LET stackable == {r \in Qualifying(rules) : rules[r].stackable}
        alone == Qualifying(rules) \ stackable
        top == TopRule(rules, alone)
    IN  IF alone # {} /\ \A s \in stackable : rules[top].priority >= rules[s].priority
        THEN {top} ELSE stackable

-----------------------------------------------------------------------------
(***************************************************************************)
(* The quote.                                                              *)
(***************************************************************************)
Step(from, next) ==
    /\ quote.at = from /\ quote' = next
    /\ UNCHANGED <<priced, display, priceEditor, shipping, priceEdits>>

Refused == [quote EXCEPT !.at = "refused"]

\* prepare reads the cart, which may carry a coupon's code.
QuoteStart ==
    \E next \in {"coupon", "rules"} :
        Step("idle", [quote EXCEPT !.at = next, !.ship = shipping])

\* applyCoupon: a coupon that gives nothing is an error.  Its cap on uses never is:
\* max_uses is positive, and no code ever raises usage_count.
QuoteCoupon ==
    LET row == priced["coupon"]
    IN  IF Entered("coupon") /\ Eligible(row) /\ (RuleDiscount(row) > 0 \/ GivesFreeShipping(row))
        THEN Step("coupon", [quote EXCEPT !.at = "rules", !.sum = RuleDiscount(row),
                                          !.free = GivesFreeShipping(row)])
        ELSE Step("coupon", Refused)

\* apply: the rules are selected first, then those below their minimum are dropped.
QuoteRules ==
    LET rules == [r \in RuleIds |-> priced[r]]
    IN  Step("rules", [quote EXCEPT !.at = "each", !.loaded = rules,
               !.left = {r \in SelectAutomaticRules(rules) : MeetsMinimum(rules[r])}])

\* One rule at a time, each asking for its segment.
QuoteEachRule ==
    LET r == TopRule(quote.loaded, quote.left)
        row == quote.loaded[r]
        given == [quote EXCEPT !.left = @ \ {r}, !.sum = @ + RuleDiscount(row),
                               !.free = @ \/ GivesFreeShipping(row)]
    IN  IF quote.left = {} THEN Step("each", [quote EXCEPT !.at = "tax"])
        ELSE Step("each", IF Eligible(row) THEN given ELSE [quote EXCEPT !.left = @ \ {r}])

\* mergePromotionApplications: capped at the subtotal.
Discount(q) == Min({q.sum, Subtotal})
ShippingDue(q) == IF q.free THEN 0 ELSE q.ship

\* totalsWithTax
TotalWithTax(q) == Subtotal - Discount(q) + ShippingDue(q) + IF q.inclusive THEN 0 ELSE q.tax

\* TaxEngineService.calculateOrZero: the provider answers or fails.
QuoteTax ==
    \/ Step("tax", Refused)
    \/ \E tax \in TaxAnswers, inclusive \in BOOLEAN :
           LET q == [quote EXCEPT !.at = "gift", !.tax = tax, !.inclusive = inclusive]
           IN  Step("tax", [q EXCEPT !.total = TotalWithTax(q)])

\* quoteRedeem refuses a card that is unknown, in another currency or not redeemable;
\* applyGiftCardToTotals takes the card's balance, capped at the total.
QuoteGift ==
    \/ Step("gift", Refused)
    \/ \E balance \in GiftBalances :
           LET gift == Min({balance, quote.total})
           IN  Step("gift", [quote EXCEPT !.at = "points", !.gift = gift, !.total = @ - gift])

QuotePoints ==
    \E worth \in PointsWorth :
        LET points == Min({worth, quote.total})
        IN  Step("points", [quote EXCEPT !.at = "locked", !.points = points, !.total = @ - points])

\* resolveDisplayCurrency, once the cart is locked: as asked, or the store's primary.
QuoteCurrency ==
    /\ quote.at = "locked"
    /\ display' = DisplayRow
    /\ \E asked \in {"none", Base, Foreign} :
           LET code == IF asked = "none" THEN DisplayRow.main ELSE asked
           IN  quote' = IF code \notin DisplayRow.enabled THEN Refused
                        ELSE [quote EXCEPT !.currency = code,
                                           !.at = IF code = Base THEN "done" ELSE "rate"]
    /\ UNCHANGED <<priced, priceEditor, shipping, priceEdits>>

\* getRate: a missing rate fails the call, with the cart locked.
QuoteRate ==
    Step("rate", IF Entered("rate")
                 THEN [quote EXCEPT !.at = "done", !.rate = priced["rate"].rate] ELSE Refused)

\* convertMinorWithRate: half up.
Shown(amount, rate) == (2 * amount * rate[1] + rate[2]) \div (2 * rate[2])

Amounts(q) ==
    [subtotal |-> Subtotal, discount |-> Discount(q), gift |-> q.gift, points |-> q.points,
     tax |-> q.tax, shipping |-> ShippingDue(q), total |-> q.total]

\* Wrong on purpose: shipping is shown in the cart's currency.
DisplayTotalsShipping(q) ==
    [f \in DOMAIN Amounts(q) |->
        IF f = "shipping" THEN Amounts(q)[f] ELSE Shown(Amounts(q)[f], q.rate)]

\* convertTotals: each amount is converted and rounded on its own.
DisplayTotals(q) == [f \in DOMAIN Amounts(q) |-> Shown(Amounts(q)[f], q.rate)]

PromotionRequest ==
    \/ CreateCoupon \/ UpdateCoupon \/ RemoveCoupon
    \/ CreateDiscountRule \/ UpdateDiscountRule \/ RemoveDiscountRule
SegmentRequest == CreateSegment \/ UpdateSegment \/ RemoveSegment
TaxRequest ==
    \/ CreateTaxClass \/ UpdateTaxClass \/ RemoveTaxClass
    \/ CreateTaxRule \/ UpdateTaxRule \/ RemoveTaxRule
RateRequest == CreateRate \/ UpdateRate \/ RemoveRate \/ UpsertRate
DisplayRequest == EnsureDisplay \/ UpdateDisplay

PricingNext ==
    \/ PromotionRequest \/ SegmentRequest \/ TaxRequest \/ RateRequest \/ DisplayRequest
    \/ SelectShipping \/ ClearShipping
    \/ QuoteStart \/ QuoteCoupon \/ QuoteRules \/ QuoteEachRule
    \/ QuoteTax \/ QuoteGift \/ QuotePoints \/ QuoteCurrency \/ QuoteRate

PricingSpec == PricingInit /\ [][PricingNext]_priceVars

-----------------------------------------------------------------------------
(***************************************************************************)
(* Properties.                                                             *)
(***************************************************************************)
Distance(a, b) == IF a < b THEN b - a ELSE a - b

\* The totals prepare answers with add up to a total that is never negative, and
\* the converted ones explain the converted total up to their own rounding (at most
\* half a unit for each amount that is rounded).  Each of them is read, capped or
\* rounded in a step of its own (checkout.service.ts:153-233).
QuotesAddUp ==
    quote.at = "done" =>
        LET shown == DisplayTotals(quote)
            taxed(t) == IF quote.inclusive THEN 0 ELSE t
            parts == shown.subtotal + shown.shipping + taxed(shown.tax)
                     - shown.discount - shown.gift - shown.points
            rounded == Cardinality({f \in DOMAIN shown :
                                       (Amounts(quote)[f] * quote.rate[1]) % quote.rate[2] # 0})
        IN  /\ quote.total = Subtotal + ShippingDue(quote) + taxed(quote.tax)
                             - Discount(quote) - quote.gift - quote.points
            /\ quote.total >= 0
            /\ 2 * Distance(shown.total, parts) <= rounded
            /\ quote.currency = Base => shown.total = quote.total
=============================================================================
