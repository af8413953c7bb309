-------------------------- MODULE BackofficeProofs --------------------------
(***************************************************************************)
(* Proofs about the components of the back office, one section each:       *)
(* companies, categories, products and the search index, the seed of       *)
(* roles, purchase orders, locations, the event bus, plugins and their     *)
(* jobs, quotes, digital grants.  None of them calls another, and the      *)
(* sections share only facts about numbers.                                *)
(*                                                                         *)
(* Each section strengthens the invariant its runs check with what a call  *)
(* under way knows of the rows it read, shows that every action keeps the  *)
(* strengthening, one lemma for each, and concludes the theorem.           *)
(***************************************************************************)
EXTENDS Companies, Taxonomy, Products, Accounts, Supply, Locations, EventBus, Plugins,
        Pricing, Grants,
        FiniteSets, FiniteSetTheorems, WellFoundedInduction, TLAPS

(***************************************************************************)
(* Companies: quotes, carts and their orders                               *)
(***************************************************************************)

Sources == Quotes \union CompanyCarts

QuoteRow == [status : {"draft", "submitted", "accepted", "cancelled", "locked", "converted"},
             company : CompanyIds, by : Members, order : B2bOrders \union {"none"}]
B2bOrderRow == [status : {"draft", "approved", "confirmed", "fulfilled", "cancelled"},
                company : CompanyIds, lines : BOOLEAN]
PaymentStatus == {"none", "pending", "authorized", "captured", "failed"}

B2bCallRow ==
    {IdleB2b} \union
    [at : {"transition"}, src : Quotes, row : QuoteRow] \union
    [at : {"insert"}, src : Sources] \union
    [at : {"lines", "mark"}, src : Sources, order : B2bOrders] \union
    [at : {"gift", "pay", "ask", "capture"}, order : B2bOrders, capture : BOOLEAN] \union
    [at : {"capturing"}, order : B2bOrders, read : {"authorized", "pending"}] \union
    [at : {"status", "save"}, order : B2bOrders,
     to : {"approved", "confirmed", "fulfilled", "cancelled"}]

B2bTypes ==
    /\ source \in [Sources -> {NoSource} \union QuoteRow]
    /\ b2bOrder \in [B2bOrders -> {NoB2bOrder} \union B2bOrderRow]
    /\ payment \in [B2bOrders -> PaymentStatus]
    /\ b2bCall \in [B2bCalls -> B2bCallRow]

HasLines(o) == o \in B2bOrders /\ b2bOrder[o] # NoB2bOrder /\ b2bOrder[o].lines

\* A row of quotes or carts, the one there or one that is about to be saved, is
\* converted only to an order that has its lines.
ConvertedToLines(row) == row.status = "converted" => HasLines(row.order)

\* A call x that is about a source or an order has found or made it, and marks a source
\* only when the order has its lines.
KnowsOrder(x) ==
    /\ x.at \in {"insert", "lines", "mark"} => source[x.src] # NoSource
    /\ x.at = "transition" => ConvertedToLines(x.row)
    /\ x.at = "mark" => HasLines(x.order)
    /\ x.at \in {"lines", "gift", "pay", "ask", "capture", "capturing", "status", "save"} =>
           b2bOrder[x.order] # NoB2bOrder

\* Call x confirms order o, or approves it.
IsConfirming(x, o) ==
    \/ x.at \in {"gift", "pay", "ask", "capture", "capturing"} /\ x.order = o
    \/ x.at \in {"status", "save"} /\ x.order = o /\ x.to = "confirmed"
IsApproving(x, o) == x.at \in {"status", "save"} /\ x.order = o /\ x.to = "approved"

\* An order the properties do not speak of: its confirmations overlapped, or updateStatus
\* was asked to confirm it.
Unasserted == rushed \union byHand

\* A confirmation that is past the payment has one, and one that has not failed unless
\* another confirmation came in between.
KnowsPayment(x) ==
    /\ x.at \in {"ask", "capture", "capturing"} => payment[x.order] # "none"
    /\ x.at = "capture" /\ payment[x.order] = "failed" => x.order \in Unasserted
    /\ x.at \in {"status", "save"} /\ x.to = "confirmed" =>
           \/ x.order \in byHand
           \/ /\ payment[x.order] # "none"
              /\ payment[x.order] = "failed" => x.order \in rushed

\* Any other order has one confirmation at a time, none once it is confirmed, and
\* no approval that could send it back.
ConfirmedOnce ==
    \A o \in B2bOrders \ Unasserted :
        /\ \A j, k \in B2bCalls :
               IsConfirming(b2bCall[j], o) /\ IsConfirming(b2bCall[k], o) => j = k
        /\ \A k \in B2bCalls : IsConfirming(b2bCall[k], o) =>
               /\ b2bOrder[o].status \notin {"draft", "confirmed"}
               /\ \A j \in B2bCalls : ~IsApproving(b2bCall[j], o)
        /\ b2bOrder[o].status = "confirmed" =>
               \A j \in B2bCalls : ~IsApproving(b2bCall[j], o)

B2bInv ==
    /\ B2bTypes
    /\ \A src \in Sources : ConvertedToLines(source[src])
    /\ \A k \in B2bCalls : KnowsOrder(b2bCall[k]) /\ KnowsPayment(b2bCall[k])
    /\ ConfirmedOnce
    /\ ConfirmedOrdersArePaid

LEMMA B2bCallFields ==
    ASSUME NEW x \in B2bCallRow
    PROVE  /\ x.at = "transition" => x.src \in Quotes /\ x.row \in QuoteRow
           /\ x.at \in {"insert", "lines", "mark"} => x.src \in Sources
           /\ x.at \in {"lines", "mark", "gift", "pay", "ask", "capture", "capturing",
                        "status", "save"} => x.order \in B2bOrders
           /\ x.at \in {"lines", "mark"} =>
                  x = [at |-> x.at, src |-> x.src, order |-> x.order]
           /\ x.at \in {"gift", "pay", "ask", "capture"} =>
                  /\ x.capture \in BOOLEAN
                  /\ x = [at |-> x.at, order |-> x.order, capture |-> x.capture]
           /\ x.at = "capturing" => x.read \in {"authorized", "pending"}
           /\ x.at \in {"status", "save"} =>
                  /\ x.to \in {"approved", "confirmed", "fulfilled", "cancelled"}
                  /\ x = [at |-> x.at, order |-> x.order, to |-> x.to]
  BY DEF B2bCallRow, IdleB2b

LEMMA B2bCallMoves ==
    ASSUME B2bInv, NEW k \in B2bCalls, NEW x \in B2bCallRow, GoB2b(k, x)
    PROVE  /\ b2bCall' \in [B2bCalls -> B2bCallRow]
           /\ b2bCall'[k] = x
           /\ \A j \in B2bCalls \ {k} : b2bCall'[j] = b2bCall[j]
  BY DEF B2bInv, B2bTypes, GoB2b

\* Sources and orders do not go, nor do the lines of orders.
RowsStay ==
    /\ \A src \in Sources : source[src] # NoSource => source'[src] # NoSource
    /\ \A o \in B2bOrders :
           b2bOrder[o] # NoB2bOrder =>
               /\ b2bOrder'[o] # NoB2bOrder
               /\ b2bOrder[o].lines => b2bOrder'[o].lines

LEMMA StillKnown ==
    ASSUME RowsStay
    PROVE  /\ \A row : ConvertedToLines(row) => ConvertedToLines(row)'
           /\ \A x \in B2bCallRow : KnowsOrder(x) => KnowsOrder(x)'
<1>1. \A o : HasLines(o) => HasLines(o)'
  BY DEF RowsStay, HasLines
<1>2. \A row : ConvertedToLines(row) => ConvertedToLines(row)'
  BY <1>1 DEF ConvertedToLines
<1>3. ASSUME NEW x \in B2bCallRow, KnowsOrder(x) PROVE KnowsOrder(x)'
  BY <1>1, <1>2, <1>3, B2bCallFields DEF KnowsOrder, RowsStay
<1>4. QED
  BY <1>2, <1>3

\* A step of call k that touches no source and no payment, and changes an order at most by
\* giving it lines.
LEMMA B2bQuiet ==
    ASSUME B2bInv, NEW k \in B2bCalls, NEW x \in B2bCallRow, GoB2b(k, x),
           payment' = payment, rushed' = rushed, byHand' = byHand,
           source' \in [Sources -> {NoSource} \union QuoteRow],
           b2bOrder' \in [B2bOrders -> {NoB2bOrder} \union B2bOrderRow],
           RowsStay,
           (\A src \in Sources : ConvertedToLines(source[src]))',
           \A o \in B2bOrders : b2bOrder'[o].status = b2bOrder[o].status,
           KnowsOrder(x)', KnowsPayment(x),
           \A o \in B2bOrders :
               /\ IsConfirming(x, o) => IsConfirming(b2bCall[k], o)
               /\ IsApproving(x, o) => IsApproving(b2bCall[k], o)
    PROVE  B2bInv'
<1>1. /\ b2bCall' \in [B2bCalls -> B2bCallRow]
      /\ b2bCall'[k] = x
      /\ \A j \in B2bCalls \ {k} : b2bCall'[j] = b2bCall[j]
  BY B2bCallMoves
<1>2. B2bTypes'
  BY <1>1 DEF B2bInv, B2bTypes
<1>3. ASSUME NEW j \in B2bCalls PROVE KnowsOrder(b2bCall[j])' /\ KnowsPayment(b2bCall[j])'
  <2>1. CASE j = k
    BY <1>1, <2>1 DEF Unasserted, KnowsPayment, KnowsOrder
  <2>2. CASE j # k
    BY <1>1, <2>2, StillKnown DEF B2bInv, B2bTypes, Unasserted, KnowsPayment, KnowsOrder
  <2>3. QED
    BY <2>1, <2>2
<1>4. ConfirmedOnce'
  <2>1. \A o \in B2bOrders, j \in B2bCalls :
            /\ IsConfirming(b2bCall'[j], o) => IsConfirming(b2bCall[j], o)
            /\ IsApproving(b2bCall'[j], o) => IsApproving(b2bCall[j], o)
    BY <1>1
  <2>2. QED
    BY <2>1 DEF B2bInv, Unasserted, ConfirmedOnce
<1>5. ConfirmedOrdersArePaid'
  BY DEF B2bInv, ConfirmedOrdersArePaid
<1>6. QED
  BY <1>2, <1>3, <1>4, <1>5 DEF B2bInv

LEMMA B2bStays ==
    ASSUME B2bInv, NEW k \in B2bCalls, NEW x \in B2bCallRow, GoB2b(k, x),
           UNCHANGED <<source, b2bOrder, payment, rushed, byHand>>,
           KnowsOrder(x), KnowsPayment(x),
           \A o \in B2bOrders :
               /\ IsConfirming(x, o) => IsConfirming(b2bCall[k], o)
               /\ IsApproving(x, o) => IsApproving(b2bCall[k], o)
    PROVE  B2bInv'
<1>1. RowsStay
  BY DEF RowsStay
<1>2. (\A src \in Sources : ConvertedToLines(source[src]))' /\ KnowsOrder(x)'
  BY <1>1, StillKnown DEF B2bInv
<1>3. QED
  BY <1>1, <1>2, B2bQuiet DEF B2bInv, B2bTypes

\* A call that saves the row of a source and ends.
LEMMA SourceSaved ==
    ASSUME B2bInv, NEW k \in B2bCalls, GoB2b(k, IdleB2b),
           UNCHANGED <<b2bOrder, payment, rushed, byHand>>,
           NEW src \in Sources, NEW row \in QuoteRow,
           source' = [source EXCEPT ![src] = row], ConvertedToLines(row)
    PROVE  B2bInv'
<1>1. /\ source' \in [Sources -> {NoSource} \union QuoteRow]
      /\ source'[src] = row /\ row # NoSource
      /\ \A s \in Sources : s # src => source'[s] = source[s]
  <2>1. row # NoSource
    BY DEF QuoteRow, NoSource
  <2>2. QED
    BY <2>1 DEF B2bInv, B2bTypes
<1>2. RowsStay
  BY <1>1 DEF RowsStay
<1>3. ConvertedToLines(row)' /\ \A s \in Sources : ConvertedToLines(source[s])'
  <2>1. ConvertedToLines(row)'
    BY <1>2, StillKnown
  <2>2. ASSUME NEW s \in Sources PROVE ConvertedToLines(source[s])'
    <3>1. PICK old : old = source[s] /\ ConvertedToLines(old)
      BY DEF B2bInv
    <3>2. ConvertedToLines(old)'
      BY <1>2, <3>1, StillKnown
    <3>3. QED
      BY <1>1, <2>1, <3>1, <3>2 DEF ConvertedToLines
  <2>3. QED
    BY <2>1, <2>2
<1>4. PICK x \in B2bCallRow : x = IdleB2b
  BY DEF B2bCallRow
<1>5. /\ KnowsOrder(x)' /\ KnowsPayment(x)
      /\ \A o : ~IsConfirming(x, o) /\ ~IsApproving(x, o)
  BY <1>4 DEF IdleB2b, KnowsOrder, KnowsPayment, IsConfirming, IsApproving
<1>6. QED
  BY <1>1, <1>2, <1>3, <1>4, <1>5, B2bQuiet DEF B2bInv, B2bTypes

\* A step of a confirmation that changes the payment of its order.
LEMMA PaymentMoves ==
    ASSUME B2bInv, NEW k \in B2bCalls, NEW x \in B2bCallRow, GoB2b(k, x),
           UNCHANGED <<source, b2bOrder, rushed, byHand>>,
           b2bCall[k].at \in {"pay", "ask", "capturing"},
           NEW o \in B2bOrders, o = b2bCall[k].order,
           NEW status \in PaymentStatus \ {"none"},
           payment' = [payment EXCEPT ![o] = status],
           x.at \in {"ask", "capture", "capturing", "status"}, x.order = o,
           x.at = "status" => x.to # "approved",
           KnowsPayment(x)'
    PROVE  B2bInv'
<1>1. /\ b2bCall' \in [B2bCalls -> B2bCallRow]
      /\ b2bCall'[k] = x
      /\ \A j \in B2bCalls \ {k} : b2bCall'[j] = b2bCall[j]
  BY B2bCallMoves
<1>2. /\ payment' \in [B2bOrders -> PaymentStatus]
      /\ payment'[o] = status
      /\ \A q \in B2bOrders \ {o} : payment'[q] = payment[q]
  BY DEF B2bInv, B2bTypes
<1>3. B2bTypes'
  BY <1>1, <1>2 DEF B2bInv, B2bTypes
<1>4. IsConfirming(b2bCall[k], o)
  BY DEF IsConfirming
<1>5. o \in Unasserted \/
      /\ \A j \in B2bCalls \ {k} : ~IsConfirming(b2bCall[j], o)
      /\ b2bOrder[o].status # "confirmed"
  BY <1>4 DEF B2bInv, Unasserted, ConfirmedOnce
<1>6. RowsStay
  BY DEF RowsStay
<1>7. (\A src \in Sources : ConvertedToLines(source[src]))'
  BY <1>6, StillKnown DEF B2bInv
<1>8. ASSUME NEW j \in B2bCalls PROVE KnowsOrder(b2bCall[j])' /\ KnowsPayment(b2bCall[j])'
  <2>1. CASE j = k
    <3>1. b2bOrder[o] # NoB2bOrder
      BY DEF B2bInv, KnowsOrder
    <3>2. QED
      BY <1>1, <2>1, <3>1 DEF KnowsOrder, KnowsPayment
  <2>2. CASE j # k
    <3>1. PICK y \in B2bCallRow : y = b2bCall[j]
      BY DEF B2bInv, B2bTypes
    <3>2. KnowsOrder(y) /\ KnowsPayment(y)
      BY <3>1 DEF B2bInv
    <3>3. KnowsOrder(y)'
      BY <1>6, <3>2, StillKnown
    <3>4. KnowsPayment(y)'
      <4>1. CASE y.order = o
        BY <1>2, <1>5, <2>2, <3>1, <3>2, <4>1 DEF Unasserted, KnowsPayment, IsConfirming
      <4>2. CASE y.order # o
        BY <1>2, <3>2, <4>2, B2bCallFields DEF Unasserted, KnowsPayment
      <4>3. QED
        BY <4>1, <4>2
    <3>5. QED
      BY <1>1, <2>2, <3>1, <3>3, <3>4 DEF KnowsOrder, KnowsPayment
  <2>3. QED
    BY <2>1, <2>2
<1>9. ConfirmedOnce'
  <2>1. \A q \in B2bOrders, j \in B2bCalls :
            /\ IsConfirming(b2bCall'[j], q) => IsConfirming(b2bCall[j], q)
            /\ IsApproving(b2bCall'[j], q) => IsApproving(b2bCall[j], q)
    BY <1>1, <1>4 DEF IsConfirming, IsApproving
  <2>2. Unasserted' = Unasserted /\ b2bOrder' = b2bOrder
    BY DEF Unasserted
  <2>3. ConfirmedOnce
    BY DEF B2bInv
  <2>4. ASSUME NEW q \in B2bOrders \ Unasserted
        PROVE  /\ \A i, j \in B2bCalls :
                      IsConfirming(b2bCall'[i], q) /\ IsConfirming(b2bCall'[j], q) => i = j
               /\ \A j \in B2bCalls : IsConfirming(b2bCall'[j], q) =>
                      /\ b2bOrder[q].status \notin {"draft", "confirmed"}
                      /\ \A i \in B2bCalls : ~IsApproving(b2bCall'[i], q)
               /\ b2bOrder[q].status = "confirmed" =>
                      \A j \in B2bCalls : ~IsApproving(b2bCall'[j], q)
    <3>1. /\ \A i, j \in B2bCalls :
                 IsConfirming(b2bCall[i], q) /\ IsConfirming(b2bCall[j], q) => i = j
          /\ \A j \in B2bCalls : IsConfirming(b2bCall[j], q) =>
                 /\ b2bOrder[q].status \notin {"draft", "confirmed"}
                 /\ \A i \in B2bCalls : ~IsApproving(b2bCall[i], q)
          /\ b2bOrder[q].status = "confirmed" =>
                 \A j \in B2bCalls : ~IsApproving(b2bCall[j], q)
      BY <2>3, <2>4 DEF ConfirmedOnce
    <3>2. \A i, j \in B2bCalls :
              IsConfirming(b2bCall'[i], q) /\ IsConfirming(b2bCall'[j], q) => i = j
      BY <2>1, <2>4, <3>1
    <3>3. ASSUME NEW j \in B2bCalls, IsConfirming(b2bCall'[j], q)
          PROVE  /\ b2bOrder[q].status \notin {"draft", "confirmed"}
                 /\ \A i \in B2bCalls : ~IsApproving(b2bCall'[i], q)
      BY <2>1, <2>4, <3>1, <3>3
    <3>4. b2bOrder[q].status = "confirmed" =>
              \A j \in B2bCalls : ~IsApproving(b2bCall'[j], q)
      BY <2>1, <2>4, <3>1
    <3>5. QED
      BY <3>2, <3>3, <3>4
  <2>5. QED
    BY <2>2, <2>4 DEF ConfirmedOnce
<1>10. ConfirmedOrdersArePaid'
  BY <1>2, <1>5 DEF B2bInv, Unasserted, ConfirmedOrdersArePaid
<1>11. QED
  BY <1>3, <1>7, <1>8, <1>9, <1>10 DEF B2bInv

\* Companies, members, prices, new quotes and new carts.
LEMMA SourcesOnly ==
    ASSUME B2bInv, UNCHANGED <<b2bOrder, payment, b2bCall, rushed, byHand>>,
           source' \in [Sources -> {NoSource} \union QuoteRow],
           \A src \in Sources :
               /\ source'[src].status = "converted" => source'[src] = source[src]
               /\ source[src] # NoSource => source'[src] # NoSource
    PROVE  B2bInv'
<1>1. (\A src \in Sources : ConvertedToLines(source[src]))'
  BY DEF B2bInv, ConvertedToLines, HasLines
<1>2. ASSUME NEW k \in B2bCalls PROVE (KnowsOrder(b2bCall[k]) /\ KnowsPayment(b2bCall[k]))'
  <2>1. PICK x \in B2bCallRow : x = b2bCall[k] /\ KnowsOrder(x) /\ KnowsPayment(x)
    BY DEF B2bInv, B2bTypes
  <2>2. RowsStay
    BY DEF RowsStay
  <2>3. KnowsOrder(x)'
    BY <2>1, <2>2, StillKnown
  <2>4. QED
    BY <2>1, <2>3 DEF Unasserted, KnowsOrder, KnowsPayment
<1>3. B2bTypes' /\ ConfirmedOnce' /\ ConfirmedOrdersArePaid'
  <2>1. Unasserted' = Unasserted
    BY DEF Unasserted
  <2>2. QED
    BY <2>1 DEF B2bInv, B2bTypes, ConfirmedOnce, ConfirmedOrdersArePaid
<1>4. QED
  BY <1>1, <1>2, <1>3 DEF B2bInv

LEMMA CompanyRequestStep ==
    ASSUME B2bInv, CompanyRequest
    PROVE  B2bInv'
<1>1. UNCHANGED <<source, b2bOrder, payment, b2bCall, rushed, byHand>>
  BY DEF CompanyRequest, CreateCompany, UpdateCompany, SetPriceListItem,
         RemovePriceListItem, AddMember, UpdateMemberRole, RemoveMember,
         CompanyEdit, moneyVars
<1>2. QED
  BY <1>1, SourcesOnly DEF B2bInv, B2bTypes

LEMMA NewSourceStep ==
    ASSUME B2bInv, NEW src \in Sources,
           CreateQuote(src) \/ LockCart(src)
    PROVE  B2bInv'
<1>1. PICK status \in {"draft", "locked"}, c \in CompanyIds, u \in Members :
          source' = [source EXCEPT ![src] = SourceRow(status, c, u)]
  BY DEF CreateQuote, LockCart
<1>2. UNCHANGED <<b2bOrder, payment, b2bCall, rushed, byHand>>
  BY DEF CreateQuote, LockCart, moneyVars
<1>3. PICK row : /\ row = SourceRow(status, c, u)
                 /\ row \in QuoteRow
                 /\ row.status # "converted" /\ row # NoSource
  <2>1. PICK new : new = SourceRow(status, c, u)
    OBVIOUS
  <2>2. new = [status |-> status, company |-> c, by |-> u, order |-> "none"]
    BY <2>1 DEF SourceRow
  <2>3. new \in QuoteRow /\ new.status # "converted" /\ new # NoSource
    BY <2>2 DEF QuoteRow, NoSource
  <2>4. QED
    BY <2>1, <2>3
<1>4. /\ source' \in [Sources -> {NoSource} \union QuoteRow]
      /\ \A s \in Sources : s # src => source'[s] = source[s]
      /\ source'[src] = row
  BY <1>1, <1>3 DEF B2bInv, B2bTypes
<1>5. QED
  BY <1>2, <1>3, <1>4, SourcesOnly

LEMMA TransitionReadStep ==
    ASSUME B2bInv, NEW k \in B2bCalls, NEW q \in Quotes, TransitionRead(k, q)
    PROVE  B2bInv'
<1>1. PICK edge \in QuoteMoves :
          /\ source[q].status = edge[1]
          /\ GoB2b(k, [at |-> "transition", src |-> q,
                       row |-> [source[q] EXCEPT !.status = edge[2]]])
          /\ UNCHANGED <<source, b2bOrder, payment, rushed, byHand>>
  BY DEF TransitionRead, moneyVars
<1>2. /\ edge[1] \in {"draft", "submitted", "accepted"}
      /\ edge[2] \in {"submitted", "accepted", "cancelled"}
  BY DEF QuoteMoves
<1>3. source[q] \in QuoteRow
  BY <1>1, <1>2 DEF B2bInv, B2bTypes, NoSource, Sources
<1>4. PICK row : /\ row = [source[q] EXCEPT !.status = edge[2]]
                 /\ row \in QuoteRow /\ row.status # "converted"
  <2>1. PICK new : new = [source[q] EXCEPT !.status = edge[2]]
    OBVIOUS
  <2>2. new \in QuoteRow /\ new.status = edge[2]
    BY <1>2, <1>3, <2>1 DEF QuoteRow
  <2>3. QED
    BY <1>2, <2>1, <2>2
<1>5. PICK x : x = [at |-> "transition", src |-> q, row |-> row]
  OBVIOUS
<1>6. x \in B2bCallRow /\ GoB2b(k, x)
  BY <1>1, <1>4, <1>5 DEF B2bCallRow
<1>7. /\ KnowsOrder(x) /\ KnowsPayment(x)
      /\ \A o : ~IsConfirming(x, o) /\ ~IsApproving(x, o)
  BY <1>4, <1>5 DEF KnowsOrder, KnowsPayment, ConvertedToLines, IsConfirming, IsApproving
<1>8. QED
  BY <1>1, <1>6, <1>7, B2bStays

LEMMA TransitionSaveStep ==
    ASSUME B2bInv, NEW k \in B2bCalls, TransitionSave(k)
    PROVE  B2bInv'
<1>1. PICK call \in B2bCallRow : call = b2bCall[k]
  BY DEF B2bInv, B2bTypes
<1>2. PICK src \in Sources, row \in QuoteRow : src = call.src /\ row = call.row
  BY <1>1, B2bCallFields DEF TransitionSave, Sources
<1>3. /\ source' = [source EXCEPT ![src] = row] /\ GoB2b(k, IdleB2b)
      /\ UNCHANGED <<b2bOrder, payment, rushed, byHand>>
  BY <1>1, <1>2 DEF TransitionSave, moneyVars
<1>4. ConvertedToLines(row)
  BY <1>1, <1>2 DEF TransitionSave, B2bInv, KnowsOrder
<1>5. QED
  BY <1>3, <1>4, SourceSaved

LEMMA ConvertibleIsThere ==
    ASSUME NEW src, source[src].status = ConvertibleStatus(src)
    PROVE  source[src] # NoSource
  BY DEF ConvertibleStatus, NoSource

LEMMA ConvertReadStep ==
    ASSUME B2bInv, NEW k \in B2bCalls, NEW src \in DOMAIN source, ConvertRead(k, src)
    PROVE  B2bInv'
<1>1. src \in Sources
  BY DEF B2bInv, B2bTypes
<1>2. PICK x : x = [at |-> "insert", src |-> src]
  OBVIOUS
<1>3. /\ x \in B2bCallRow /\ GoB2b(k, x)
      /\ UNCHANGED <<source, b2bOrder, payment, rushed, byHand>>
      /\ source[src].status = ConvertibleStatus(src)
  BY <1>1, <1>2 DEF ConvertRead, B2bCallRow, moneyVars
<1>4. /\ KnowsOrder(x) /\ KnowsPayment(x)
      /\ \A o : ~IsConfirming(x, o) /\ ~IsApproving(x, o)
  BY <1>2, <1>3, ConvertibleIsThere DEF KnowsOrder, KnowsPayment, IsConfirming, IsApproving
<1>5. QED
  BY <1>3, <1>4, B2bStays

LEMMA SaveDraftLinesStep ==
    ASSUME B2bInv, NEW k \in B2bCalls, SaveDraftLines(k)
    PROVE  B2bInv'
<1>1. PICK call \in B2bCallRow : call = b2bCall[k]
  BY DEF B2bInv, B2bTypes
<1>2. PICK src \in Sources, o \in B2bOrders : src = call.src /\ o = call.order
  BY <1>1, B2bCallFields DEF SaveDraftLines
<1>3. PICK x : x = [at |-> "mark", src |-> src, order |-> o]
  OBVIOUS
<1>4. call.at = "lines" /\ x = [call EXCEPT !.at = "mark"] /\ x \in B2bCallRow
  BY <1>1, <1>2, <1>3, B2bCallFields DEF SaveDraftLines, B2bCallRow
<1>5. b2bOrder[o] \in B2bOrderRow
  BY <1>1, <1>2, <1>4 DEF B2bInv, B2bTypes, KnowsOrder
<1>6. PICK row : /\ row = [b2bOrder[o] EXCEPT !.lines = TRUE]
                 /\ row \in B2bOrderRow
                 /\ row.lines /\ row.status = b2bOrder[o].status
  <2>1. PICK new : new = [b2bOrder[o] EXCEPT !.lines = TRUE]
    OBVIOUS
  <2>2. new \in B2bOrderRow /\ new.lines /\ new.status = b2bOrder[o].status
    BY <1>5, <2>1 DEF B2bOrderRow
  <2>3. QED
    BY <2>1, <2>2
<1>7. /\ b2bOrder' = [b2bOrder EXCEPT ![o] = row] /\ GoB2b(k, x)
      /\ UNCHANGED <<source, payment, rushed, byHand>>
  BY <1>1, <1>2, <1>4, <1>6 DEF SaveDraftLines, moneyVars, B2bInv, B2bTypes
<1>8. /\ b2bOrder' \in [B2bOrders -> {NoB2bOrder} \union B2bOrderRow]
      /\ b2bOrder'[o] = row
      /\ \A q \in B2bOrders : q # o => b2bOrder'[q] = b2bOrder[q]
  BY <1>6, <1>7 DEF B2bInv, B2bTypes
<1>9. row # NoB2bOrder
  BY <1>6 DEF B2bOrderRow, NoB2bOrder
<1>10. RowsStay
  BY <1>6, <1>7, <1>8, <1>9 DEF RowsStay
<1>11. (\A s \in Sources : ConvertedToLines(source[s]))'
  BY <1>7, <1>10, StillKnown DEF B2bInv
<1>12. /\ KnowsOrder(x)' /\ KnowsPayment(x)
       /\ \A q : ~IsConfirming(x, q) /\ ~IsApproving(x, q)
  <2>1. source[src] # NoSource
    BY <1>1, <1>2, <1>4 DEF B2bInv, KnowsOrder
  <2>2. QED
    BY <1>3, <1>6, <1>7, <1>8, <1>9, <2>1
       DEF KnowsOrder, KnowsPayment, HasLines, IsConfirming, IsApproving
<1>13. \A q \in B2bOrders : b2bOrder'[q].status = b2bOrder[q].status
  BY <1>6, <1>8
<1>14. source' \in [Sources -> {NoSource} \union QuoteRow]
  BY <1>7 DEF B2bInv, B2bTypes
<1>15. payment' = payment /\ rushed' = rushed /\ byHand' = byHand /\ GoB2b(k, x)
  BY <1>7
<1>16. QED
  BY <1>4, <1>8, <1>10, <1>11, <1>12, <1>13, <1>14, <1>15, B2bQuiet

LEMMA MarkConvertedStep ==
    ASSUME B2bInv, NEW k \in B2bCalls, MarkConverted(k)
    PROVE  B2bInv'
<1>1. PICK call \in B2bCallRow : call = b2bCall[k]
  BY DEF B2bInv, B2bTypes
<1>2. PICK q \in Quotes, o \in B2bOrders : q = call.src /\ o = call.order
  BY <1>1, B2bCallFields DEF MarkConverted
<1>3. source[q] \in QuoteRow
  BY <1>1, <1>2 DEF MarkConverted, B2bInv, B2bTypes, NoSource, Sources
<1>4. PICK row : /\ row = [source[q] EXCEPT !.status = "converted", !.order = o]
                 /\ row \in QuoteRow /\ row.order = o
  <2>1. PICK new : new = [source[q] EXCEPT !.status = "converted", !.order = o]
    OBVIOUS
  <2>2. new \in QuoteRow /\ new.order = o
    BY <1>3, <2>1 DEF QuoteRow
  <2>3. QED
    BY <2>1, <2>2
<1>5. PICK x : x = [at |-> "transition", src |-> q, row |-> row]
  OBVIOUS
<1>6. /\ x \in B2bCallRow /\ GoB2b(k, x)
      /\ UNCHANGED <<source, b2bOrder, payment, rushed, byHand>>
  BY <1>1, <1>2, <1>4, <1>5 DEF MarkConverted, B2bCallRow, moneyVars
<1>7. HasLines(o)
  BY <1>1, <1>2 DEF MarkConverted, B2bInv, KnowsOrder
<1>8. /\ KnowsOrder(x) /\ KnowsPayment(x)
      /\ \A p : ~IsConfirming(x, p) /\ ~IsApproving(x, p)
  BY <1>4, <1>5, <1>7
     DEF KnowsOrder, KnowsPayment, ConvertedToLines, IsConfirming, IsApproving
<1>9. QED
  BY <1>6, <1>8, B2bStays

LEMMA ConvertCartStep ==
    ASSUME B2bInv, NEW k \in B2bCalls, ConvertCart(k)
    PROVE  B2bInv'
<1>1. PICK call \in B2bCallRow : call = b2bCall[k]
  BY DEF B2bInv, B2bTypes
<1>2. PICK src \in Sources, o \in B2bOrders : src = call.src /\ o = call.order
  BY <1>1, B2bCallFields DEF ConvertCart, Sources
<1>3. HasLines(o) /\ source[src] \in QuoteRow
  BY <1>1, <1>2 DEF ConvertCart, B2bInv, B2bTypes, KnowsOrder
<1>4. PICK row : row = [source[src] EXCEPT !.status = "converted", !.order = o]
  OBVIOUS
<1>5. /\ GoB2b(k, IdleB2b) /\ UNCHANGED <<b2bOrder, payment, rushed, byHand>>
      /\ source' = [source EXCEPT ![src] = row]
  BY <1>1, <1>2, <1>4 DEF ConvertCart, moneyVars, B2bInv, B2bTypes
<1>6. row \in QuoteRow /\ row.order = o
  BY <1>3, <1>4 DEF QuoteRow
<1>7. ConvertedToLines(row)
  BY <1>3, <1>6 DEF ConvertedToLines
<1>8. QED
  BY <1>5, <1>6, <1>7, SourceSaved

\* A call that saves the row of an order, and goes on as x, which is about to do nothing
\* more with the status of an order.
LEMMA B2bOrderSaved ==
    ASSUME B2bInv, NEW k \in B2bCalls, NEW x \in B2bCallRow, GoB2b(k, x),
           UNCHANGED <<source, payment, rushed, byHand>>,
           NEW o \in B2bOrders, NEW row \in B2bOrderRow,
           b2bOrder' = [b2bOrder EXCEPT ![o] = row],
           HasLines(o) => row.lines,
           KnowsOrder(x)', KnowsPayment(x),
           \A p : ~IsConfirming(x, p) /\ ~IsApproving(x, p),
           row.status = "confirmed" =>
               \/ o \in byHand
               \/ payment[o] # "none" /\ (payment[o] = "failed" => o \in rushed),
           o \notin Unasserted => \A j \in B2bCalls \ {k} :
               /\ IsConfirming(b2bCall[j], o) => row.status \notin {"draft", "confirmed"}
               /\ row.status = "confirmed" => ~IsApproving(b2bCall[j], o)
    PROVE  B2bInv'
<1>1. /\ b2bCall' \in [B2bCalls -> B2bCallRow]
      /\ b2bCall'[k] = x
      /\ \A j \in B2bCalls \ {k} : b2bCall'[j] = b2bCall[j]
  BY B2bCallMoves
<1>2. /\ b2bOrder' \in [B2bOrders -> {NoB2bOrder} \union B2bOrderRow]
      /\ b2bOrder'[o] = row /\ row # NoB2bOrder
      /\ \A q \in B2bOrders : q # o => b2bOrder'[q] = b2bOrder[q]
  <2>1. row # NoB2bOrder
    BY DEF B2bOrderRow, NoB2bOrder
  <2>2. QED
    BY <2>1 DEF B2bInv, B2bTypes
<1>3. B2bTypes'
  BY <1>1, <1>2 DEF B2bInv, B2bTypes
<1>4. RowsStay
  BY <1>2 DEF RowsStay, HasLines
<1>5. (\A s \in Sources : ConvertedToLines(source[s]))'
  BY <1>4, StillKnown DEF B2bInv
<1>6. ASSUME NEW j \in B2bCalls PROVE KnowsOrder(b2bCall[j])' /\ KnowsPayment(b2bCall[j])'
  <2>1. CASE j = k
    BY <1>1, <2>1 DEF Unasserted, KnowsPayment, KnowsOrder
  <2>2. CASE j # k
    BY <1>1, <1>4, <2>2, StillKnown DEF B2bInv, B2bTypes, Unasserted, KnowsPayment, KnowsOrder
  <2>3. QED
    BY <2>1, <2>2
<1>7. ConfirmedOnce'
  <2>1. \A p \in B2bOrders, j \in B2bCalls :
            /\ IsConfirming(b2bCall'[j], p) => j # k /\ IsConfirming(b2bCall[j], p)
            /\ IsApproving(b2bCall'[j], p) => j # k /\ IsApproving(b2bCall[j], p)
    BY <1>1
  <2>2. QED
    BY <1>2, <2>1 DEF B2bInv, Unasserted, ConfirmedOnce
<1>8. ConfirmedOrdersArePaid'
  BY <1>2 DEF B2bInv, ConfirmedOrdersArePaid
<1>9. QED
  BY <1>3, <1>5, <1>6, <1>7, <1>8 DEF B2bInv

LEMMA InsertDraftStep ==
    ASSUME B2bInv, NEW k \in B2bCalls, InsertDraft(k)
    PROVE  B2bInv'
<1>1. PICK call \in B2bCallRow : call = b2bCall[k]
  BY DEF B2bInv, B2bTypes
<1>2. PICK src \in Sources : src = call.src
  BY <1>1, B2bCallFields DEF InsertDraft
<1>3. PICK o \in B2bOrders :
          /\ b2bOrder[o] = NoB2bOrder
          /\ b2bOrder' = [b2bOrder EXCEPT ![o] = NewB2bOrder(src)]
          /\ GoB2b(k, [at |-> "lines", src |-> src, order |-> o])
  BY <1>1, <1>2 DEF InsertDraft
<1>4. UNCHANGED <<source, payment, rushed, byHand>>
  BY DEF InsertDraft, moneyVars
<1>5. source[src] \in QuoteRow
  BY <1>1, <1>2 DEF InsertDraft, B2bInv, B2bTypes, KnowsOrder
<1>6. PICK c \in CompanyIds : c = source[src].company
  BY <1>5 DEF QuoteRow
<1>7. PICK row : row = NewB2bOrder(src)
  OBVIOUS
<1>8. row = [status |-> "draft", company |-> c, lines |-> FALSE]
  BY <1>6, <1>7 DEF NewB2bOrder
<1>9. row \in B2bOrderRow /\ row.status = "draft"
  BY <1>8 DEF B2bOrderRow
<1>10. PICK x : x = [at |-> "lines", src |-> src, order |-> o]
  OBVIOUS
<1>11. x \in B2bCallRow /\ GoB2b(k, x)
  BY <1>3, <1>10 DEF B2bCallRow
<1>12. b2bOrder'[o] = row /\ row # NoB2bOrder
  BY <1>3, <1>7, <1>9 DEF B2bInv, B2bTypes, B2bOrderRow, NoB2bOrder
<1>13. /\ KnowsOrder(x)' /\ KnowsPayment(x)
       /\ \A p : ~IsConfirming(x, p) /\ ~IsApproving(x, p)
  <2>1. source[src] # NoSource
    BY <1>5 DEF QuoteRow, NoSource
  <2>2. QED
    BY <1>4, <1>10, <1>12, <2>1 DEF KnowsOrder, KnowsPayment, IsConfirming, IsApproving
<1>14. \A j \in B2bCalls : ~IsConfirming(b2bCall[j], o)
  BY <1>3 DEF B2bInv, KnowsOrder, IsConfirming
<1>15. HasLines(o) => row.lines
  BY <1>3 DEF HasLines
<1>16. b2bOrder' = [b2bOrder EXCEPT ![o] = row]
  BY <1>3, <1>7
<1>17. QED
  BY <1>4, <1>9, <1>11, <1>13, <1>14, <1>15, <1>16, B2bOrderSaved

\* A call that asks for a status.
LEMMA AskForStatus ==
    ASSUME B2bInv, NEW k \in B2bCalls, NEW o \in B2bOrders,
           b2bCall[k] = IdleB2b,
           ApproveB2bOrder(k, o) \/ UpdateStatus(k, o)
    PROVE  B2bInv'
<1>1. PICK at \in {"status", "save"}, to \in {"approved", "confirmed", "fulfilled", "cancelled"} :
          /\ GoB2b(k, [at |-> at, order |-> o, to |-> to])
          /\ to = "approved" => b2bOrder[o].status = "draft"
          /\ b2bOrder[o].status \in {"draft", "approved", "confirmed"}
          /\ byHand' = IF to = "confirmed" THEN byHand \union {o} ELSE byHand
  <2>1. CASE ApproveB2bOrder(k, o)
    BY <2>1 DEF ApproveB2bOrder, moneyVars
  <2>2. CASE UpdateStatus(k, o)
    BY <2>2 DEF UpdateStatus, OrderMoves
  <2>3. QED
    BY <2>1, <2>2
<1>2. b2bOrder[o] # NoB2bOrder
  BY <1>1 DEF NoB2bOrder
<1>3. UNCHANGED <<source, b2bOrder, payment, rushed>>
  BY DEF ApproveB2bOrder, UpdateStatus, moneyVars
<1>4. PICK x : x = [at |-> at, order |-> o, to |-> to]
  OBVIOUS
<1>5. /\ x \in B2bCallRow /\ GoB2b(k, x)
      /\ x.at \in {"status", "save"} /\ x.order = o /\ x.to = to
  BY <1>1, <1>4 DEF B2bCallRow
<1>6. /\ b2bCall' \in [B2bCalls -> B2bCallRow]
      /\ b2bCall'[k] = x
      /\ \A j \in B2bCalls \ {k} : b2bCall'[j] = b2bCall[j]
  BY <1>5, B2bCallMoves
<1>7. B2bTypes' /\ ConfirmedOrdersArePaid'
  BY <1>1, <1>3, <1>6 DEF B2bInv, B2bTypes, ConfirmedOrdersArePaid
<1>8. RowsStay
  BY <1>3 DEF RowsStay
<1>9. (\A s \in Sources : ConvertedToLines(source[s]))'
  BY <1>3, <1>8, StillKnown DEF B2bInv
<1>10. ASSUME NEW j \in B2bCalls PROVE KnowsOrder(b2bCall[j])' /\ KnowsPayment(b2bCall[j])'
  <2>1. CASE j = k
    BY <1>1, <1>2, <1>3, <1>5, <1>6, <2>1 DEF KnowsPayment, KnowsOrder
  <2>2. CASE j # k
    <3>1. PICK y \in B2bCallRow : y = b2bCall[j] /\ KnowsOrder(y) /\ KnowsPayment(y)
      BY DEF B2bInv, B2bTypes
    <3>2. KnowsOrder(y)'
      BY <1>8, <3>1, StillKnown
    <3>3. KnowsPayment(y)'
      BY <1>1, <1>3, <3>1 DEF Unasserted, KnowsPayment
    <3>4. QED
      BY <1>6, <2>2, <3>1, <3>2, <3>3 DEF Unasserted, KnowsPayment, KnowsOrder
  <2>3. QED
    BY <2>1, <2>2
<1>11. ConfirmedOnce'
  <2>1. ASSUME NEW p \in B2bOrders, NEW j \in B2bCalls, p \notin Unasserted'
        PROVE  /\ p \notin Unasserted
               /\ IsConfirming(b2bCall'[j], p) => IsConfirming(b2bCall[j], p)
               /\ p # o => (IsApproving(b2bCall'[j], p) => IsApproving(b2bCall[j], p))
               /\ to # "approved" =>
                      (IsApproving(b2bCall'[j], p) => IsApproving(b2bCall[j], p))
    BY <1>1, <1>3, <1>5, <1>6, <2>1 DEF Unasserted, IsConfirming, IsApproving
  <2>2. to = "approved" /\ o \notin Unasserted =>
            \A j \in B2bCalls : ~IsConfirming(b2bCall[j], o)
    BY <1>1 DEF B2bInv, ConfirmedOnce
  <2>3. to = "approved" => b2bOrder[o].status # "confirmed"
    BY <1>1
  <2>4. QED
    BY <1>3, <2>1, <2>2, <2>3 DEF B2bInv, ConfirmedOnce
<1>12. QED
  BY <1>7, <1>9, <1>10, <1>11 DEF B2bInv

\* A call that ends or dies.
LEMMA CallEnds ==
    ASSUME B2bInv, NEW k \in B2bCalls, GoB2b(k, IdleB2b),
           UNCHANGED <<source, b2bOrder, payment, rushed, byHand>>
    PROVE  B2bInv'
<1>1. PICK x : x = IdleB2b
  OBVIOUS
<1>2. x \in B2bCallRow
  BY <1>1 DEF B2bCallRow
<1>3. /\ KnowsOrder(x) /\ KnowsPayment(x)
      /\ \A o : ~IsConfirming(x, o) /\ ~IsApproving(x, o)
  BY <1>1 DEF IdleB2b, KnowsOrder, KnowsPayment, IsConfirming, IsApproving
<1>4. QED
  BY <1>1, <1>2, <1>3, B2bStays

LEMMA TransitionStatusReadStep ==
    ASSUME B2bInv, NEW k \in B2bCalls, TransitionStatusRead(k)
    PROVE  B2bInv'
<1>1. PICK call \in B2bCallRow : call = b2bCall[k]
  BY DEF B2bInv, B2bTypes
<1>2. UNCHANGED <<source, b2bOrder, payment, rushed, byHand>> /\ call.at = "status"
  BY <1>1 DEF TransitionStatusRead, moneyVars
<1>3. CASE GoB2b(k, IdleB2b)
  BY <1>2, <1>3, CallEnds
<1>4. CASE GoB2b(k, [call EXCEPT !.at = "save"])
  <2>1. PICK o \in B2bOrders, to \in {"approved", "confirmed", "fulfilled", "cancelled"} :
            call = [at |-> "status", order |-> o, to |-> to]
    BY <1>2, B2bCallFields
  <2>2. PICK x : x = [at |-> "save", order |-> o, to |-> to]
    OBVIOUS
  <2>3. x \in B2bCallRow /\ GoB2b(k, x)
    BY <1>4, <2>1, <2>2 DEF B2bCallRow
  <2>4. KnowsOrder(call) /\ KnowsPayment(call)
    BY <1>1 DEF B2bInv
  <2>5. KnowsOrder(x) /\ KnowsPayment(x)
    BY <2>1, <2>2, <2>4 DEF KnowsOrder, KnowsPayment
  <2>6. \A p \in B2bOrders : /\ IsConfirming(x, p) => IsConfirming(call, p)
                             /\ IsApproving(x, p) => IsApproving(call, p)
    BY <2>1, <2>2 DEF IsConfirming, IsApproving
  <2>7. QED
    BY <1>1, <1>2, <2>3, <2>5, <2>6, B2bStays
<1>5. QED
  BY <1>1, <1>3, <1>4 DEF TransitionStatusRead

LEMMA TransitionStatusSaveStep ==
    ASSUME B2bInv, NEW k \in B2bCalls, TransitionStatusSave(k)
    PROVE  B2bInv'
<1>1. PICK call \in B2bCallRow : call = b2bCall[k]
  BY DEF B2bInv, B2bTypes
<1>2. call.at = "save"
  BY <1>1 DEF TransitionStatusSave
<1>3. PICK o \in B2bOrders, to \in {"approved", "confirmed", "fulfilled", "cancelled"} :
          o = call.order /\ to = call.to
  BY <1>2, B2bCallFields
<1>4. b2bOrder[o] \in B2bOrderRow
  BY <1>1, <1>2, <1>3 DEF B2bInv, B2bTypes, KnowsOrder
<1>5. PICK row : row = [b2bOrder[o] EXCEPT !.status = to]
  OBVIOUS
<1>6. row \in B2bOrderRow /\ row.status = to /\ row.lines = b2bOrder[o].lines
  BY <1>4, <1>5 DEF B2bOrderRow
<1>7. /\ b2bOrder' = [b2bOrder EXCEPT ![o] = row]
      /\ UNCHANGED <<source, payment, rushed, byHand>>
      /\ GoB2b(k, IdleB2b)
  BY <1>1, <1>3, <1>5 DEF TransitionStatusSave, moneyVars
<1>8. PICK x : x = IdleB2b
  OBVIOUS
<1>9. x \in B2bCallRow /\ GoB2b(k, x)
  BY <1>7, <1>8 DEF B2bCallRow
<1>10. /\ KnowsOrder(x)' /\ KnowsPayment(x)
       /\ \A p : ~IsConfirming(x, p) /\ ~IsApproving(x, p)
  BY <1>8 DEF IdleB2b, KnowsOrder, KnowsPayment, IsConfirming, IsApproving
<1>11. HasLines(o) => row.lines
  BY <1>6 DEF HasLines
<1>12. KnowsPayment(call)
  BY <1>1 DEF B2bInv
<1>13. to = "confirmed" =>
           \/ o \in byHand
           \/ payment[o] # "none" /\ (payment[o] = "failed" => o \in rushed)
  BY <1>2, <1>3, <1>12 DEF Unasserted, KnowsPayment
<1>14. ASSUME o \notin Unasserted, NEW j \in B2bCalls \ {k}
       PROVE  /\ IsConfirming(b2bCall[j], o) => to \notin {"draft", "confirmed"}
              /\ to = "confirmed" => ~IsApproving(b2bCall[j], o)
  <2>1. to = "confirmed" => IsConfirming(b2bCall[k], o)
    BY <1>1, <1>2, <1>3 DEF IsConfirming
  <2>2. QED
    BY <1>14, <2>1 DEF B2bInv, Unasserted, ConfirmedOnce
<1>15. QED
  BY <1>6, <1>7, <1>9, <1>10, <1>11, <1>13, <1>14, B2bOrderSaved

LEMMA ConfirmReadStep ==
    ASSUME B2bInv, NEW k \in B2bCalls, NEW o \in B2bOrders, ConfirmRead(k, o)
    PROVE  B2bInv'
<1>1. PICK capture \in BOOLEAN : GoB2b(k, [at |-> "gift", order |-> o, capture |-> capture])
  BY DEF ConfirmRead
<1>2. /\ UNCHANGED <<source, b2bOrder, payment, byHand>>
      /\ b2bCall[k] = IdleB2b /\ b2bOrder[o].status = "approved"
      /\ rushed \subseteq rushed' /\ rushed' \subseteq rushed \union {o}
      /\ o \in rushed' \/ \A j \in B2bCalls : ~Confirms(j, o)
  BY DEF ConfirmRead
<1>3. PICK x : x = [at |-> "gift", order |-> o, capture |-> capture]
  OBVIOUS
<1>4. x \in B2bCallRow /\ GoB2b(k, x)
  BY <1>1, <1>3 DEF B2bCallRow
<1>5. /\ b2bCall' \in [B2bCalls -> B2bCallRow]
      /\ b2bCall'[k] = x
      /\ \A j \in B2bCalls \ {k} : b2bCall'[j] = b2bCall[j]
  BY <1>4, B2bCallMoves
<1>6. B2bTypes' /\ ConfirmedOrdersArePaid'
  BY <1>2, <1>5 DEF B2bInv, B2bTypes, ConfirmedOrdersArePaid
<1>7. RowsStay
  BY <1>2 DEF RowsStay
<1>8. (\A s \in Sources : ConvertedToLines(source[s]))'
  BY <1>2, <1>7, StillKnown DEF B2bInv
<1>9. ASSUME NEW j \in B2bCalls PROVE KnowsOrder(b2bCall[j])' /\ KnowsPayment(b2bCall[j])'
  <2>1. CASE j = k
    <3>1. b2bOrder[o] # NoB2bOrder
      BY <1>2 DEF NoB2bOrder
    <3>2. QED
      BY <1>2, <1>3, <1>5, <2>1, <3>1 DEF KnowsOrder, KnowsPayment
  <2>2. CASE j # k
    <3>1. PICK y \in B2bCallRow : y = b2bCall[j] /\ KnowsOrder(y) /\ KnowsPayment(y)
      BY DEF B2bInv, B2bTypes
    <3>2. KnowsOrder(y)'
      BY <1>7, <3>1, StillKnown
    <3>3. KnowsPayment(y)'
      BY <1>2, <3>1 DEF Unasserted, KnowsPayment
    <3>4. QED
      BY <1>5, <2>2, <3>1, <3>2, <3>3 DEF KnowsOrder, KnowsPayment
  <2>3. QED
    BY <2>1, <2>2
<1>10. ConfirmedOnce'
  <2>1. ASSUME NEW p \in B2bOrders, p # o, NEW j \in B2bCalls
        PROVE  /\ IsConfirming(b2bCall'[j], p) => IsConfirming(b2bCall[j], p)
               /\ IsApproving(b2bCall'[j], p) => IsApproving(b2bCall[j], p)
    BY <1>3, <1>5, <2>1 DEF IsConfirming, IsApproving
  <2>2. ASSUME o \notin Unasserted', NEW j \in B2bCalls
        PROVE  /\ IsConfirming(b2bCall'[j], o) => j = k
               /\ ~IsApproving(b2bCall'[j], o)
    BY <1>2, <1>3, <1>5, <2>2 DEF Unasserted, Confirms, IsConfirming, IsApproving
  <2>3. QED
    BY <1>2, <2>1, <2>2 DEF B2bInv, Unasserted, ConfirmedOnce
<1>11. QED
  BY <1>6, <1>8, <1>9, <1>10 DEF B2bInv

\* How a confirmation of order o goes on: it asks the provider, captures, or asks for a
\* status other than approved.
GoesOn(o) ==
    [at : {"ask", "capture"}, order : {o}, capture : BOOLEAN] \union
    [at : {"status"}, order : {o}, to : {"confirmed", "cancelled"}] \union
    [at : {"capturing"}, order : {o}, read : {"authorized", "pending"}]

LEMMA GoesOnFields ==
    ASSUME NEW o \in B2bOrders, NEW x \in GoesOn(o)
    PROVE  /\ x \in B2bCallRow
           /\ x.at \in {"ask", "capture", "capturing", "status"} /\ x.order = o
           /\ x.at = "status" => x.to # "approved"
           /\ \A p : ~IsApproving(x, p) /\ (IsConfirming(x, p) => p = o)
  BY DEF GoesOn, B2bCallRow, IsApproving, IsConfirming

\* A confirmation that has to pay.
ToPay(o) == [at : {"gift", "pay", "ask"}, order : {o}, capture : BOOLEAN]

LEMMA MustPay ==
    ASSUME NEW call \in B2bCallRow, call.at \in {"gift", "pay", "ask"}
    PROVE  call.order \in B2bOrders /\ call \in ToPay(call.order)
  BY DEF B2bCallRow, IdleB2b, ToPay

LEMMA PaysNext ==
    ASSUME NEW o \in B2bOrders, NEW call \in ToPay(o),
           NEW at \in {"pay", "ask", "capture"}, NEW x, x = [call EXCEPT !.at = at]
    PROVE  /\ x \in B2bCallRow /\ x.at = at /\ x.order = o
           /\ at # "pay" => x \in GoesOn(o)
<1>1. x \in [at : {at}, order : {o}, capture : BOOLEAN]
  BY DEF ToPay
<1>2. QED
  BY <1>1 DEF B2bCallRow, GoesOn

LEMMA PaidGoesOn ==
    ASSUME NEW k \in B2bCalls, NEW o \in B2bOrders, NEW call \in ToPay(o),
           call = b2bCall[k], NEW status, NEW x, x = Paid(k, status)
    PROVE  /\ x \in GoesOn(o)
           /\ x.at \in {"capture", "status"}
           /\ status = "failed" => x.at = "status" /\ x.to = "cancelled"
<1>1. call.order = o
  BY DEF ToPay
<1>2. \/ x = [at |-> "status", order |-> o, to |-> "cancelled"]
      \/ /\ status # "failed"
         /\ \/ x = [at |-> "status", order |-> o, to |-> "confirmed"]
            \/ x = [call EXCEPT !.at = "capture"]
  BY <1>1 DEF Paid, ToStatus
<1>3. CASE x = [call EXCEPT !.at = "capture"] /\ status # "failed"
  BY <1>3, PaysNext
<1>4. CASE x # [call EXCEPT !.at = "capture"] \/ status = "failed"
  BY <1>2, <1>4 DEF GoesOn
<1>5. QED
  BY <1>3, <1>4

\* A confirmation that goes on with the payment as it is.
LEMMA ConfirmationGoesOn ==
    ASSUME B2bInv, NEW k \in B2bCalls, NEW o \in B2bOrders,
           NEW x \in GoesOn(o), GoB2b(k, x),
           UNCHANGED <<source, b2bOrder, payment, rushed, byHand>>,
           b2bCall[k].at \in {"gift", "pay", "ask", "capture", "capturing"},
           b2bCall[k].order = o, KnowsPayment(x)
    PROVE  B2bInv'
<1>1. /\ x \in B2bCallRow
      /\ x.at \in {"ask", "capture", "capturing", "status"} /\ x.order = o
      /\ \A p : ~IsApproving(x, p) /\ (IsConfirming(x, p) => p = o)
  BY GoesOnFields
<1>2. IsConfirming(b2bCall[k], o) /\ b2bOrder[o] # NoB2bOrder
  BY DEF IsConfirming, B2bInv, KnowsOrder
<1>3. KnowsOrder(x)
  BY <1>1, <1>2 DEF KnowsOrder
<1>4. QED
  BY <1>1, <1>2, <1>3, B2bStays

\* A confirmation that gives up and has the order cancelled.
LEMMA GivesUp ==
    ASSUME B2bInv, NEW k \in B2bCalls, NEW o \in B2bOrders,
           GoB2b(k, ToStatus(k, "cancelled")),
           UNCHANGED <<source, b2bOrder, payment, rushed, byHand>>,
           b2bCall[k].at \in {"gift", "pay", "ask", "capture", "capturing"},
           b2bCall[k].order = o
    PROVE  B2bInv'
<1>1. PICK x : x = [at |-> "status", order |-> o, to |-> "cancelled"]
  OBVIOUS
<1>2. x \in GoesOn(o) /\ GoB2b(k, x) /\ KnowsPayment(x)
  BY <1>1 DEF GoesOn, ToStatus, KnowsPayment
<1>3. QED
  BY <1>2, ConfirmationGoesOn

LEMMA ConfirmRedeemGiftStep ==
    ASSUME B2bInv, NEW k \in B2bCalls, ConfirmRedeemGift(k)
    PROVE  B2bInv'
<1>1. PICK call \in B2bCallRow : call = b2bCall[k]
  BY DEF B2bInv, B2bTypes
<1>2. call.at = "gift" /\ UNCHANGED <<source, b2bOrder, payment, rushed, byHand>>
  BY <1>1 DEF ConfirmRedeemGift, moneyVars
<1>3. PICK o \in B2bOrders : o = call.order /\ call \in ToPay(o)
  BY <1>2, MustPay
<1>4. CASE GoB2b(k, [call EXCEPT !.at = "pay"])
  <2>1. PICK x : x = [call EXCEPT !.at = "pay"]
    OBVIOUS
  <2>2. x \in B2bCallRow /\ x.at = "pay" /\ x.order = o /\ GoB2b(k, x)
    BY <1>3, <1>4, <2>1, PaysNext
  <2>3. KnowsOrder(call)
    BY <1>1 DEF B2bInv
  <2>4. KnowsOrder(x) /\ KnowsPayment(x)
    BY <1>2, <1>3, <2>2, <2>3 DEF KnowsOrder, KnowsPayment
  <2>5. \A p \in B2bOrders : /\ IsConfirming(x, p) => IsConfirming(call, p)
                             /\ IsApproving(x, p) => IsApproving(call, p)
    BY <1>2, <1>3, <2>2 DEF IsConfirming, IsApproving
  <2>6. QED
    BY <1>1, <1>2, <2>2, <2>4, <2>5, B2bStays
<1>5. CASE GoB2b(k, ToStatus(k, "cancelled"))
  BY <1>1, <1>2, <1>3, <1>5, GivesUp
<1>6. QED
  BY <1>1, <1>4, <1>5 DEF ConfirmRedeemGift

LEMMA ConfirmAuthorizeStep ==
    ASSUME B2bInv, NEW k \in B2bCalls, ConfirmAuthorize(k)
    PROVE  B2bInv'
<1>1. PICK call \in B2bCallRow : call = b2bCall[k]
  BY DEF B2bInv, B2bTypes
<1>2. call.at = "pay" /\ UNCHANGED <<source, b2bOrder, rushed, byHand>>
  BY <1>1 DEF ConfirmAuthorize
<1>3. PICK o \in B2bOrders : o = call.order /\ call \in ToPay(o)
  BY <1>2, MustPay
<1>4. CASE /\ payment' = [payment EXCEPT ![o] = "pending"]
           /\ GoB2b(k, [call EXCEPT !.at = "ask"])
  <2>1. PICK x : x = [call EXCEPT !.at = "ask"]
    OBVIOUS
  <2>2. x \in GoesOn(o) /\ x.at = "ask" /\ x.order = o /\ GoB2b(k, x)
    BY <1>3, <1>4, <2>1, PaysNext
  <2>3. PICK status : status = "pending"
    OBVIOUS
  <2>4. /\ status \in PaymentStatus \ {"none"} /\ payment' = [payment EXCEPT ![o] = status]
        /\ payment'[o] # "none"
    BY <1>4, <2>3 DEF PaymentStatus, B2bInv, B2bTypes
  <2>5. KnowsPayment(x)'
    BY <2>2, <2>4 DEF Unasserted, KnowsPayment
  <2>6. x \in B2bCallRow
    BY <2>2, GoesOnFields
  <2>7. QED
    BY <1>1, <1>2, <1>3, <2>2, <2>4, <2>5, <2>6, PaymentMoves
<1>5. CASE /\ payment[o] # "none" /\ UNCHANGED payment
           /\ GoB2b(k, Paid(k, payment[o]))
  <2>1. PICK x : x = Paid(k, payment[o])
    OBVIOUS
  <2>2. /\ x \in GoesOn(o) /\ x.at \in {"capture", "status"}
        /\ payment[o] = "failed" => x.at = "status" /\ x.to = "cancelled"
    BY <1>1, <1>3, <2>1, PaidGoesOn
  <2>3. x.order = o
    BY <2>2, GoesOnFields
  <2>4. KnowsPayment(x)
    BY <1>5, <2>2, <2>3 DEF Unasserted, KnowsPayment
  <2>5. QED
    BY <1>1, <1>2, <1>3, <1>5, <2>1, <2>2, <2>4, ConfirmationGoesOn
<1>6. CASE UNCHANGED payment /\ GoB2b(k, ToStatus(k, "cancelled"))
  BY <1>1, <1>2, <1>3, <1>6, GivesUp
<1>7. QED
  BY <1>1, <1>3, <1>4, <1>5, <1>6 DEF ConfirmAuthorize

LEMMA ConfirmAskStep ==
    ASSUME B2bInv, NEW k \in B2bCalls, ConfirmAsk(k)
    PROVE  B2bInv'
<1>1. PICK call \in B2bCallRow : call = b2bCall[k]
  BY DEF B2bInv, B2bTypes
<1>2. call.at = "ask" /\ UNCHANGED <<source, b2bOrder, rushed, byHand>>
  BY <1>1 DEF ConfirmAsk
<1>3. PICK o \in B2bOrders : o = call.order /\ call \in ToPay(o)
  BY <1>2, MustPay
<1>4. ASSUME NEW status \in {"pending", "authorized", "captured", "failed"},
             payment' = [payment EXCEPT ![o] = status], GoB2b(k, Paid(k, status))
      PROVE  B2bInv'
  <2>1. PICK x : x = Paid(k, status)
    OBVIOUS
  <2>2. /\ x \in GoesOn(o) /\ x.at \in {"capture", "status"}
        /\ status = "failed" => x.at = "status" /\ x.to = "cancelled"
    BY <1>1, <1>3, <2>1, PaidGoesOn
  <2>3. x \in B2bCallRow /\ x.order = o /\ (x.at = "status" => x.to # "approved")
    BY <2>2, GoesOnFields
  <2>4. status \in PaymentStatus \ {"none"} /\ payment'[o] = status
    BY <1>4 DEF PaymentStatus, B2bInv, B2bTypes
  <2>5. KnowsPayment(x)'
    BY <2>2, <2>3, <2>4 DEF Unasserted, KnowsPayment
  <2>6. QED
    BY <1>1, <1>2, <1>3, <1>4, <2>1, <2>2, <2>3, <2>4, <2>5, PaymentMoves
<1>5. CASE GoB2b(k, ToStatus(k, "cancelled")) /\ UNCHANGED payment
  BY <1>1, <1>2, <1>3, <1>5, GivesUp
<1>6. QED
  BY <1>1, <1>3, <1>4, <1>5 DEF ConfirmAsk

LEMMA ConfirmCaptureStep ==
    ASSUME B2bInv, NEW k \in B2bCalls, ConfirmCapture(k)
    PROVE  B2bInv'
<1>1. PICK call \in B2bCallRow : call = b2bCall[k]
  BY DEF B2bInv, B2bTypes
<1>2. call.at = "capture" /\ UNCHANGED <<source, b2bOrder, payment, rushed, byHand>>
  BY <1>1 DEF ConfirmCapture, moneyVars
<1>3. PICK o \in B2bOrders : o = call.order
  BY <1>2, B2bCallFields
<1>4. PICK status \in PaymentStatus : status = payment[o]
  BY DEF B2bInv, B2bTypes
<1>5. status # "none"
  BY <1>1, <1>2, <1>3, <1>4 DEF B2bInv, KnowsPayment
<1>6. PICK x :
          /\ GoB2b(k, x)
          /\ \/ /\ status \in {"authorized", "pending"}
                /\ x = [at |-> "capturing", order |-> o, read |-> status]
             \/ status = "captured" /\ x = [at |-> "status", order |-> o, to |-> "confirmed"]
             \/ x = [at |-> "status", order |-> o, to |-> "cancelled"]
  BY <1>1, <1>3, <1>4 DEF ConfirmCapture, ToStatus
<1>7. x \in GoesOn(o)
  BY <1>6 DEF GoesOn
<1>8. KnowsPayment(x)
  BY <1>4, <1>5, <1>6 DEF Unasserted, KnowsPayment
<1>9. QED
  BY <1>1, <1>2, <1>3, <1>6, <1>7, <1>8, ConfirmationGoesOn

LEMMA ConfirmCapturedStep ==
    ASSUME B2bInv, NEW k \in B2bCalls, ConfirmCaptured(k)
    PROVE  B2bInv'
<1>1. PICK call \in B2bCallRow : call = b2bCall[k]
  BY DEF B2bInv, B2bTypes
<1>2. call.at = "capturing" /\ UNCHANGED <<source, b2bOrder, rushed, byHand>>
  BY <1>1 DEF ConfirmCaptured
<1>3. PICK o \in B2bOrders : o = call.order
  BY <1>2, B2bCallFields
<1>4. PICK status \in {"captured", "failed", "authorized", "pending"} :
          /\ payment' = [payment EXCEPT ![o] = status]
          /\ GoB2b(k, ToStatus(k, IF status = "failed" THEN "cancelled" ELSE "confirmed"))
  BY <1>1, <1>2, <1>3, B2bCallFields DEF ConfirmCaptured
<1>5. PICK x : /\ GoB2b(k, x)
               /\ \/ status = "failed" /\ x = [at |-> "status", order |-> o, to |-> "cancelled"]
                  \/ status # "failed" /\ x = [at |-> "status", order |-> o, to |-> "confirmed"]
  BY <1>1, <1>3, <1>4 DEF ToStatus
<1>6. x \in GoesOn(o)
  BY <1>5 DEF GoesOn
<1>7. status \in PaymentStatus \ {"none"} /\ payment'[o] = status
  BY <1>4 DEF PaymentStatus, B2bInv, B2bTypes
<1>8. KnowsPayment(x)'
  BY <1>5, <1>7 DEF Unasserted, KnowsPayment
<1>9. /\ x \in B2bCallRow /\ x.at = "status" /\ x.order = o /\ x.to # "approved"
  BY <1>5, <1>6, GoesOnFields
<1>10. QED
  BY <1>1, <1>2, <1>3, <1>4, <1>5, <1>7, <1>8, <1>9, PaymentMoves

LEMMA B2bInitInv ==
    ASSUME B2bInit
    PROVE  B2bInv
<1>1. \A src \in Sources : source[src] = NoSource
  BY DEF B2bInit, Sources
<1>2. \A k \in B2bCalls : b2bCall[k] = IdleB2b
  BY DEF B2bInit
<1>3. \A o \in B2bOrders : b2bOrder[o] = NoB2bOrder
  BY DEF B2bInit
<1>4. B2bTypes
  BY DEF B2bInit, B2bTypes, B2bCallRow, PaymentStatus, Sources
<1>5. \A src \in Sources : ConvertedToLines(source[src])
  BY <1>1 DEF NoSource, ConvertedToLines
<1>6. \A k \in B2bCalls : KnowsOrder(b2bCall[k]) /\ KnowsPayment(b2bCall[k])
  BY <1>2 DEF IdleB2b, KnowsOrder, KnowsPayment
<1>7. ConfirmedOnce
  BY <1>2, <1>3 DEF IdleB2b, NoB2bOrder, ConfirmedOnce, IsConfirming, IsApproving
<1>8. ConfirmedOrdersArePaid
  BY <1>3 DEF NoB2bOrder, ConfirmedOrdersArePaid
<1>9. QED
  BY <1>4, <1>5, <1>6, <1>7, <1>8 DEF B2bInv

LEMMA B2bNextInv ==
    ASSUME B2bInv, [B2bNext]_b2bVars
    PROVE  B2bInv'
<1>1. CASE CompanyRequest
  BY <1>1, CompanyRequestStep
<1>2. CASE QuoteRequest
  <2>1. ASSUME NEW q \in Quotes, CreateQuote(q) PROVE B2bInv'
    BY <2>1, NewSourceStep DEF Sources
  <2>2. ASSUME NEW x \in CompanyCarts, LockCart(x) PROVE B2bInv'
    BY <2>2, NewSourceStep DEF Sources
  <2>3. ASSUME NEW q \in Quotes, NEW k \in B2bCalls, TransitionRead(k, q) PROVE B2bInv'
    BY <2>3, TransitionReadStep
  <2>4. QED
    BY <1>2, <2>1, <2>2, <2>3 DEF QuoteRequest
<1>3. ASSUME NEW k \in B2bCalls, OrderRequest(k) PROVE B2bInv'
  <2>1. ASSUME NEW src \in DOMAIN source, ConvertRead(k, src) PROVE B2bInv'
    BY <2>1, ConvertReadStep
  <2>2. ASSUME NEW o \in B2bOrders, ApproveB2bOrder(k, o) \/ UpdateStatus(k, o)
        PROVE  B2bInv'
    BY <2>2, AskForStatus DEF ApproveB2bOrder, UpdateStatus
  <2>3. ASSUME NEW o \in B2bOrders, ConfirmRead(k, o) PROVE B2bInv'
    BY <2>3, ConfirmReadStep
  <2>4. QED
    BY <1>3, <2>1, <2>2, <2>3 DEF OrderRequest
<1>4. ASSUME NEW k \in B2bCalls, B2bStep(k) PROVE B2bInv'
  <2>1. CASE B2bCallDies(k)
    BY <2>1, CallEnds DEF B2bCallDies, moneyVars
  <2>2. CASE \/ TransitionSave(k) \/ InsertDraft(k) \/ SaveDraftLines(k)
             \/ MarkConverted(k) \/ ConvertCart(k)
    BY <2>2, TransitionSaveStep, InsertDraftStep, SaveDraftLinesStep, MarkConvertedStep,
       ConvertCartStep
  <2>3. CASE TransitionStatusRead(k) \/ TransitionStatusSave(k)
    BY <2>3, TransitionStatusReadStep, TransitionStatusSaveStep
  <2>4. CASE \/ ConfirmRedeemGift(k) \/ ConfirmAuthorize(k) \/ ConfirmAsk(k)
             \/ ConfirmCapture(k) \/ ConfirmCaptured(k)
    BY <2>4, ConfirmRedeemGiftStep, ConfirmAuthorizeStep, ConfirmAskStep,
       ConfirmCaptureStep, ConfirmCapturedStep
  <2>5. QED
    BY <1>4, <2>1, <2>2, <2>3, <2>4 DEF B2bStep
<1>5. CASE UNCHANGED b2bVars
  <2>1. UNCHANGED <<source, b2bOrder, payment, b2bCall, rushed, byHand>>
    BY <1>5 DEF b2bVars
  <2>2. source' \in [Sources -> {NoSource} \union QuoteRow]
    BY <2>1 DEF B2bInv, B2bTypes
  <2>3. QED
    BY <2>1, <2>2, SourcesOnly
<1>6. QED
  BY <1>1, <1>2, <1>3, <1>4, <1>5 DEF B2bNext

\* Whatever conversions, transitions, confirmations and deaths overlap, what is marked
\* converted has an order with its lines (convertB2bQuote, placeOrder).
THEOREM ConvertedOrdersHaveLines == B2bSpec => []ConvertedSourcesAreOrdered
<1>1. B2bInv => ConvertedSourcesAreOrdered
  BY DEF B2bInv, B2bTypes, ConvertedSourcesAreOrdered, ConvertedToLines, HasLines
<1>2. QED
  BY <1>1, B2bInitInv, B2bNextInv, PTL DEF B2bSpec

\* An order that updateStatus was not asked to confirm, and that nobody confirmed twice
\* at a time, is confirmed only with a payment that has not failed, for any number of
\* calls and orders (confirmB2bOrder, updateStatus, transitionStatus).
THEOREM ConfirmedOrdersHavePayment == B2bSpec => []ConfirmedOrdersArePaid
<1>1. B2bInv => ConfirmedOrdersArePaid
  BY DEF B2bInv
<1>2. QED
  BY <1>1, B2bInitInv, B2bNextInv, PTL DEF B2bSpec
-----------------------------------------------------------------------------
(***************************************************************************)
(* The tree of categories                                                  *)
(*                                                                         *)
(* Nothing here counts steps to the root: that the walk of assertNoCycle   *)
(* has been along a branch is a set of categories, the branch so far,      *)
(* closed under parents except where the walk is.                          *)
(***************************************************************************)

MoveRow ==
    {IdleMove} \union
    [at : {"walk"}, id : Categories, row : CategoryRow, current : Categories,
     seen : SUBSET Categories] \union
    [at : {"save"}, id : Categories, row : CategoryRow, current : Categories \cup {NoParent},
     seen : SUBSET Categories]

TreeTypes ==
    /\ category \in [Categories -> {NoCategory} \union CategoryRow]
    /\ move \in [TaxonomyCalls -> MoveRow]

Tree == \A S \in SUBSET Categories : LeadNowhere(S) => S = {}

\* A branch: whatever is in A has its parent there, but what is known of q.
Branch(A, q) == \A a \in A \ {q} : Present(a) => category[a].parent \in A \cup {NoParent}

\* Up from the categories of S, and not beyond q, one does not meet c.
Avoids(c, S, q) ==
    \E A \in SUBSET (Categories \ {c}) :
        S \ {NoParent} \subseteq A /\ q \in A \cup {NoParent} /\ Branch(A, q)

KnowsBranch(x) ==
    /\ x.at = "walk" => /\ x.row.parent \in x.seen /\ x.current \in x.seen
                        /\ Avoids(x.id, x.seen, x.current)
    /\ x.at = "save" => Avoids(x.id, {x.row.parent}, NoParent)

TaxonomyInv ==
    /\ TreeTypes
    /\ ~overlapped => /\ \A j, k \in TaxonomyCalls : Underway(j) /\ Underway(k) => j = k
                      /\ \A k \in TaxonomyCalls : KnowsBranch(move[k])
                      /\ Tree

LEMMA CategoryFields ==
    ASSUME NEW row \in {NoCategory} \union CategoryRow
    PROVE  /\ row.at = "present" <=> row \in CategoryRow
           /\ row = NoCategory <=> row.at # "present"
           /\ row.at = "present" => row.parent \in Categories \cup {NoParent}
  BY DEF CategoryRow, NoCategory

LEMMA MoveFields ==
    ASSUME NEW x \in MoveRow
    PROVE  /\ x = IdleMove <=> x.at = "idle"
           /\ x # IdleMove => /\ x.at \in {"walk", "save"} /\ x.id \in Categories
                              /\ x.row \in CategoryRow
           /\ x # IdleMove => x.seen \in SUBSET Categories
           /\ x.at = "walk" => x.current \in Categories
  BY DEF MoveRow, IdleMove

\* In a tree the parent of a category is there.
LEMMA NoDanglingParents ==
    ASSUME Tree, NEW c \in Categories, Present(c), category[c].parent # NoParent
    PROVE  Present(category[c].parent)
<1>1. ASSUME ~Present(category[c].parent) PROVE FALSE
  <2>1. LeadNowhere({c})
    BY <1>1 DEF LeadNowhere
  <2>2. {c} \in SUBSET Categories
    OBVIOUS
  <2>3. QED
    BY <2>1, <2>2 DEF Tree
<1>2. QED
  BY <1>1

\* In a tree the way up from a category does not come back to it: otherwise those from
\* which no way up avoids it would lead nowhere.
LEMMA WayUpAvoids ==
    ASSUME TreeTypes, Tree, NEW c \in Categories, Present(c)
    PROVE  Avoids(c, {category[c].parent}, NoParent)
<1> DEFINE p == category[c].parent
           Caught == {x \in Categories :
                         \A A \in SUBSET Categories : x \in A /\ Branch(A, NoParent) => c \in A}
<1>1. SUFFICES ASSUME p # NoParent, p \in Caught PROVE FALSE
  <2>1. p \in Categories \cup {NoParent}
    BY CategoryFields DEF TreeTypes, Present
  <2>2. ASSUME p # NoParent, p \notin Caught PROVE Avoids(c, {p}, NoParent)
    <3>1. PICK A \in SUBSET Categories : p \in A /\ Branch(A, NoParent) /\ c \notin A
      BY <2>1, <2>2
    <3>2. A \in SUBSET (Categories \ {c})
      BY <3>1
    <3>3. QED
      BY <3>1, <3>2 DEF Avoids
  <2>3. ASSUME p = NoParent PROVE Avoids(c, {p}, NoParent)
    <3>1. {} \in SUBSET (Categories \ {c}) /\ Branch({}, NoParent)
      BY DEF Branch
    <3>2. QED
      BY <2>3, <3>1 DEF Avoids
  <2>4. QED
    BY <2>2, <2>3
<1>2. ASSUME NEW x \in Caught
      PROVE  /\ Present(x) /\ category[x].parent # NoParent
             /\ category[x].parent \in Caught
  <2>1. CASE x = c
    BY <1>1, <2>1
  <2>2. CASE x # c
    <3>1. {x} \in SUBSET Categories /\ c \notin {x}
      BY <2>2
    <3>2. ~Branch({x}, NoParent)
      BY <3>1
    <3>3. Present(x) /\ category[x].parent # NoParent
      BY <3>2 DEF Branch
    <3>4. category[x].parent \in Categories
      BY <3>3, CategoryFields DEF TreeTypes, Present
    <3>5. ASSUME NEW A \in SUBSET Categories, category[x].parent \in A, Branch(A, NoParent)
          PROVE  c \in A
      <4>1. Branch(A \cup {x}, NoParent)
        BY <3>5 DEF Branch
      <4>2. A \cup {x} \in SUBSET Categories
        OBVIOUS
      <4>3. c \in A \cup {x}
        BY <4>1, <4>2
      <4>4. QED
        BY <2>2, <4>3
    <3>6. QED
      BY <3>3, <3>4, <3>5
  <2>3. QED
    BY <2>1, <2>2
<1>3. LeadNowhere(Caught)
  BY <1>2 DEF LeadNowhere
<1>4. Caught \in SUBSET Categories
  OBVIOUS
<1>5. QED
  BY <1>1, <1>3, <1>4 DEF Tree

\* What a walk knows is not disturbed by removals, which only cut branches off.
LEMMA AvoidsAfterRemoval ==
    ASSUME NEW c, NEW S, NEW q, Avoids(c, S, q),
           \A a \in Categories : Present(a)' =>
               Present(a) /\ category'[a].parent \in {category[a].parent, NoParent}
    PROVE  Avoids(c, S, q)'
  BY DEF Avoids, Branch

\* Nor by a new category with an id the walk has not seen.
LEMMA AvoidsAfterCreation ==
    ASSUME Tree, NEW c, NEW S, NEW q, Avoids(c, S, q), NEW d \in Categories,
           ~Present(d), d \notin S, d # q,
           \A a \in Categories \ {d} : category'[a] = category[a]
    PROVE  Avoids(c, S, q)'
<1>1. PICK A \in SUBSET (Categories \ {c}) :
          S \ {NoParent} \subseteq A /\ q \in A \cup {NoParent} /\ Branch(A, q)
  BY DEF Avoids
<1>2. /\ A \ {d} \in SUBSET (Categories \ {c})
      /\ S \ {NoParent} \subseteq A \ {d} /\ q \in (A \ {d}) \cup {NoParent}
  BY <1>1
<1>3. ASSUME NEW a \in (A \ {d}) \ {q}, Present(a)'
      PROVE  category'[a].parent \in (A \ {d}) \cup {NoParent}
  <2>1. category'[a] = category[a] /\ Present(a)
    BY <1>3 DEF Present
  <2>2. category[a].parent \in A \cup {NoParent}
    BY <1>1, <2>1, <1>3 DEF Branch
  <2>3. category[a].parent # NoParent => category[a].parent # d
    BY <2>1, <1>3, NoDanglingParents
  <2>4. QED
    BY <2>1, <2>2, <2>3
<1>4. Branch(A \ {d}, q)'
  BY <1>3 DEF Branch
<1>5. QED
  BY <1>2, <1>4 DEF Avoids

LEMMA CreateCategoryStep ==
    ASSUME TaxonomyInv, NEW d \in Categories, CreateCategory(d)
    PROVE  TaxonomyInv'
<1>1. PICK row \in CategoryRow : /\ row.parent \in Parents
                                 /\ category' = [category EXCEPT ![d] = row]
  BY DEF CreateCategory
<1>2. /\ category[d] = NoCategory
      /\ \A k \in TaxonomyCalls :
             Underway(k) => d \notin {move[k].id, move[k].row.parent} \cup move[k].seen
      /\ UNCHANGED <<move, overlapped>>
  BY DEF CreateCategory, FreshId, TaxonomyEdit
<1>3. TreeTypes'
  BY <1>1, <1>2 DEF TaxonomyInv, TreeTypes
<1>4. /\ ~Present(d) /\ Present(d)' /\ category'[d].parent \in Parents
      /\ \A a \in Categories \ {d} : category'[a] = category[a]
  BY <1>1, <1>2, CategoryFields DEF TaxonomyInv, TreeTypes, Present
<1>5. ASSUME ~overlapped PROVE Tree'
  <2>1. Tree
    BY <1>5 DEF TaxonomyInv
  <2>2. SUFFICES ASSUME NEW S \in SUBSET Categories, LeadNowhere(S)' PROVE S = {}
    BY DEF Tree
  <2>3. ASSUME NEW a \in S \ {d}
        PROVE  /\ Present(a) /\ category[a].parent # NoParent
               /\ category[a].parent \in S \ {d}
    <3>1. Present(a) /\ category[a].parent # NoParent /\ category'[a] = category[a]
      BY <1>4, <2>2, <2>3 DEF LeadNowhere, Present
    <3>2. Present(category[a].parent)
      BY <2>1, <2>3, <3>1, NoDanglingParents
    <3>3. category[a].parent # d
      BY <1>4, <3>2
    <3>4. category[a].parent \in Categories
      BY <3>1, CategoryFields DEF TaxonomyInv, TreeTypes, Present
    <3>5. Present(category[a].parent)'
      BY <1>4, <3>2, <3>3, <3>4 DEF Present
    <3>6. category[a].parent \in S
      BY <2>2, <2>3, <3>1, <3>5 DEF LeadNowhere
    <3>7. QED
      BY <3>1, <3>3, <3>6
  <2>4. LeadNowhere(S \ {d}) /\ S \ {d} \in SUBSET Categories
    BY <2>3 DEF LeadNowhere
  <2>5. S \ {d} = {}
    BY <2>1, <2>4 DEF Tree
  <2>6. ASSUME d \in S PROVE FALSE
    <3>1. category'[d].parent # NoParent
      BY <2>2, <2>6 DEF LeadNowhere
    <3>2. PICK p \in Categories : p = category'[d].parent /\ Present(p)
      BY <1>4, <3>1 DEF Parents
    <3>3. p # d /\ Present(p)'
      BY <1>4, <3>2 DEF Present
    <3>4. p \in S
      BY <2>2, <2>6, <3>2, <3>3 DEF LeadNowhere
    <3>5. QED
      BY <2>5, <3>3, <3>4
  <2>7. QED
    BY <2>5, <2>6
<1>6. ASSUME ~overlapped, NEW k \in TaxonomyCalls PROVE KnowsBranch(move[k])'
  <2>1. PICK x \in MoveRow : x = move[k]
    BY DEF TaxonomyInv, TreeTypes
  <2>2. KnowsBranch(x) /\ Tree
    BY <1>6, <2>1 DEF TaxonomyInv
  <2>3. x # IdleMove => d # x.row.parent /\ d \notin x.seen
    BY <1>2, <2>1 DEF Underway
  <2>4. d # NoParent
    BY CategoriesAssumption DEF NoParent
  <2>5. x.at \in {"walk", "save"} => x # IdleMove
    BY DEF IdleMove
  <2>6. KnowsBranch(x)'
    BY <1>4, <2>2, <2>3, <2>4, <2>5, AvoidsAfterCreation DEF KnowsBranch
  <2>7. QED
    BY <1>2, <2>1, <2>6
<1>7. QED
  BY <1>2, <1>3, <1>5, <1>6 DEF TaxonomyInv, Underway

LEMMA RemoveCategoryStep ==
    ASSUME TaxonomyInv, NEW d \in Categories, RemoveCategory(d)
    PROVE  TaxonomyInv'
<1>1. /\ category' = [a \in Categories |->
             IF a = d THEN NoCategory
             ELSE IF Present(a) /\ category[a].parent = d
                  THEN [category[a] EXCEPT !.parent = NoParent] ELSE category[a]]
      /\ UNCHANGED <<move, overlapped>>
  BY DEF RemoveCategory, TaxonomyEdit
<1>2. ASSUME NEW a \in Categories, Present(a)'
      PROVE  /\ a # d /\ Present(a)
             /\ \/ category'[a].parent = NoParent
                \/ category'[a] = category[a] /\ category[a].parent # d
  <2>1. a # d
    BY <1>1, <1>2 DEF Present, NoCategory
  <2>2. CASE Present(a) /\ category[a].parent = d
    <3>1. category[a] \in CategoryRow
      BY <2>2, CategoryFields DEF TaxonomyInv, TreeTypes, Present
    <3>2. category'[a] = [category[a] EXCEPT !.parent = NoParent]
      BY <1>1, <2>1, <2>2
    <3>3. QED
      BY <2>1, <2>2, <3>1, <3>2 DEF CategoryRow
  <2>3. CASE ~(Present(a) /\ category[a].parent = d)
    <3>1. category'[a] = category[a]
      BY <1>1, <2>1, <2>3
    <3>2. QED
      BY <1>2, <2>1, <2>3, <3>1 DEF Present
  <2>4. QED
    BY <2>2, <2>3
<1>3. TreeTypes'
  <2>1. \A row \in CategoryRow : [row EXCEPT !.parent = NoParent] \in CategoryRow
    BY DEF CategoryRow
  <2>2. QED
    BY <1>1, <2>1, CategoryFields DEF TaxonomyInv, TreeTypes, Present
<1>4. ASSUME Tree PROVE Tree'
  <2>1. SUFFICES ASSUME NEW S \in SUBSET Categories, LeadNowhere(S)' PROVE LeadNowhere(S)
    BY <1>4 DEF Tree
  <2>2. ASSUME NEW a \in S
        PROVE  /\ Present(a) /\ category[a].parent # NoParent
               /\ Present(category[a].parent) => category[a].parent \in S
    <3>1. Present(a)' /\ category'[a].parent # NoParent
      BY <2>1, <2>2 DEF LeadNowhere
    <3>2. Present(a) /\ category'[a] = category[a] /\ category[a].parent # d
      BY <1>2, <2>2, <3>1
    <3>3. category[a].parent \in Categories \cup {NoParent}
      BY <2>2, <3>2, CategoryFields DEF TaxonomyInv, TreeTypes, Present
    <3>4. ASSUME Present(category[a].parent) PROVE Present(category[a].parent)'
      <4>1. PICK p \in Categories : p = category[a].parent
        BY <3>1, <3>2, <3>3
      <4>2. p # d /\ Present(p)
        BY <3>2, <3>4, <4>1
      <4>3. category[p] \in CategoryRow
        BY <4>2, CategoryFields DEF TaxonomyInv, TreeTypes, Present
      <4>4. category'[p].at = "present"
        BY <1>1, <4>2, <4>3 DEF Present, CategoryRow
      <4>5. QED
        BY <3>2, <4>1, <4>4 DEF Present
    <3>5. QED
      BY <2>1, <2>2, <3>1, <3>2, <3>4 DEF LeadNowhere
  <2>3. QED
    BY <2>2 DEF LeadNowhere
<1>5. \A a \in Categories : Present(a)' =>
          Present(a) /\ category'[a].parent \in {category[a].parent, NoParent}
  BY <1>2
<1>6. ASSUME NEW x, KnowsBranch(x) PROVE KnowsBranch(x)'
  BY <1>5, <1>6, AvoidsAfterRemoval DEF KnowsBranch
<1>7. QED
  BY <1>1, <1>3, <1>4, <1>6 DEF TaxonomyInv, Underway

\* A step of call k to x that leaves the categories alone.
LEMMA MoveGoes ==
    ASSUME TaxonomyInv, NEW k \in TaxonomyCalls, NEW x \in MoveRow, GoMove(k, x),
           UNCHANGED category,
           overlapped => overlapped',
           ~overlapped' => \A j \in TaxonomyCalls \ {k} : ~Underway(j),
           ~overlapped' => KnowsBranch(x)
    PROVE  TaxonomyInv'
<1>1. /\ move'[k] = x /\ \A j \in TaxonomyCalls \ {k} : move'[j] = move[j]
      /\ move' \in [TaxonomyCalls -> MoveRow]
  BY DEF GoMove, TaxonomyInv, TreeTypes
<1>2. TreeTypes'
  BY <1>1 DEF TaxonomyInv, TreeTypes
<1>3. ASSUME ~overlapped' PROVE /\ \A i, j \in TaxonomyCalls : Underway(i)' /\ Underway(j)' => i = j
                                /\ Tree'
  BY <1>1, <1>3 DEF TaxonomyInv, Underway, Tree, LeadNowhere, Present
<1>4. ASSUME ~overlapped', NEW j \in TaxonomyCalls PROVE KnowsBranch(move[j])'
  <2>1. PICK y : y = move'[j]
    OBVIOUS
  <2>2. KnowsBranch(y)
    BY <1>1, <1>4, <2>1 DEF TaxonomyInv
  <2>3. KnowsBranch(y)'
    BY <2>2 DEF KnowsBranch, Avoids, Branch, Present
  <2>4. QED
    BY <2>1, <2>3
<1>5. QED
  BY <1>2, <1>3, <1>4 DEF TaxonomyInv

LEMMA MoveReadStep ==
    ASSUME TaxonomyInv, NEW k \in TaxonomyCalls, NEW c \in Categories, MoveRead(k, c)
    PROVE  TaxonomyInv'
<1>1. PICK slug \in Slugs, parent \in Parents \ {c} :
          GoMove(k, [at |-> IF parent = NoParent THEN "save" ELSE "walk", id |-> c,
                     row |-> [category[c] EXCEPT !.parent = parent, !.slug = slug],
                     current |-> parent, seen |-> {parent} \ {NoParent}])
  BY DEF MoveRead
<1>2. /\ Present(c) /\ UNCHANGED category
      /\ overlapped' = (overlapped \/ \E j \in TaxonomyCalls : Underway(j))
  BY DEF MoveRead
<1>3. category[c] \in CategoryRow
  BY <1>2, CategoryFields DEF TaxonomyInv, TreeTypes, Present
<1>4. parent \in Categories \cup {NoParent}
  BY DEF Parents
<1>5. PICK row : row = [category[c] EXCEPT !.parent = parent, !.slug = slug]
  OBVIOUS
<1>6. row \in CategoryRow /\ row.parent = parent
  BY <1>3, <1>4, <1>5 DEF CategoryRow
<1>7. PICK x : x = [at |-> IF parent = NoParent THEN "save" ELSE "walk", id |-> c,
                    row |-> row, current |-> parent, seen |-> {parent} \ {NoParent}]
  OBVIOUS
<1>8. /\ x \in MoveRow /\ GoMove(k, x)
      /\ x.id = c /\ x.row = row /\ x.current = parent /\ x.seen = {parent} \ {NoParent}
      /\ x.at = IF parent = NoParent THEN "save" ELSE "walk"
  BY <1>1, <1>4, <1>5, <1>6, <1>7 DEF MoveRow
<1>9. KnowsBranch(x)
  <2>1. CASE parent = NoParent
    <3>1. {} \in SUBSET (Categories \ {c}) /\ Branch({}, NoParent)
      BY DEF Branch
    <3>2. QED
      BY <1>6, <1>8, <2>1, <3>1 DEF KnowsBranch, Avoids
  <2>2. CASE parent # NoParent
    <3>1. {parent} \in SUBSET (Categories \ {c}) /\ Branch({parent}, parent)
      BY <1>4, <2>2 DEF Branch
    <3>2. Avoids(c, {parent} \ {NoParent}, parent)
      BY <3>1 DEF Avoids
    <3>3. QED
      BY <1>6, <1>8, <2>2, <3>2 DEF KnowsBranch
  <2>3. QED
    BY <2>1, <2>2
<1>10. QED
  BY <1>2, <1>8, <1>9, MoveGoes

LEMMA RenameReadStep ==
    ASSUME TaxonomyInv, NEW k \in TaxonomyCalls, NEW c \in Categories, RenameRead(k, c)
    PROVE  TaxonomyInv'
<1>1. PICK slug \in Slugs, scope \in Stores \cup {Shared} :
          GoMove(k, [at |-> "save", id |-> c, current |-> NoParent, seen |-> {},
                     row |-> [category[c] EXCEPT !.slug = slug, !.scope = scope]])
  BY DEF RenameRead
<1>2. /\ Present(c) /\ UNCHANGED category
      /\ overlapped' = (overlapped \/ \E j \in TaxonomyCalls : Underway(j))
  BY DEF RenameRead
<1>3. category[c] \in CategoryRow
  BY <1>2, CategoryFields DEF TaxonomyInv, TreeTypes, Present
<1>4. PICK row : row = [category[c] EXCEPT !.slug = slug, !.scope = scope]
  OBVIOUS
<1>5. row \in CategoryRow /\ row.parent = category[c].parent
  BY <1>3, <1>4 DEF CategoryRow
<1>6. PICK x : x = [at |-> "save", id |-> c, current |-> NoParent, seen |-> {}, row |-> row]
  OBVIOUS
<1>7. /\ x \in MoveRow /\ GoMove(k, x)
      /\ x.id = c /\ x.row = row /\ x.at = "save"
  BY <1>1, <1>4, <1>5, <1>6 DEF MoveRow
<1>8. ~overlapped => KnowsBranch(x)
  BY <1>2, <1>5, <1>7, WayUpAvoids DEF TaxonomyInv, KnowsBranch
<1>9. QED
  BY <1>2, <1>7, <1>8, MoveGoes

LEMMA WalkUpStep ==
    ASSUME TaxonomyInv, NEW k \in TaxonomyCalls, WalkUp(k)
    PROVE  TaxonomyInv'
<1>1. PICK call \in MoveRow : call = move[k]
  BY DEF TaxonomyInv, TreeTypes
<1>2. /\ call.at = "walk" /\ call # IdleMove
      /\ call.id \in Categories /\ call.current \in Categories /\ call.row \in CategoryRow
      /\ call.seen \in SUBSET Categories
  BY <1>1, MoveFields DEF WalkUp, IdleMove
<1>3. PICK next : next = IF category[call.current].at = "present"
                         THEN category[call.current].parent ELSE NoParent
  OBVIOUS
<1>4. next \in Categories \cup {NoParent}
  BY <1>2, <1>3, CategoryFields DEF TaxonomyInv, TreeTypes
<1>5. /\ UNCHANGED <<category, overlapped>>
      /\ GoMove(k, IF next = call.id THEN IdleMove
                   ELSE IF next = NoParent \/ next \in call.seen
                        THEN [call EXCEPT !.at = "save"]
                        ELSE [call EXCEPT !.current = next, !.seen = @ \cup {next}])
  BY <1>1, <1>3 DEF WalkUp
<1>6. ~overlapped => /\ \A j \in TaxonomyCalls \ {k} : ~Underway(j)
                     /\ KnowsBranch(call)
  BY <1>1, <1>2 DEF TaxonomyInv, Underway
<1>7. ASSUME ~overlapped
      PROVE  call.row.parent \in call.seen /\ call.current \in call.seen /\ \E A \in SUBSET (Categories \ {call.id}) :
                 call.seen \subseteq A /\ Branch(A, call.current)
  BY <1>2, <1>6, <1>7, CategoriesAssumption DEF KnowsBranch, Avoids, NoParent
<1>8. CASE next = call.id
  <2>1. IdleMove \in MoveRow /\ KnowsBranch(IdleMove)
    BY DEF MoveRow, KnowsBranch, IdleMove
  <2>2. QED
    BY <1>5, <1>6, <1>8, <2>1, MoveGoes
<1>9. CASE next # call.id /\ (next = NoParent \/ next \in call.seen)
  <2>1. PICK x : x = [call EXCEPT !.at = "save"]
    OBVIOUS
  <2>2. x \in MoveRow /\ x.at = "save" /\ x.id = call.id /\ x.row = call.row
    BY <1>2, <2>1 DEF MoveRow, IdleMove
  <2>3. ASSUME ~overlapped PROVE KnowsBranch(x)
    <3>1. PICK A \in SUBSET (Categories \ {call.id}) :
              call.seen \subseteq A /\ Branch(A, call.current)
      BY <1>7, <2>3
    <3>2. Present(call.current) => category[call.current].parent \in A \cup {NoParent}
      BY <1>3, <1>9, <3>1 DEF Present
    <3>3. Branch(A, NoParent)
      BY <3>1, <3>2 DEF Branch
    <3>4. call.row.parent \in A
      BY <1>7, <2>3, <3>1
    <3>5. QED
      BY <2>2, <3>3, <3>4 DEF KnowsBranch, Avoids
  <2>4. QED
    BY <1>5, <1>6, <1>9, <2>1, <2>2, <2>3, MoveGoes
<1>10. CASE next # call.id /\ next # NoParent /\ next \notin call.seen
  <2>1. PICK x : x = [call EXCEPT !.current = next, !.seen = @ \cup {next}]
    OBVIOUS
  <2>2. /\ x \in MoveRow /\ x.at = "walk" /\ x.id = call.id /\ x.row = call.row
        /\ x.current = next /\ x.seen = call.seen \cup {next}
    BY <1>2, <1>4, <1>10, <2>1 DEF MoveRow, IdleMove
  <2>3. ASSUME ~overlapped PROVE KnowsBranch(x)
    <3>1. PICK A \in SUBSET (Categories \ {call.id}) :
              call.seen \subseteq A /\ Branch(A, call.current)
      BY <1>7, <2>3
    <3>2. A \cup {next} \in SUBSET (Categories \ {call.id})
      BY <1>4, <1>10
    <3>3. Present(call.current) => category[call.current].parent = next
      BY <1>3 DEF Present
    <3>4. Branch(A \cup {next}, next)
      BY <3>1, <3>3 DEF Branch
    <3>5. call.row.parent \in call.seen
      BY <1>7, <2>3
    <3>6. Avoids(call.id, call.seen \cup {next}, next)
      BY <3>1, <3>2, <3>4 DEF Avoids
    <3>7. QED
      BY <2>2, <3>5, <3>6 DEF KnowsBranch
  <2>4. QED
    BY <1>5, <1>6, <1>10, <2>1, <2>2, <2>3, MoveGoes
<1>11. QED
  BY <1>8, <1>9, <1>10

\* A row saved below a branch that avoids it leaves a tree.
LEMMA TreeAfterSave ==
    ASSUME TreeTypes, Tree, NEW c \in Categories, NEW row \in CategoryRow,
           Avoids(c, {row.parent}, NoParent), row.parent \in Parents,
           category' = [category EXCEPT ![c] = row]
    PROVE  Tree'
<1>1. category'[c] = row /\ \A a \in Categories \ {c} : category'[a] = category[a]
  BY DEF TreeTypes
<1>2. SUFFICES ASSUME NEW S \in SUBSET Categories, LeadNowhere(S)', S # {} PROVE FALSE
  BY DEF Tree
<1>3. \A a \in Categories : Present(a) => Present(a)'
  BY <1>1, CategoryFields DEF Present
<1>4. \A a \in S \ {c} : /\ Present(a) /\ category[a].parent # NoParent
                         /\ Present(category[a].parent)
                         /\ category[a].parent \in S
  <2>1. TAKE a \in S \ {c}
  <2>2. category'[a] = category[a] /\ Present(a) /\ category[a].parent # NoParent
    BY <1>1, <1>2 DEF LeadNowhere, Present
  <2>3. Present(category[a].parent) /\ category[a].parent \in Categories
    BY <2>2, NoDanglingParents, CategoryFields DEF TreeTypes, Present
  <2>4. QED
    BY <1>2, <1>3, <2>2, <2>3 DEF LeadNowhere
<1>5. CASE c \notin S
  <2>1. LeadNowhere(S)
    BY <1>4, <1>5 DEF LeadNowhere
  <2>2. QED
    BY <1>2, <2>1 DEF Tree
<1>6. CASE c \in S
  <2>1. row.parent # NoParent /\ row.parent \in Categories /\ Present(row.parent)
    BY <1>1, <1>2, <1>6 DEF LeadNowhere, Parents
  <2>2. row.parent \in S
    BY <1>1, <1>2, <1>3, <1>6, <2>1 DEF LeadNowhere
  <2>3. PICK A \in SUBSET (Categories \ {c}) : row.parent \in A /\ Branch(A, NoParent)
    BY <2>1 DEF Avoids
  <2>4. \A a \in S \cap A : a # c /\ a # NoParent
    BY <2>3, CategoriesAssumption DEF NoParent
  <2>5. \A a \in S \cap A : category[a].parent \in S \cap A
    BY <1>4, <2>3, <2>4 DEF Branch
  <2>6. LeadNowhere(S \cap A)
    BY <1>4, <2>4, <2>5 DEF LeadNowhere
  <2>7. S \cap A # {} /\ S \cap A \in SUBSET Categories
    BY <2>2, <2>3
  <2>8. QED
    BY <2>6, <2>7 DEF Tree
<1>7. QED
  BY <1>5, <1>6

LEMMA MoveSaveStep ==
    ASSUME TaxonomyInv, NEW k \in TaxonomyCalls, MoveSave(k)
    PROVE  TaxonomyInv'
<1>1. PICK call \in MoveRow : call = move[k]
  BY DEF TaxonomyInv, TreeTypes
<1>2. call.at = "save" /\ call # IdleMove /\ call.id \in Categories /\ call.row \in CategoryRow
  BY <1>1, MoveFields DEF MoveSave, IdleMove
<1>3. ~overlapped => /\ \A j \in TaxonomyCalls \ {k} : ~Underway(j)
                     /\ KnowsBranch(call)
  BY <1>1, <1>2 DEF TaxonomyInv, Underway
<1>4. IdleMove \in MoveRow /\ KnowsBranch(IdleMove) /\ KnowsBranch(IdleMove)'
  BY DEF MoveRow, KnowsBranch, IdleMove
<1>5. GoMove(k, IdleMove) /\ UNCHANGED overlapped
  BY DEF MoveSave
<1>6. CASE UNCHANGED category
  BY <1>3, <1>4, <1>5, <1>6, MoveGoes
<1>7. CASE call.row.parent \in Parents /\ category' = [category EXCEPT ![call.id] = call.row]
  <2>1. TreeTypes'
    BY <1>2, <1>4, <1>5, <1>7 DEF TaxonomyInv, TreeTypes, GoMove
  <2>2. ASSUME ~overlapped PROVE Tree'
    BY <1>2, <1>3, <1>7, <2>2, TreeAfterSave DEF TaxonomyInv, KnowsBranch
  <2>3. ~overlapped => \A j \in TaxonomyCalls : move'[j] = IdleMove
    BY <1>3, <1>5 DEF GoMove, TaxonomyInv, TreeTypes, Underway
  <2>4. QED
    BY <1>4, <1>5, <2>1, <2>2, <2>3 DEF TaxonomyInv, Underway
<1>8. QED
  BY <1>1, <1>6, <1>7 DEF MoveSave

\* Requests about translations, brands and collections leave the tree alone.
LEMMA TaxonomyQuiet ==
    ASSUME TaxonomyInv, UNCHANGED <<category, move, overlapped>>
    PROVE  TaxonomyInv'
<1>1. ASSUME NEW x, KnowsBranch(x) PROVE KnowsBranch(x)'
  BY <1>1 DEF KnowsBranch, Avoids, Branch, Present
<1>2. Tree => Tree'
  BY DEF Tree, LeadNowhere, Present
<1>3. QED
  BY <1>1, <1>2 DEF TaxonomyInv, TreeTypes, Underway

LEMMA TaxonomyNextInv ==
    ASSUME TaxonomyInv, [TaxonomyNext]_taxonomyVars
    PROVE  TaxonomyInv'
<1>1. ASSUME NEW c \in Categories, CategoryRequest(c) PROVE TaxonomyInv'
  <2>1. CASE UpsertCategoryTranslation(c) \/ DeleteCategoryTranslation(c)
    BY <2>1, TaxonomyQuiet
       DEF UpsertCategoryTranslation, DeleteCategoryTranslation, TaxonomyEdit
  <2>2. QED
    BY <1>1, <2>1, CreateCategoryStep, RemoveCategoryStep DEF CategoryRequest
<1>2. CASE BrandRequest \/ CollectionRequest
  BY <1>2, TaxonomyQuiet
     DEF BrandRequest, CollectionRequest, CreateLabel, UpdateLabel, RemoveLabel, TaxonomyEdit
<1>3. CASE UNCHANGED taxonomyVars
  BY <1>3, TaxonomyQuiet DEF taxonomyVars
<1>4. QED
  BY <1>1, <1>2, <1>3, MoveReadStep, RenameReadStep, WalkUpStep, MoveSaveStep DEF TaxonomyNext

\* Moves that do not overlap leave every category on a way to the root, whatever is created,
\* removed or comes back in the meantime (CategoriesService.assertNoCycle).
THEOREM OneMoveKeepsTheTree == TaxonomySpec => []CyclesNeedTwoMoves
<1>1. TaxonomyInit => TaxonomyInv
  <2>1. ASSUME TaxonomyInit PROVE Tree
    BY <2>1 DEF TaxonomyInit, Tree, LeadNowhere, Present, NoCategory
  <2>2. ASSUME TaxonomyInit PROVE TreeTypes
    BY <2>2 DEF TaxonomyInit, TreeTypes, MoveRow
  <2>3. KnowsBranch(IdleMove)
    BY DEF KnowsBranch, IdleMove
  <2>4. QED
    BY <2>1, <2>2, <2>3 DEF TaxonomyInit, TaxonomyInv, Underway
<1>2. TaxonomyInv => CyclesNeedTwoMoves
  BY DEF TaxonomyInv, Tree, CyclesNeedTwoMoves
<1>3. QED
  BY <1>1, <1>2, TaxonomyNextInv, PTL DEF TaxonomySpec
-----------------------------------------------------------------------------
(***************************************************************************)
(* Products and the search index                                           *)
(***************************************************************************)

ProductCallRow ==
    {IdleProductCall} \union
    [at : {"variants", "announce", "index", "unindex"}, id : ProductIds, skus : SUBSET Skus] \union
    [at : {"save", "announce", "index", "unindex"}, id : ProductIds, row : ProductRow] \union
    [at : {"unindex"}, id : ProductIds]

\* What call x knows of a product p that nothing else is busy with, and the index of it.
KnowsProduct(x, p) ==
    /\ x.at = "variants" => Exists(p) /\ p \notin found
    /\ x.at = "announce" => Exists(p)
    /\ x.at = "index" => product[p].at = "active"
    /\ x.at = "save" /\ p \in found => product[p].at = "active"

BusyCall(c, p) == productCall[c].at # "idle" /\ productCall[c].id = p

Undisturbed(p) ==
    /\ \A b, c \in ProductCalls : BusyCall(b, p) /\ BusyCall(c, p) => b = c
    /\ \A c \in ProductCalls : BusyCall(c, p) => KnowsProduct(productCall[c], p)
    /\ p \in found /\ ~BusyWith(p) => product[p].at = "active"

ProductsInv ==
    /\ product \in [ProductIds -> {NoProduct} \union ProductRow]
    /\ productCall \in [ProductCalls -> ProductCallRow]
    /\ found \subseteq ProductIds
    /\ \A p \in ProductIds \ disturbed : Undisturbed(p)

LEMMA ProductRowExists ==
    ASSUME NEW row \in ProductRow
    PROVE  row # NoProduct /\ row.at \in {"active", "inactive"}
<1>1. row.at \in {"active", "inactive"} /\ NoProduct.at = "none"
  BY DEF ProductRow, NoProduct
<1>2. QED
  BY <1>1

LEMMA ProductCallFields ==
    ASSUME NEW x \in ProductCallRow
    PROVE  /\ x.at # "idle" => x.id \in ProductIds
           /\ x = IdleProductCall <=> x.at = "idle"
           /\ x.at = "variants" => [x EXCEPT !.at = "announce"] \in ProductCallRow
           /\ x.at = "save" => /\ x.row \in ProductRow
                               /\ [x EXCEPT !.at = "announce"] \in ProductCallRow
           /\ x.at = "announce" => \A at \in {"index", "unindex"} :
                  [x EXCEPT !.at = at] \in ProductCallRow
  BY DEF ProductCallRow, IdleProductCall

\* A step of call c, on product q, to x.
LEMMA ProductCallMoves ==
    ASSUME ProductsInv, NEW c \in ProductCalls, NEW q \in ProductIds, NEW x \in ProductCallRow,
           productCall' = [productCall EXCEPT ![c] = x],
           productCall[c].at = "idle" \/ productCall[c].id = q,
           x.at = "idle" \/ x.id = q,
           product' \in [ProductIds -> {NoProduct} \union ProductRow],
           \A p \in ProductIds \ {q} : product'[p] = product[p] /\ (p \in found' <=> p \in found),
           found' \subseteq ProductIds,
           disturbed \subseteq disturbed',
           q \notin disturbed' => \A b \in ProductCalls \ {c} : ~BusyCall(b, q),
           q \notin disturbed' /\ x.at = "idle" /\ q \in found' => product'[q].at = "active",
           q \notin disturbed' /\ x.at # "idle" => KnowsProduct(x, q)'
    PROVE  ProductsInv'
<1>1. /\ productCall' \in [ProductCalls -> ProductCallRow]
      /\ productCall'[c] = x
      /\ \A b \in ProductCalls \ {c} : productCall'[b] = productCall[b]
  BY DEF ProductsInv
<1>2. ASSUME NEW p \in ProductIds \ disturbed' PROVE Undisturbed(p)'
  <2>1. CASE p = q
    <3>1. \A b \in ProductCalls : BusyCall(b, p)' => b = c /\ x.at # "idle"
      BY <1>1, <1>2, <2>1 DEF BusyCall
    <3>2. BusyWith(p)' <=> x.at # "idle"
      BY <1>1, <2>1, <3>1 DEF BusyWith, BusyCall
    <3>3. \A b \in ProductCalls : BusyCall(b, p)' => KnowsProduct(productCall[b], p)'
      BY <1>1, <1>2, <2>1, <3>1 DEF BusyCall
    <3>4. QED
      BY <1>2, <2>1, <3>1, <3>2, <3>3 DEF Undisturbed
  <2>2. CASE p # q
    <3>1. p \in ProductIds \ disturbed /\ Undisturbed(p)
      BY <1>2 DEF ProductsInv
    <3>2. product'[p] = product[p] /\ (p \in found' <=> p \in found)
      BY <2>2
    <3>3. \A b \in ProductCalls : BusyCall(b, p)' <=> BusyCall(b, p)
      BY <1>1, <2>2 DEF BusyCall
    <3>4. BusyWith(p)' <=> BusyWith(p)
      BY <3>3 DEF BusyWith, BusyCall
    <3>5. \A b \in ProductCalls : BusyCall(b, p)' => productCall'[b] = productCall[b]
      BY <1>1, <2>2 DEF BusyCall
    <3>6. \A b \in ProductCalls : BusyCall(b, p)' => KnowsProduct(productCall[b], p)'
      BY <3>1, <3>2, <3>3, <3>5 DEF Undisturbed, KnowsProduct, Exists
    <3>7. QED
      BY <3>1, <3>2, <3>3, <3>4, <3>6 DEF Undisturbed
  <2>3. QED
    BY <2>1, <2>2
<1>3. QED
  BY <1>1, <1>2 DEF ProductsInv

\* What a call finds when it starts on q and what it knows once it runs on q.
LEMMA ProductCallAlone ==
    ASSUME ProductsInv, NEW c \in ProductCalls, NEW q \in ProductIds \ disturbed
    PROVE  /\ ~BusyWith(q) => /\ \A b \in ProductCalls : ~BusyCall(b, q)
                              /\ q \in found => product[q].at = "active"
           /\ BusyCall(c, q) => /\ \A b \in ProductCalls \ {c} : ~BusyCall(b, q)
                                /\ KnowsProduct(productCall[c], q)
  BY DEF ProductsInv, Undisturbed, BusyWith, BusyCall

\* A call x that starts on q.
LEMMA ProductCallStarts ==
    ASSUME ProductsInv, NEW c \in ProductCalls, NEW q \in ProductIds, NEW x \in ProductCallRow,
           x.at # "idle", x.id = q, StartProduct(c, x), found' = found,
           product' \in [ProductIds -> {NoProduct} \union ProductRow],
           \A p \in ProductIds \ {q} : product'[p] = product[p],
           (q \in found => product[q].at = "active") => KnowsProduct(x, q)'
    PROVE  ProductsInv'
<1>1. /\ productCall[c].at = "idle"
      /\ productCall' = [productCall EXCEPT ![c] = x]
      /\ disturbed' = IF BusyWith(q) THEN disturbed \cup {q} ELSE disturbed
  BY DEF StartProduct, IdleProductCall
<1>2. disturbed \subseteq disturbed' /\ (q \notin disturbed' => ~BusyWith(q) /\ q \notin disturbed)
  BY <1>1
<1>3. q \notin disturbed' => /\ \A b \in ProductCalls \ {c} : ~BusyCall(b, q)
                             /\ KnowsProduct(x, q)'
  BY <1>2, ProductCallAlone
<1>4. found' \subseteq ProductIds
  BY DEF ProductsInv
<1>5. QED
  BY <1>1, <1>2, <1>3, <1>4, ProductCallMoves

\* A call that runs on q goes on to `at`.
LEMMA ProductCallGoes ==
    ASSUME ProductsInv, NEW c \in ProductCalls, NEW q \in ProductIds, NEW at,
           NEW call \in ProductCallRow, call = productCall[c],
           call.at # "idle", call.id = q, GoProduct(c, at),
           at = "idle" \/ [call EXCEPT !.at = at] \in ProductCallRow,
           product' \in [ProductIds -> {NoProduct} \union ProductRow],
           \A p \in ProductIds \ {q} : product'[p] = product[p] /\ (p \in found' <=> p \in found),
           found' \subseteq ProductIds,
           disturbed \subseteq disturbed',
           q \notin disturbed' /\ KnowsProduct(call, q) /\ at = "idle" /\ q \in found' =>
               product'[q].at = "active",
           q \notin disturbed' /\ KnowsProduct(call, q) /\ at # "idle" =>
               KnowsProduct([call EXCEPT !.at = at], q)'
    PROVE  ProductsInv'
<1>1. BusyCall(c, q)
  BY DEF BusyCall
<1>2. q \notin disturbed' => /\ \A b \in ProductCalls \ {c} : ~BusyCall(b, q)
                             /\ KnowsProduct(call, q)
  BY <1>1, ProductCallAlone
<1>3. CASE at = "idle"
  <2>1. PICK x : x = IdleProductCall
    OBVIOUS
  <2>2. /\ x \in ProductCallRow /\ x.at = "idle"
        /\ productCall' = [productCall EXCEPT ![c] = x]
    BY <1>3, <2>1 DEF GoProduct, ProductCallRow, IdleProductCall
  <2>3. QED
    BY <1>2, <1>3, <2>2, ProductCallMoves
<1>4. CASE at # "idle"
  <2>1. PICK x : x = [call EXCEPT !.at = at]
    OBVIOUS
  <2>2. x \in ProductCallRow /\ productCall' = [productCall EXCEPT ![c] = x]
    BY <1>4, <2>1 DEF GoProduct
  <2>3. x.at = at /\ x.id = q
    BY <2>1 DEF ProductCallRow, IdleProductCall
  <2>4. q \notin disturbed' => KnowsProduct(x, q)'
    BY <1>2, <1>4, <2>1
  <2>5. QED
    BY <1>2, <1>4, <2>2, <2>3, <2>4, ProductCallMoves
<1>5. QED
  BY <1>3, <1>4

LEMMA CreateProductStep ==
    ASSUME ProductsInv, NEW c \in ProductCalls, NEW p \in ProductIds, CreateProduct(c, p)
    PROVE  ProductsInv'
<1>1. PICK row \in ProductRow, skus \in SUBSET Skus :
          /\ StartProduct(c, [at |-> IF skus = {} THEN "announce" ELSE "variants",
                              id |-> p, skus |-> skus])
          /\ product' = [product EXCEPT ![p] = row]
  BY DEF CreateProduct
<1>2. PICK x : x = [at |-> IF skus = {} THEN "announce" ELSE "variants", id |-> p, skus |-> skus]
  OBVIOUS
<1>3. x \in ProductCallRow /\ x.at \in {"announce", "variants"} /\ x.id = p
  BY <1>2 DEF ProductCallRow
<1>4. /\ product' \in [ProductIds -> {NoProduct} \union ProductRow]
      /\ product'[p] = row
      /\ \A q \in ProductIds \ {p} : product'[q] = product[q]
  BY <1>1 DEF ProductsInv
<1>5. Exists(p)'
  BY <1>4, ProductRowExists DEF Exists
<1>6. found' = found /\ product[p] = NoProduct
  BY DEF CreateProduct, Exists
<1>7. (p \in found => product[p].at = "active") => p \notin found
  BY <1>6 DEF NoProduct
<1>8. (p \in found => product[p].at = "active") => KnowsProduct(x, p)'
  BY <1>3, <1>5, <1>6, <1>7 DEF KnowsProduct
<1>9. StartProduct(c, x)
  BY <1>1, <1>2
<1>10. QED
  BY <1>3, <1>4, <1>6, <1>8, <1>9, ProductCallStarts

LEMMA CreateVariantsStep ==
    ASSUME ProductsInv, NEW c \in ProductCalls, CreateVariants(c)
    PROVE  ProductsInv'
<1>1. PICK call \in ProductCallRow : call = productCall[c]
  BY DEF ProductsInv
<1>2. PICK q \in ProductIds : q = call.id
  BY <1>1, ProductCallFields DEF CreateVariants
<1>3. call.at = "variants" /\ UNCHANGED <<product, found, disturbed>>
  BY <1>1 DEF CreateVariants
<1>4. CASE GoProduct(c, "announce") /\ Exists(q)
  <2>1. [call EXCEPT !.at = "announce"] \in ProductCallRow
    BY <1>3, ProductCallFields
  <2>2. [call EXCEPT !.at = "announce"].at = "announce"
    BY <1>3 DEF ProductCallRow, IdleProductCall
  <2>3. KnowsProduct([call EXCEPT !.at = "announce"], q)'
    BY <1>3, <1>4, <2>2 DEF KnowsProduct, Exists
  <2>4. QED
    BY <1>1, <1>2, <1>3, <1>4, <2>1, <2>3, ProductCallGoes DEF ProductsInv
<1>5. CASE GoProduct(c, "idle")
  <2>1. KnowsProduct(call, q) => q \notin found
    BY <1>3 DEF KnowsProduct
  <2>2. QED
    BY <1>1, <1>2, <1>3, <1>5, <2>1, ProductCallGoes DEF ProductsInv
<1>6. QED
  BY <1>1, <1>2, <1>4, <1>5 DEF CreateVariants

LEMMA UpdateReadProductStep ==
    ASSUME ProductsInv, NEW c \in ProductCalls, NEW p \in ProductIds, UpdateReadProduct(c, p)
    PROVE  ProductsInv'
<1>1. PICK row \in ProductRow : StartProduct(c, [at |-> "save", id |-> p, row |-> row])
  BY DEF UpdateReadProduct
<1>2. PICK x : x = [at |-> "save", id |-> p, row |-> row]
  OBVIOUS
<1>3. x \in ProductCallRow /\ x.at = "save" /\ x.id = p
  BY <1>2 DEF ProductCallRow
<1>4. UNCHANGED <<product, found>>
  BY DEF UpdateReadProduct
<1>5. (p \in found => product[p].at = "active") => KnowsProduct(x, p)'
  BY <1>3, <1>4 DEF KnowsProduct
<1>6. StartProduct(c, x)
  BY <1>1, <1>2
<1>7. QED
  BY <1>3, <1>4, <1>5, <1>6, ProductCallStarts DEF ProductsInv

LEMMA UpdateSaveProductStep ==
    ASSUME ProductsInv, NEW c \in ProductCalls, UpdateSaveProduct(c)
    PROVE  ProductsInv'
<1>1. PICK call \in ProductCallRow : call = productCall[c]
  BY DEF ProductsInv
<1>2. PICK q \in ProductIds : q = call.id
  BY <1>1, ProductCallFields DEF UpdateSaveProduct
<1>3. call.at = "save" /\ UNCHANGED <<found, disturbed>>
  BY <1>1 DEF UpdateSaveProduct
<1>4. CASE product' = [product EXCEPT ![q] = call.row] /\ GoProduct(c, "announce")
  <2>1. call.row \in ProductRow /\ [call EXCEPT !.at = "announce"] \in ProductCallRow
    BY <1>3, ProductCallFields
  <2>2. /\ product' \in [ProductIds -> {NoProduct} \union ProductRow]
        /\ product'[q] = call.row
        /\ \A p \in ProductIds \ {q} : product'[p] = product[p]
    BY <1>4, <2>1 DEF ProductsInv
  <2>3. Exists(q)'
    BY <2>1, <2>2, ProductRowExists DEF Exists
  <2>4. [call EXCEPT !.at = "announce"].at = "announce"
    BY <1>3 DEF ProductCallRow, IdleProductCall
  <2>5. KnowsProduct([call EXCEPT !.at = "announce"], q)'
    BY <2>3, <2>4 DEF KnowsProduct
  <2>6. QED
    BY <1>1, <1>2, <1>3, <1>4, <2>1, <2>2, <2>5, ProductCallGoes DEF ProductsInv
<1>5. CASE GoProduct(c, "idle") /\ UNCHANGED product
  <2>1. KnowsProduct(call, q) /\ q \in found => product[q].at = "active"
    BY <1>3 DEF KnowsProduct
  <2>2. QED
    BY <1>1, <1>2, <1>3, <1>5, <2>1, ProductCallGoes DEF ProductsInv
<1>6. QED
  BY <1>1, <1>2, <1>4, <1>5 DEF UpdateSaveProduct

LEMMA RemoveProductStep ==
    ASSUME ProductsInv, NEW c \in ProductCalls, NEW p \in ProductIds, RemoveProduct(c, p)
    PROVE  ProductsInv'
<1>1. PICK x : x = [at |-> "unindex", id |-> p]
  OBVIOUS
<1>2. x \in ProductCallRow /\ x.at = "unindex" /\ x.id = p
  BY <1>1 DEF ProductCallRow
<1>3. KnowsProduct(x, p)'
  BY <1>2 DEF KnowsProduct
<1>4. /\ product' \in [ProductIds -> {NoProduct} \union ProductRow]
      /\ \A q \in ProductIds \ {p} : product'[q] = product[q]
  BY DEF RemoveProduct, ProductsInv
<1>5. StartProduct(c, x) /\ found' = found
  BY <1>1 DEF RemoveProduct
<1>6. QED
  BY <1>2, <1>3, <1>4, <1>5, ProductCallStarts

LEMMA AnnounceProductStep ==
    ASSUME ProductsInv, NEW c \in ProductCalls, AnnounceProduct(c)
    PROVE  ProductsInv'
<1>1. PICK call \in ProductCallRow : call = productCall[c]
  BY DEF ProductsInv
<1>2. PICK q \in ProductIds : q = call.id
  BY <1>1, ProductCallFields DEF AnnounceProduct
<1>3. call.at = "announce" /\ UNCHANGED <<product, found, disturbed>>
  BY <1>1 DEF AnnounceProduct
<1>4. CASE GoProduct(c, "idle") /\ ~Exists(q)
  <2>1. ~KnowsProduct(call, q)
    BY <1>3, <1>4 DEF KnowsProduct
  <2>2. QED
    BY <1>1, <1>2, <1>3, <1>4, <2>1, ProductCallGoes DEF ProductsInv
<1>5. ASSUME NEW at \in {"index", "unindex"}, GoProduct(c, at),
             at = "index" => product[q].at = "active"
      PROVE  ProductsInv'
  <2>1. [call EXCEPT !.at = at] \in ProductCallRow
    BY <1>3, ProductCallFields
  <2>2. [call EXCEPT !.at = at].at = at
    BY <1>3 DEF ProductCallRow, IdleProductCall
  <2>3. KnowsProduct([call EXCEPT !.at = at], q)'
    BY <1>3, <1>5, <2>2 DEF KnowsProduct
  <2>4. at # "idle"
    OBVIOUS
  <2>5. QED
    BY <1>1, <1>2, <1>3, <1>5, <2>1, <2>3, <2>4, ProductCallGoes DEF ProductsInv
<1>6. QED
  BY <1>1, <1>2, <1>4, <1>5 DEF AnnounceProduct

LEMMA SearchListenerStep ==
    ASSUME ProductsInv, NEW c \in ProductCalls, OnProductUpsert(c) \/ OnProductDeleted(c)
    PROVE  ProductsInv'
<1>1. PICK call \in ProductCallRow : call = productCall[c]
  BY DEF ProductsInv
<1>2. PICK q \in ProductIds : q = call.id
  BY <1>1, ProductCallFields DEF OnProductUpsert, OnProductDeleted
<1>3. call.at \in {"index", "unindex"} /\ GoProduct(c, "idle") /\ UNCHANGED <<product, disturbed>>
  BY <1>1 DEF OnProductUpsert, OnProductDeleted
<1>4. \/ call.at = "index" /\ found' = found \cup {q}
      \/ call.at = "unindex" /\ found' = found \ {q}
  BY <1>1, <1>2 DEF OnProductUpsert, OnProductDeleted
<1>5. KnowsProduct(call, q) /\ q \in found' => product[q].at = "active"
  BY <1>4 DEF KnowsProduct
<1>6. found' \subseteq ProductIds /\ \A p \in ProductIds \ {q} : p \in found' <=> p \in found
  BY <1>4 DEF ProductsInv
<1>7. QED
  BY <1>1, <1>2, <1>3, <1>5, <1>6, ProductCallGoes DEF ProductsInv

LEMMA ProductCallDiesStep ==
    ASSUME ProductsInv, NEW c \in ProductCalls, ProductCallDies(c)
    PROVE  ProductsInv'
<1>1. PICK call \in ProductCallRow : call = productCall[c]
  BY DEF ProductsInv
<1>2. PICK q \in ProductIds : q = call.id
  BY <1>1, ProductCallFields DEF ProductCallDies
<1>3. /\ call.at # "idle" /\ GoProduct(c, "idle") /\ UNCHANGED <<product, found>>
      /\ disturbed' = disturbed \cup {q}
  BY <1>1, <1>2 DEF ProductCallDies
<1>4. QED
  BY <1>1, <1>2, <1>3, ProductCallGoes DEF ProductsInv

\* Requests about what belongs to products leave products, calls and the index alone.
LEMMA ProductsQuiet ==
    ASSUME ProductsInv, UNCHANGED <<product, productCall, found, disturbed>>
    PROVE  ProductsInv'
  BY DEF ProductsInv, Undisturbed, BusyCall, BusyWith, KnowsProduct, Exists

LEMMA ProductsNextInv ==
    ASSUME ProductsInv, [ProductsNext]_productVars
    PROVE  ProductsInv'
<1>1. ASSUME NEW p \in ProductIds, ProductRequest(p) PROVE ProductsInv'
  <2>1. CASE \/ Attach(p) \/ Detach(p)
             \/ UpsertProductTranslation(p) \/ DeleteProductTranslation(p)
    BY <2>1, ProductsQuiet
       DEF Attach, Detach, UpsertProductTranslation, DeleteProductTranslation, OwnedEdit
  <2>2. QED
    BY <1>1, <2>1, CreateProductStep, UpdateReadProductStep, RemoveProductStep
       DEF ProductRequest
<1>2. ASSUME NEW a \in Attributes, AttributeRequest(a) PROVE ProductsInv'
  BY <1>2, ProductsQuiet
     DEF AttributeRequest, CreateDefinition, UpdateDefinition, RemoveDefinition,
         SetProductAttribute, SetVariantAttribute, RemoveAttributeValue, OwnedEdit
<1>3. CASE UNCHANGED productVars
  BY <1>3, ProductsQuiet DEF productVars
<1>4. QED
  BY <1>1, <1>2, <1>3, CreateVariantsStep, UpdateSaveProductStep, AnnounceProductStep,
     SearchListenerStep, ProductCallDiesStep DEF ProductsNext

\* Search finds no product that is removed or inactive unless calls on it overlapped
\* or died: the listener acts on what the call has read just before (SearchIndexListener).
THEOREM SearchIsRight == ProductsSpec => []SearchFindsWhatIsSold
<1>1. ProductsInit => ProductsInv
  BY DEF ProductsInit, ProductsInv, ProductCallRow, IdleProductCall, NoProduct,
         Undisturbed, BusyCall
<1>2. ProductsInv => SearchFindsWhatIsSold
  BY DEF ProductsInv, Undisturbed, SearchFindsWhatIsSold
<1>3. QED
  BY <1>1, <1>2, ProductsNextInv, PTL DEF ProductsSpec
-----------------------------------------------------------------------------
(***************************************************************************)
(* The seed of roles and permissions                                       *)
(***************************************************************************)

AccountCallRow ==
    {IdleAccountCall} \union
    [at : {"seed"}, todo : SUBSET DefaultPermissions] \union
    [at : {"link"}, todo : SUBSET DefaultPermissions, key : DefaultPermissions] \union
    [at : {"revoke", "grant"}, id : Roles, keys : SUBSET DefaultPermissions] \union
    [at : {"rotate"}, id : Tokens]

\* What seed x has done already: every permission but those it has to do is linked.
SeededBy(x) ==
    /\ x.at = "seed" => ({Admin} \X (DefaultPermissions \ x.todo)) \subseteq granted
    /\ x.at = "link" =>
           ({Admin} \X (DefaultPermissions \ (x.todo \union {x.key}))) \subseteq granted

AccountsInv ==
    /\ permission \subseteq DefaultPermissions
    /\ accountCall \in [AccountCalls -> AccountCallRow]
    /\ ~replaced => \A c \in AccountCalls : SeededBy(accountCall[c])
    /\ SeedLeavesTheDefaults
LEMMA AccountCallFields ==
    ASSUME NEW x \in AccountCallRow
    PROVE  /\ x.at = "seed" => x.todo \in SUBSET DefaultPermissions
           /\ x.at = "link" => x.todo \in SUBSET DefaultPermissions /\ x.key \in DefaultPermissions
           /\ x.at \in {"revoke", "grant"} =>
                  /\ x.id \in Roles /\ x.keys \in SUBSET DefaultPermissions
                  /\ [x EXCEPT !.at = "grant"] \in AccountCallRow
                  /\ [x EXCEPT !.at = "grant"].at = "grant"
  BY DEF AccountCallRow, IdleAccountCall

\* A step of call c to x which takes no permission from the admin role.
LEMMA AccountCallMoves ==
    ASSUME AccountsInv, NEW c \in AccountCalls, NEW x \in AccountCallRow,
           accountCall' = [accountCall EXCEPT ![c] = x],
           permission' \subseteq DefaultPermissions,
           \A p : <<Admin, p>> \in granted => <<Admin, p>> \in granted',
           ~replaced => SeededBy(x)',
           replaced => replaced',
           seeded' /\ ~replaced =>
               seeded \/ ({Admin} \X DefaultPermissions) \subseteq granted
    PROVE  AccountsInv'
<1>1. /\ accountCall' \in [AccountCalls -> AccountCallRow]
      /\ accountCall'[c] = x
      /\ \A b \in AccountCalls \ {c} : accountCall'[b] = accountCall[b]
  BY DEF AccountsInv
<1>2. ASSUME ~replaced', NEW b \in AccountCalls PROVE SeededBy(accountCall[b])'
  <2>1. CASE b = c
    BY <1>1, <1>2, <2>1 DEF SeededBy
  <2>2. CASE b # c
    BY <1>1, <1>2, <2>2 DEF AccountsInv, SeededBy
  <2>3. QED
    BY <2>1, <2>2
<1>3. SeedLeavesTheDefaults'
  BY DEF AccountsInv, SeedLeavesTheDefaults
<1>4. QED
  BY <1>1, <1>2, <1>3 DEF AccountsInv

\* A step that moves no call.
LEMMA AccountsQuiet ==
    ASSUME AccountsInv, UNCHANGED <<permission, accountCall, replaced, seeded>>,
           \A p : <<Admin, p>> \in granted => <<Admin, p>> \in granted'
    PROVE  AccountsInv'
  BY DEF AccountsInv, SeededBy, SeedLeavesTheDefaults

LEMMA SeedRoleStep ==
    ASSUME AccountsInv, NEW c \in AccountCalls, SeedRole(c)
    PROVE  AccountsInv'
<1>1. PICK x : x = [at |-> "seed", todo |-> DefaultPermissions]
  OBVIOUS
<1>2. x \in AccountCallRow /\ accountCall' = [accountCall EXCEPT ![c] = x]
  BY <1>1 DEF SeedRole, StartAccount, AccountCallRow
<1>3. SeededBy(x)'
  BY <1>1 DEF SeededBy
<1>4. UNCHANGED <<permission, granted, replaced, seeded>>
  BY DEF SeedRole, ghostVars
<1>5. QED
  BY <1>2, <1>3, <1>4, AccountCallMoves DEF AccountsInv

LEMMA SeedPermissionStep ==
    ASSUME AccountsInv, NEW c \in AccountCalls, SeedPermission(c)
    PROVE  AccountsInv'
<1>1. PICK call \in AccountCallRow : call = accountCall[c]
  BY DEF AccountsInv
<1>2. call.at = "seed" /\ UNCHANGED <<granted, replaced, seeded>>
  BY <1>1 DEF SeedPermission, ghostVars
<1>3. PICK p \in call.todo :
          /\ permission' = permission \union {p}
          /\ accountCall' = [accountCall EXCEPT ![c] =
                 [at |-> "link", todo |-> call.todo \ {p}, key |-> p]]
  BY <1>1 DEF SeedPermission, GoAccount
<1>4. call.todo \in SUBSET DefaultPermissions /\ p \in DefaultPermissions
  BY <1>2, <1>3, AccountCallFields
<1>5. PICK x : x = [at |-> "link", todo |-> call.todo \ {p}, key |-> p]
  OBVIOUS
<1>6. x \in AccountCallRow /\ accountCall' = [accountCall EXCEPT ![c] = x]
  BY <1>3, <1>4, <1>5 DEF AccountCallRow
<1>7. ~replaced => SeededBy(x)'
  BY <1>1, <1>2, <1>5 DEF AccountsInv, SeededBy
<1>8. permission' \subseteq DefaultPermissions
  BY <1>3, <1>4 DEF AccountsInv
<1>9. QED
  BY <1>2, <1>6, <1>7, <1>8, AccountCallMoves

LEMMA SeedLinkStep ==
    ASSUME AccountsInv, NEW c \in AccountCalls, SeedLink(c)
    PROVE  AccountsInv'
<1>1. PICK call \in AccountCallRow : call = accountCall[c]
  BY DEF AccountsInv
<1>2. call.at = "link" /\ UNCHANGED <<permission, replaced, seeded>>
  BY <1>1 DEF SeedLink, ghostVars
<1>3. PICK x : x = [at |-> "seed", todo |-> call.todo]
  OBVIOUS
<1>4. /\ granted' = granted \union {<<Admin, call.key>>}
      /\ accountCall' = [accountCall EXCEPT ![c] = x]
  BY <1>1, <1>3 DEF SeedLink, GoAccount
<1>5. x \in AccountCallRow
  BY <1>2, <1>3, AccountCallFields DEF AccountCallRow
<1>6. ~replaced => SeededBy(x)'
  BY <1>1, <1>2, <1>3, <1>4 DEF AccountsInv, SeededBy
<1>7. QED
  BY <1>2, <1>4, <1>5, <1>6, AccountCallMoves DEF AccountsInv

LEMMA SeedAdminUserStep ==
    ASSUME AccountsInv, NEW c \in AccountCalls, SeedAdminUser(c)
    PROVE  AccountsInv'
<1>1. accountCall[c] = [at |-> "seed", todo |-> {}]
  BY DEF SeedAdminUser
<1>2. UNCHANGED <<permission, granted, replaced>>
  BY DEF SeedAdminUser
<1>3. ~replaced => ({Admin} \X DefaultPermissions) \subseteq granted
  BY <1>1 DEF AccountsInv, SeededBy
<1>4. PICK x : x = IdleAccountCall
  OBVIOUS
<1>5. /\ x \in AccountCallRow /\ accountCall' = [accountCall EXCEPT ![c] = x]
      /\ SeededBy(x)'
  BY <1>4 DEF SeedAdminUser, GoAccount, AccountCallRow, SeededBy, IdleAccountCall
<1>6. QED
  BY <1>2, <1>3, <1>5, AccountCallMoves DEF AccountsInv

LEMMA SaveRoleStep ==
    ASSUME AccountsInv, NEW c \in AccountCalls, NEW r \in Roles, SaveRole(c, r)
    PROVE  AccountsInv'
<1>1. PICK keys \in SUBSET permission :
          StartAccount(c, [at |-> "revoke", id |-> r, keys |-> keys])
  BY DEF SaveRole
<1>2. PICK x : x = [at |-> "revoke", id |-> r, keys |-> keys]
  OBVIOUS
<1>3. /\ x \in AccountCallRow /\ accountCall' = [accountCall EXCEPT ![c] = x]
      /\ SeededBy(x)'
  BY <1>1, <1>2 DEF StartAccount, AccountCallRow, SeededBy, AccountsInv
<1>4. UNCHANGED <<permission, granted, replaced, seeded>>
  BY DEF SaveRole, ghostVars
<1>5. QED
  BY <1>3, <1>4, AccountCallMoves DEF AccountsInv

LEMMA RevokeGrantsStep ==
    ASSUME AccountsInv, NEW c \in AccountCalls, RevokeGrants(c)
    PROVE  AccountsInv'
<1>1. PICK call \in AccountCallRow : call = accountCall[c]
  BY DEF AccountsInv
<1>2. call.at = "revoke" /\ UNCHANGED <<permission, seeded>>
  BY <1>1 DEF RevokeGrants
<1>3. PICK x : x = [call EXCEPT !.at = "grant"]
  OBVIOUS
<1>4. x \in AccountCallRow /\ x.at = "grant"
  BY <1>2, <1>3, AccountCallFields
<1>5. /\ granted' = {g \in granted : g[1] # call.id}
      /\ replaced' <=> replaced \/ call.id = Admin
      /\ accountCall' = [accountCall EXCEPT ![c] = x]
  BY <1>1, <1>3 DEF RevokeGrants, GoAccount
<1>6. CASE call.id = Admin
  <2>1. replaced'
    BY <1>5, <1>6
  <2>2. accountCall' \in [AccountCalls -> AccountCallRow]
    BY <1>4, <1>5 DEF AccountsInv
  <2>3. QED
    BY <1>2, <2>1, <2>2 DEF AccountsInv, SeedLeavesTheDefaults
<1>7. CASE call.id # Admin
  <2>1. \A p : <<Admin, p>> \in granted => <<Admin, p>> \in granted'
    BY <1>5, <1>7
  <2>2. SeededBy(x)'
    BY <1>4 DEF SeededBy
  <2>3. replaced' <=> replaced
    BY <1>5, <1>7
  <2>4. permission' \subseteq DefaultPermissions
    BY <1>2 DEF AccountsInv
  <2>5. seeded' = seeded
    BY <1>2
  <2>6. QED
    BY <1>4, <1>5, <2>1, <2>2, <2>3, <2>4, <2>5, AccountCallMoves
<1>8. QED
  BY <1>6, <1>7

\* The calls that end, and those about tokens.
LEMMA AccountCallEnds ==
    ASSUME AccountsInv, NEW c \in AccountCalls, GoAccount(c, IdleAccountCall),
           UNCHANGED <<permission, replaced, seeded>>,
           \A p : <<Admin, p>> \in granted => <<Admin, p>> \in granted'
    PROVE  AccountsInv'
<1>1. PICK x : x = IdleAccountCall
  OBVIOUS
<1>2. /\ x \in AccountCallRow /\ accountCall' = [accountCall EXCEPT ![c] = x]
      /\ SeededBy(x)'
  BY <1>1 DEF GoAccount, AccountCallRow, SeededBy, IdleAccountCall
<1>3. QED
  BY <1>2, AccountCallMoves DEF AccountsInv

LEMMA RotateReadStep ==
    ASSUME AccountsInv, NEW c \in AccountCalls, NEW t \in Tokens, RotateRead(c, t)
    PROVE  AccountsInv'
<1>1. UNCHANGED <<permission, granted, replaced, seeded>>
  BY DEF RotateRead, roleVars, ghostVars
<1>2. CASE StartAccount(c, [at |-> "rotate", id |-> t])
  <2>1. PICK x : x = [at |-> "rotate", id |-> t]
    OBVIOUS
  <2>2. /\ x \in AccountCallRow /\ accountCall' = [accountCall EXCEPT ![c] = x]
        /\ SeededBy(x)'
    BY <1>2, <2>1 DEF StartAccount, AccountCallRow, SeededBy
  <2>3. QED
    BY <1>1, <2>2, AccountCallMoves DEF AccountsInv
<1>3. CASE UNCHANGED accountCall
  BY <1>1, <1>3, AccountsQuiet
<1>4. QED
  BY <1>2, <1>3 DEF RotateRead

LEMMA AccountsNextInv ==
    ASSUME AccountsInv, [AccountsNext]_accountVars
    PROVE  AccountsInv'
<1>1. ASSUME NEW r \in Roles, RoleRequest(r) PROVE AccountsInv'
  <2>1. CASE RemoveRole(r) \/ \E u \in Users : AssignRole(u, r) \/ UnassignRole(u, r)
    <3>1. UNCHANGED <<permission, accountCall, replaced, seeded>>
      BY <2>1 DEF RemoveRole, AssignRole, UnassignRole, Record, ghostVars
    <3>2. \A p : <<Admin, p>> \in granted => <<Admin, p>> \in granted'
      BY <2>1 DEF RemoveRole, AssignRole, UnassignRole
    <3>3. QED
      BY <3>1, <3>2, AccountsQuiet
  <2>2. QED
    BY <1>1, <2>1, SaveRoleStep DEF RoleRequest
<1>2. ASSUME NEW u \in Users, UserRequest(u) PROVE AccountsInv'
  BY <1>2, AccountsQuiet
     DEF UserRequest, CreateUser, UpdateUser, RemoveUser, CreateApiKey, Login, Record,
         roleVars, ghostVars
<1>3. ASSUME NEW k \in ApiKeys, RevokeApiKey(k) PROVE AccountsInv'
  BY <1>3, AccountsQuiet DEF RevokeApiKey, Record, roleVars, ghostVars
<1>4. ASSUME NEW t \in Tokens, TokenRequest(t) PROVE AccountsInv'
  <2>1. CASE Expire(t) \/ Logout(t)
    BY <2>1, AccountsQuiet DEF Expire, Logout, Record, roleVars, ghostVars
  <2>2. QED
    BY <1>4, <2>1, RotateReadStep DEF TokenRequest
<1>5. ASSUME NEW c \in AccountCalls, AccountStep(c) PROVE AccountsInv'
  <2>1. CASE InsertGrants(c)
    <3>1. GoAccount(c, IdleAccountCall) /\ UNCHANGED <<permission, replaced, seeded>>
      BY <2>1 DEF InsertGrants, ghostVars
    <3>2. \A p : <<Admin, p>> \in granted => <<Admin, p>> \in granted'
      BY <2>1 DEF InsertGrants
    <3>3. QED
      BY <3>1, <3>2, AccountCallEnds
  <2>2. CASE RotateSave(c) \/ AccountCallDies(c)
    <3>1. GoAccount(c, IdleAccountCall) /\ UNCHANGED <<permission, granted, replaced, seeded>>
      BY <2>2 DEF RotateSave, AccountCallDies, roleVars, ghostVars
    <3>2. QED
      BY <3>1, AccountCallEnds
  <2>3. QED
    BY <1>5, <2>1, <2>2, SeedRoleStep, SeedPermissionStep, SeedLinkStep,
       SeedAdminUserStep, RevokeGrantsStep DEF AccountStep
<1>6. CASE UNCHANGED accountVars
  BY <1>6, AccountsQuiet DEF accountVars
<1>7. QED
  BY <1>1, <1>2, <1>3, <1>4, <1>5, <1>6 DEF AccountsNext

\* Seeds that die anywhere, run at once or again, among any other requests, leave the
\* admin role with every default permission once one of them finishes (seedAuth).
THEOREM SeedIsIdempotent == AccountsSpec => []SeedLeavesTheDefaults
<1>1. AccountsInit => AccountsInv
  BY DEF AccountsInit, AccountsInv, AccountCallRow, SeededBy, IdleAccountCall,
         SeedLeavesTheDefaults
<1>2. AccountsInv => SeedLeavesTheDefaults
  BY DEF AccountsInv
<1>3. QED
  BY <1>1, <1>2, AccountsNextInv, PTL DEF AccountsSpec
-----------------------------------------------------------------------------
(***************************************************************************)
(* Purchase orders and their receipts                                      *)
(***************************************************************************)

PoRow == [at : PoStatuses, supplier : Suppliers, lines : SUBSET Variants]
PoCallRow == [at : {"item", "insert"}, id : PurchaseOrders, todo : SUBSET Variants,
              holds : SUBSET Variants, read : [Variants -> Int]]

Credits(v) == {c \in credited : c[2] = v}

SupplyTypes ==
    /\ po \in [PurchaseOrders -> {NoPo} \union PoRow]
    /\ item \in [Variants -> Nat \union {NoItem}]
    /\ adjusted \in [Variants -> Nat]
    /\ credited \subseteq PurchaseOrders \X Variants
    /\ \A v \in Variants : IsFiniteSet(Credits(v))
    /\ poCall \in [PoCalls -> {IdlePoCall} \union PoCallRow]

\* A receipt x: its order is still a draft, its lines are those it holds and those it has
\* to do, and what it read of an item it holds is what is on hand.
Receipt(x) ==
    /\ po[x.id] # NoPo /\ po[x.id].at = "draft"
    /\ po[x.id].lines = x.todo \union x.holds
    /\ x.at = "insert" => x.todo # {}
    /\ \A v \in x.todo : v \notin x.holds /\ x.read[v] = 0
    /\ \A v \in x.holds : x.read[v] = OnHand(v)

Receiving(k) == poCall[k] # IdlePoCall

\* Two receipts share neither their order nor an item they hold.
LocksExclude ==
    \A j, k \in PoCalls : Receiving(j) /\ Receiving(k) /\ j # k =>
        /\ poCall[j].id # poCall[k].id
        /\ poCall[j].holds \intersect poCall[k].holds = {}

SupplyInv ==
    /\ SupplyTypes
    /\ \A k \in PoCalls : Receiving(k) => Receipt(poCall[k])
    /\ LocksExclude
    /\ StockIsExplained
LEMMA LeastNatural ==
    ASSUME NEW T \in SUBSET Nat, T # {}
    PROVE  Min(T) \in T
<1>1. \E x \in T : \A y \in T : x <= y
  <2>1. PICK R : R = OpToRel(<, Nat)
    OBVIOUS
  <2>2. IsWellFoundedOn(R, Nat)
    BY <2>1, NatLessThanWellFounded
  <2>3. PICK x \in T : \A y \in T : <<y, x>> \notin R
    BY <2>2, WFMin
  <2>4. \A y \in T : ~(y < x)
    BY <2>1, <2>3 DEF OpToRel
  <2>5. QED
    BY <2>4
<1>2. QED
  BY <1>1 DEF Min

LEMMA LeastLine ==
    ASSUME NEW T \in SUBSET Variants, T # {}
    PROVE  Min(T) \in T
<1>1. T \in SUBSET Nat
  BY VariantCountAssumption DEF Variants
<1>2. QED
  BY <1>1, LeastNatural

LEMMA PoCallFields ==
    ASSUME SupplyInv, NEW k \in PoCalls
    PROVE  /\ Receiving(k) => poCall[k] \in PoCallRow /\ Receipt(poCall[k])
           /\ poCall[k].at \in {"item", "insert"} => Receiving(k)
  BY DEF SupplyInv, SupplyTypes, Receiving, IdlePoCall

\* The two halves of StockIsExplained.
ItemExplained(v) == OnHand(v) = adjusted[v] + Cardinality(Credits(v))
OrderCredited(o) ==
    {c \in credited : c[1] = o} = IF po[o].at = "received" THEN {o} \X po[o].lines ELSE {}

LEMMA Explained ==
    StockIsExplained <=> /\ \A v \in Variants : ItemExplained(v)
                         /\ \A o \in PurchaseOrders : OrderCredited(o)
  BY DEF StockIsExplained, ItemExplained, OrderCredited, Credits

\* A step of receipt k to x that writes nothing but its own state.
LEMMA ReceiptMoves ==
    ASSUME SupplyInv, NEW k \in PoCalls,
           NEW x \in PoCallRow \union {IdlePoCall}, poCall' = [poCall EXCEPT ![k] = x],
           UNCHANGED <<po, item, credited, adjusted>>,
           x # IdlePoCall => Receipt(x),
           x # IdlePoCall =>
               \A j \in PoCalls \ {k} : Receiving(j) =>
                   poCall[j].id # x.id /\ poCall[j].holds \intersect x.holds = {}
    PROVE  SupplyInv'
<1>1. /\ poCall'[k] = x
      /\ \A j \in PoCalls \ {k} : poCall'[j] = poCall[j]
      /\ SupplyTypes'
  BY DEF SupplyInv, SupplyTypes, Credits
<1>2. ASSUME NEW j \in PoCalls PROVE (Receiving(j) => Receipt(poCall[j]))'
  BY <1>1 DEF SupplyInv, Receiving, Receipt, OnHand
<1>3. LocksExclude'
  BY <1>1 DEF SupplyInv, Receiving, LocksExclude
<1>4. StockIsExplained'
  BY DEF SupplyInv, StockIsExplained, OnHand
<1>5. QED
  BY <1>1, <1>2, <1>3, <1>4 DEF SupplyInv

\* A step of a request that changes orders which no receipt has locked, to rows that are
\* not received.
LEMMA OrderEdited ==
    ASSUME SupplyInv, NEW o \in PurchaseOrders, NEW row \in PoRow,
           po' = [po EXCEPT ![o] = row], row.at # "received",
           po[o].at # "received", ~PoLocked(o),
           UNCHANGED <<item, credited, adjusted, poCall>>
    PROVE  SupplyInv'
<1>1. /\ po' \in [PurchaseOrders -> {NoPo} \union PoRow]
      /\ po'[o] = row
      /\ \A p \in PurchaseOrders \ {o} : po'[p] = po[p]
  BY DEF SupplyInv, SupplyTypes
<1>2. SupplyTypes'
  BY <1>1 DEF SupplyInv, SupplyTypes, Credits
<1>3. ASSUME NEW j \in PoCalls, Receiving(j) PROVE Receipt(poCall[j])'
  <2>1. poCall[j].id # o
    BY <1>3 DEF PoLocked, Receiving
  <2>2. poCall[j] \in PoCallRow /\ Receipt(poCall[j])
    BY <1>3, PoCallFields
  <2>3. poCall[j].id \in PurchaseOrders
    BY <2>2 DEF PoCallRow
  <2>4. QED
    BY <1>1, <2>1, <2>2, <2>3 DEF Receipt, OnHand
<1>4. LocksExclude' /\ \A j \in PoCalls : Receiving(j)' => Receiving(j)
  BY DEF SupplyInv, LocksExclude, Receiving
<1>5. \A v \in Variants : ItemExplained(v)'
  BY Explained DEF SupplyInv, ItemExplained, OnHand, Credits
<1>6. ASSUME NEW p \in PurchaseOrders PROVE OrderCredited(p)'
  BY <1>1, Explained DEF SupplyInv, OrderCredited
<1>7. StockIsExplained'
  BY <1>5, <1>6, Explained DEF StockIsExplained, ItemExplained, OrderCredited, Credits
<1>8. QED
  BY <1>2, <1>3, <1>4, <1>7 DEF SupplyInv

LEMMA SupplyQuiet ==
    ASSUME SupplyInv, UNCHANGED <<po, item, credited, adjusted, poCall>>
    PROVE  SupplyInv'
  BY DEF SupplyInv, SupplyTypes, Credits, Receipt, Receiving, OnHand, LocksExclude,
         StockIsExplained

LEMMA CreatePoStep ==
    ASSUME SupplyInv, NEW o \in PurchaseOrders, CreatePo(o)
    PROVE  SupplyInv'
<1>1. PICK s \in Suppliers, lines \in SUBSET Variants :
          po' = [po EXCEPT ![o] = [at |-> "draft", supplier |-> s, lines |-> lines]]
  BY DEF CreatePo
<1>2. PICK row : row = [at |-> "draft", supplier |-> s, lines |-> lines]
  OBVIOUS
<1>3. row \in PoRow /\ row.at = "draft"
  BY <1>2 DEF PoRow, PoStatuses
<1>4. /\ po' = [po EXCEPT ![o] = row]
      /\ UNCHANGED <<item, credited, adjusted, poCall>> /\ po[o] = NoPo
  BY <1>1, <1>2 DEF CreatePo, SupplyEdit, stockRows
<1>5. ~PoLocked(o)
  BY <1>4, PoCallFields DEF PoLocked, Receipt, Receiving
<1>6. po[o].at = "none" /\ row.at # "received"
  BY <1>3, <1>4 DEF NoPo
<1>7. QED
  BY <1>3, <1>4, <1>5, <1>6, OrderEdited

LEMMA CancelPoStep ==
    ASSUME SupplyInv, NEW o \in PurchaseOrders, CancelPo(o)
    PROVE  SupplyInv'
<1>1. po[o] \in PoRow
  BY DEF CancelPo, SupplyInv, SupplyTypes, NoPo
<1>2. PICK row : row = [po[o] EXCEPT !.at = "cancelled"]
  OBVIOUS
<1>3. row \in PoRow /\ row.at = "cancelled"
  BY <1>1, <1>2 DEF PoRow, PoStatuses
<1>4. /\ po' = [po EXCEPT ![o] = row]
      /\ UNCHANGED <<item, credited, adjusted, poCall>>
      /\ po[o].at = "draft" /\ ~PoLocked(o)
  BY <1>2 DEF CancelPo, SupplyEdit, stockRows
<1>5. QED
  BY <1>3, <1>4, OrderEdited

LEMMA AdjustItemStep ==
    ASSUME SupplyInv, NEW v \in Variants, AdjustItem(v)
    PROVE  SupplyInv'
<1>1. UNCHANGED <<po, credited, poCall>> /\ ~ItemLocked(v)
  BY DEF AdjustItem, SupplyEdit
<1>2. /\ item' = [item EXCEPT ![v] = IF @ = NoItem THEN 1 ELSE @ + 1]
      /\ adjusted' = [adjusted EXCEPT ![v] = @ + 1]
  BY DEF AdjustItem
<1>3. SupplyTypes'
  BY <1>1, <1>2 DEF SupplyInv, SupplyTypes, NoItem, Credits
<1>4. /\ OnHand(v)' = OnHand(v) + 1 /\ adjusted'[v] = adjusted[v] + 1
      /\ \A w \in Variants \ {v} : OnHand(w)' = OnHand(w) /\ adjusted'[w] = adjusted[w]
  BY <1>2 DEF SupplyInv, SupplyTypes, OnHand, NoItem
<1>5. ASSUME NEW j \in PoCalls, Receiving(j) PROVE Receipt(poCall[j])'
  <2>1. v \notin poCall[j].holds
    BY <1>1, <1>5 DEF ItemLocked, Receiving
  <2>2. poCall[j] \in PoCallRow /\ Receipt(poCall[j])
    BY <1>5, PoCallFields
  <2>3. \A w \in poCall[j].holds : w \in Variants \ {v}
    BY <2>1, <2>2 DEF PoCallRow
  <2>4. QED
    BY <1>1, <1>4, <2>2, <2>3 DEF Receipt
<1>6. LocksExclude' /\ \A j \in PoCalls : Receiving(j)' => Receiving(j)
  BY <1>1 DEF SupplyInv, LocksExclude, Receiving
<1>7. ASSUME NEW w \in Variants PROVE ItemExplained(w)'
  <2>1. OnHand(w) = adjusted[w] + Cardinality(Credits(w))
    BY Explained DEF SupplyInv, ItemExplained
  <2>2. Credits(w)' = Credits(w) /\ Cardinality(Credits(w)) \in Nat
    BY <1>1, FS_CardinalityType DEF SupplyInv, SupplyTypes, Credits
  <2>3. adjusted[w] \in Nat
    BY DEF SupplyInv, SupplyTypes
  <2>4. PICK n \in Nat : n = Cardinality(Credits(w))
    BY <2>2
  <2>5. n = Cardinality(Credits(w)')
    BY <2>2, <2>4
  <2>6. OnHand(w)' = adjusted'[w] + n
    BY <1>4, <2>1, <2>3, <2>4
  <2>7. QED
    BY <2>5, <2>6 DEF ItemExplained
<1>8. \A o \in PurchaseOrders : OrderCredited(o)'
  BY <1>1, Explained DEF SupplyInv, OrderCredited
<1>9. StockIsExplained'
  BY <1>7, <1>8 DEF StockIsExplained, ItemExplained, OrderCredited, Credits
<1>10. QED
  BY <1>3, <1>5, <1>6, <1>9 DEF SupplyInv

LEMMA ReceiveLockPoStep ==
    ASSUME SupplyInv, NEW k \in PoCalls, NEW o \in PurchaseOrders, ReceiveLockPo(k, o)
    PROVE  SupplyInv'
<1>1. /\ UNCHANGED <<po, item, credited, adjusted>>
      /\ po[o].at = "draft" /\ ~PoLocked(o)
  BY DEF ReceiveLockPo, stockRows
<1>2. po[o] \in PoRow /\ po[o] # NoPo
  BY <1>1 DEF SupplyInv, SupplyTypes, NoPo
<1>3. PICK x : x = [at |-> "item", id |-> o, todo |-> po[o].lines, holds |-> {},
                    read |-> [v \in Variants |-> 0]]
  OBVIOUS
<1>4. x \in PoCallRow /\ poCall' = [poCall EXCEPT ![k] = x]
  BY <1>2, <1>3 DEF ReceiveLockPo, GoPo, PoCallRow, PoRow
<1>5. Receipt(x)
  BY <1>1, <1>2, <1>3 DEF Receipt, PoRow
<1>6. \A j \in PoCalls \ {k} : Receiving(j) =>
          poCall[j].id # x.id /\ poCall[j].holds \intersect x.holds = {}
  BY <1>1, <1>3 DEF PoLocked, Receiving
<1>7. QED
  BY <1>1, <1>4, <1>5, <1>6, ReceiptMoves

ReadsAlike(x, y, v) == \A w \in Variants \ {v} : x.read[w] = y.read[w]

\* Receipt k takes its next line v, which nobody has locked.
LEMMA LineTaken ==
    ASSUME SupplyInv, NEW k \in PoCalls, Receiving(k), NEW v \in poCall[k].todo,
           ~ItemLocked(v), UNCHANGED <<po, item, credited, adjusted>>,
           NEW x \in PoCallRow, poCall' = [poCall EXCEPT ![k] = x],
           x.at = "item", x.id = poCall[k].id,
           x.todo = poCall[k].todo \ {v}, x.holds = poCall[k].holds \union {v},
           ReadsAlike(x, poCall[k], v), x.read[v] = OnHand(v)
    PROVE  SupplyInv'
<1>1. poCall[k] \in PoCallRow /\ Receipt(poCall[k])
  BY PoCallFields
<1>2. Receipt(x)
  BY <1>1 DEF Receipt, PoCallRow, ReadsAlike
<1>3. \A j \in PoCalls \ {k} : Receiving(j) =>
          poCall[j].id # x.id /\ poCall[j].holds \intersect x.holds = {}
  BY DEF SupplyInv, LocksExclude, ItemLocked, Receiving
<1>4. QED
  BY <1>2, <1>3, ReceiptMoves

LEMMA ReceiptDies ==
    ASSUME SupplyInv, NEW k \in PoCalls, GoPo(k, IdlePoCall),
           UNCHANGED <<po, item, credited, adjusted>>
    PROVE  SupplyInv'
  BY ReceiptMoves DEF GoPo

LEMMA ReceiveLockItemStep ==
    ASSUME SupplyInv, NEW k \in PoCalls, ReceiveLockItem(k)
    PROVE  SupplyInv'
<1>1. /\ UNCHANGED <<po, item, credited, adjusted>>
      /\ poCall[k].at = "item" /\ poCall[k].todo # {}
  BY DEF ReceiveLockItem, stockRows
<1>2. Receiving(k) /\ poCall[k] \in PoCallRow /\ Receipt(poCall[k])
  BY <1>1, PoCallFields
<1>3. PICK call \in PoCallRow : call = poCall[k]
  BY <1>2
<1>4. PICK v \in call.todo : v = NextLine(k)
  BY <1>1, <1>3, LeastLine DEF NextLine, PoCallRow
<1>5. v \in Variants
  BY <1>3, <1>4 DEF PoCallRow
<1>6. CASE item[v] = NoItem /\ GoPo(k, [call EXCEPT !.at = "insert"])
  <2>1. PICK x : x = [call EXCEPT !.at = "insert"]
    OBVIOUS
  <2>2. /\ x \in PoCallRow /\ x.id = call.id /\ x.todo = call.todo
        /\ x.holds = call.holds /\ x.read = call.read
    BY <1>3, <2>1 DEF PoCallRow
  <2>3. poCall' = [poCall EXCEPT ![k] = x]
    BY <1>6, <2>1 DEF GoPo
  <2>4. Receipt(x)
    BY <1>1, <1>2, <1>3, <2>2 DEF Receipt
  <2>5. \A j \in PoCalls \ {k} : Receiving(j) =>
            poCall[j].id # x.id /\ poCall[j].holds \intersect x.holds = {}
    BY <1>2, <1>3, <2>2 DEF SupplyInv, LocksExclude
  <2>6. QED
    BY <1>1, <2>2, <2>3, <2>4, <2>5, ReceiptMoves
<1>7. CASE /\ item[v] # NoItem /\ ~ItemLocked(v)
           /\ GoPo(k, [call EXCEPT !.todo = @ \ {v}, !.holds = @ \cup {v},
                                   !.read[v] = item[v]])
  <2>1. PICK x : x = [call EXCEPT !.todo = @ \ {v}, !.holds = @ \cup {v},
                                  !.read[v] = item[v]]
    OBVIOUS
  <2>2. poCall' = [poCall EXCEPT ![k] = x]
    BY <1>7, <2>1 DEF GoPo
  <2>3. item[v] \in Int /\ item[v] = OnHand(v)
    BY <1>5, <1>7 DEF SupplyInv, SupplyTypes, OnHand
  <2>4. /\ x \in PoCallRow /\ x.at = call.at /\ x.id = call.id
        /\ x.todo = call.todo \ {v} /\ x.holds = call.holds \union {v}
        /\ \A w \in Variants \ {v} : x.read[w] = call.read[w]
        /\ x.read[v] = item[v]
    BY <1>3, <1>5, <2>1, <2>3 DEF PoCallRow
  <2>5. /\ x.at = "item" /\ x.id = poCall[k].id /\ v \in poCall[k].todo
        /\ x.todo = poCall[k].todo \ {v} /\ x.holds = poCall[k].holds \union {v}
        /\ ReadsAlike(x, poCall[k], v) /\ x.read[v] = OnHand(v)
    BY <1>1, <1>3, <1>4, <2>3, <2>4 DEF ReadsAlike
  <2>6. ~ItemLocked(v) /\ x \in PoCallRow
    BY <1>7, <2>4
  <2>7. QED
    BY <1>1, <1>2, <2>2, <2>5, <2>6, LineTaken
<1>8. QED
  BY <1>3, <1>4, <1>6, <1>7 DEF ReceiveLockItem

LEMMA ReceiveInsertItemStep ==
    ASSUME SupplyInv, NEW k \in PoCalls, ReceiveInsertItem(k)
    PROVE  SupplyInv'
<1>1. /\ UNCHANGED <<po, item, credited, adjusted>>
      /\ poCall[k].at = "insert"
  BY DEF ReceiveInsertItem, stockRows
<1>2. Receiving(k) /\ poCall[k] \in PoCallRow /\ Receipt(poCall[k])
  BY <1>1, PoCallFields
<1>3. PICK call \in PoCallRow : call = poCall[k]
  BY <1>2
<1>4. PICK v \in call.todo : v = NextLine(k)
  BY <1>1, <1>2, <1>3, LeastLine DEF NextLine, PoCallRow, Receipt
<1>5. v \in Variants /\ ~ItemLocked(v)
  BY <1>3, <1>4 DEF PoCallRow, ReceiveInsertItem
<1>6. CASE GoPo(k, IdlePoCall)
  BY <1>1, <1>6, ReceiptDies
<1>7. CASE /\ item[v] = NoItem
           /\ GoPo(k, [call EXCEPT !.at = "item", !.todo = @ \ {v}, !.holds = @ \cup {v}])
  <2>1. PICK x : x = [call EXCEPT !.at = "item", !.todo = @ \ {v}, !.holds = @ \cup {v}]
    OBVIOUS
  <2>2. poCall' = [poCall EXCEPT ![k] = x]
    BY <1>7, <2>1 DEF GoPo
  <2>3. /\ x \in PoCallRow /\ x.at = "item" /\ x.id = call.id
        /\ x.todo = call.todo \ {v} /\ x.holds = call.holds \union {v}
        /\ x.read = call.read
    BY <1>3, <1>5, <2>1 DEF PoCallRow
  <2>4. x.read[v] = OnHand(v)
    BY <1>2, <1>3, <1>7, <2>3 DEF Receipt, OnHand
  <2>5. ReadsAlike(x, poCall[k], v)
    BY <1>3, <2>3 DEF ReadsAlike
  <2>6. QED
    BY <1>1, <1>2, <1>3, <1>5, <2>2, <2>3, <2>4, <2>5, LineTaken
<1>8. QED
  BY <1>3, <1>4, <1>6, <1>7 DEF ReceiveInsertItem

LEMMA ReceiveCommitStep ==
    ASSUME SupplyInv, NEW k \in PoCalls, ReceiveCommit(k)
    PROVE  SupplyInv'
<1>1. poCall[k].at = "item" /\ poCall[k].todo = {} /\ UNCHANGED adjusted
  BY DEF ReceiveCommit
<1>2. Receiving(k) /\ poCall[k] \in PoCallRow /\ Receipt(poCall[k])
  BY <1>1, PoCallFields
<1>3. PICK call \in PoCallRow : call = poCall[k]
  BY <1>2
<1>4. PICK o \in PurchaseOrders, H \in SUBSET Variants : o = call.id /\ H = call.holds
  BY <1>3 DEF PoCallRow
<1>5. po[o] \in PoRow /\ po[o].at = "draft" /\ po[o].lines = H
  BY <1>1, <1>2, <1>3, <1>4 DEF Receipt, SupplyInv, SupplyTypes
<1>6. PICK row : row = [po[o] EXCEPT !.at = "received"]
  OBVIOUS
<1>7. row \in PoRow /\ row.at = "received" /\ row.lines = H
  BY <1>5, <1>6 DEF PoRow, PoStatuses
<1>8. /\ po' = [po EXCEPT ![o] = row]
      /\ credited' = credited \union ({o} \X H)
      /\ item' = [v \in Variants |-> IF v \in H THEN call.read[v] + 1 ELSE item[v]]
      /\ poCall' = [poCall EXCEPT ![k] = IdlePoCall]
  BY <1>3, <1>4, <1>6 DEF ReceiveCommit, GoPo
<1>9. /\ po' \in [PurchaseOrders -> {NoPo} \union PoRow]
      /\ po'[o] = row
      /\ \A p \in PurchaseOrders \ {o} : po'[p] = po[p]
      /\ poCall' \in [PoCalls -> {IdlePoCall} \union PoCallRow]
      /\ ~Receiving(k)'
      /\ \A j \in PoCalls \ {k} : poCall'[j] = poCall[j]
  BY <1>7, <1>8 DEF SupplyInv, SupplyTypes, Receiving
<1>10. /\ item' \in [Variants -> Nat \union {NoItem}]
       /\ \A v \in H : OnHand(v)' = OnHand(v) + 1
       /\ \A v \in Variants \ H : OnHand(v)' = OnHand(v)
  <2>1. \A v \in Variants : item[v] \in Nat \union {NoItem} /\ OnHand(v) \in Nat
    BY DEF SupplyInv, SupplyTypes, OnHand
  <2>2. \A v \in H : v \in Variants /\ call.read[v] = OnHand(v)
    BY <1>2, <1>3, <1>4 DEF Receipt
  <2>3. \A v \in H : item'[v] = OnHand(v) + 1
    BY <1>8, <2>2
  <2>4. \A v \in Variants \ H : item'[v] = item[v]
    BY <1>8
  <2>5. item' = [v \in Variants |-> item'[v]]
    BY <1>8
  <2>6. \A v \in Variants : item'[v] \in Nat \union {NoItem}
    BY <2>1, <2>3, <2>4
  <2>7. \A v \in H : OnHand(v)' = OnHand(v) + 1
    BY <2>1, <2>2, <2>3 DEF OnHand, NoItem
  <2>8. \A v \in Variants \ H : OnHand(v)' = OnHand(v)
    BY <2>4 DEF OnHand
  <2>9. QED
    BY <2>5, <2>6, <2>7, <2>8
<1>11. \A c \in credited : c[1] # o
  BY <1>5, Explained DEF SupplyInv, OrderCredited
<1>12. ASSUME NEW v \in Variants
       PROVE  /\ IsFiniteSet(Credits(v)')
              /\ Cardinality(Credits(v)) \in Nat
              /\ v \in H => Cardinality(Credits(v)') = Cardinality(Credits(v)) + 1
              /\ v \notin H => Credits(v)' = Credits(v)
  <2>1. IsFiniteSet(Credits(v)) /\ <<o, v>> \notin Credits(v)
    BY <1>11 DEF SupplyInv, SupplyTypes, Credits
  <2>2. Credits(v)' = IF v \in H THEN Credits(v) \union {<<o, v>>} ELSE Credits(v)
    BY <1>8 DEF Credits
  <2>3. /\ IsFiniteSet(Credits(v) \union {<<o, v>>})
        /\ Cardinality(Credits(v) \union {<<o, v>>}) = Cardinality(Credits(v)) + 1
        /\ Cardinality(Credits(v)) \in Nat
    BY <2>1, FS_AddElement, FS_CardinalityType
  <2>4. QED
    BY <2>1, <2>2, <2>3
<1>13. SupplyTypes'
  <2>1. credited' \subseteq PurchaseOrders \X Variants
    BY <1>8 DEF SupplyInv, SupplyTypes
  <2>2. \A v \in Variants : IsFiniteSet(Credits(v))'
    BY <1>12
  <2>3. adjusted' \in [Variants -> Nat]
    BY <1>1 DEF SupplyInv, SupplyTypes
  <2>4. QED
    BY <1>9, <1>10, <2>1, <2>2, <2>3 DEF SupplyTypes
<1>14. ASSUME NEW j \in PoCalls, Receiving(j)' PROVE Receipt(poCall[j])'
  <2>1. j # k /\ poCall'[j] = poCall[j] /\ Receiving(j)
    BY <1>9, <1>14 DEF Receiving
  <2>2. PICK x \in PoCallRow : x = poCall[j] /\ Receipt(x)
    BY <2>1, PoCallFields
  <2>3. x.id # o /\ x.holds \intersect H = {}
    BY <1>2, <1>3, <1>4, <2>1, <2>2 DEF SupplyInv, LocksExclude
  <2>4. x.id \in PurchaseOrders \ {o} /\ \A v \in x.holds : v \in Variants \ H
    BY <2>2, <2>3 DEF PoCallRow
  <2>5. Receipt(x)'
    BY <1>9, <1>10, <2>2, <2>4 DEF Receipt
  <2>6. QED
    BY <2>1, <2>2, <2>5 DEF Receipt
<1>15. LocksExclude'
  BY <1>9 DEF SupplyInv, LocksExclude, Receiving
<1>16. ASSUME NEW v \in Variants PROVE ItemExplained(v)'
  <2>1. OnHand(v) = adjusted[v] + Cardinality(Credits(v))
    BY Explained DEF SupplyInv, ItemExplained
  <2>2. adjusted[v] \in Nat /\ adjusted'[v] = adjusted[v]
    BY <1>1 DEF SupplyInv, SupplyTypes
  <2>3. PICK n \in Nat : n = Cardinality(Credits(v))
    BY <1>12
  <2>4. CASE v \in H
    <3>1. Cardinality(Credits(v)') = n + 1
      BY <1>12, <2>3, <2>4
    <3>2. OnHand(v)' = adjusted'[v] + (n + 1)
      BY <1>10, <2>1, <2>2, <2>3, <2>4
    <3>3. QED
      BY <3>1, <3>2 DEF ItemExplained
  <2>5. CASE v \notin H
    <3>1. Cardinality(Credits(v)') = n
      BY <1>12, <2>3, <2>5
    <3>2. OnHand(v)' = adjusted'[v] + n
      BY <1>10, <2>1, <2>2, <2>3, <2>5
    <3>3. QED
      BY <3>1, <3>2 DEF ItemExplained
  <2>6. QED
    BY <2>4, <2>5
<1>17. ASSUME NEW p \in PurchaseOrders PROVE OrderCredited(p)'
  <2>1. OrderCredited(p)
    BY Explained DEF SupplyInv
  <2>2. CASE p = o
    <3>1. {c \in credited' : c[1] = o} = {o} \X H
      BY <1>8, <1>11
    <3>2. QED
      BY <1>7, <1>9, <2>2, <3>1 DEF OrderCredited
  <2>3. CASE p # o
    <3>1. {c \in credited' : c[1] = p} = {c \in credited : c[1] = p}
      BY <1>8, <2>3
    <3>2. QED
      BY <1>9, <2>1, <2>3, <3>1 DEF OrderCredited
  <2>4. QED
    BY <2>2, <2>3
<1>18. StockIsExplained'
  BY <1>16, <1>17 DEF StockIsExplained, ItemExplained, OrderCredited, Credits
<1>19. QED
  BY <1>13, <1>14, <1>15, <1>18 DEF SupplyInv

LEMMA SupplyInitInv ==
    ASSUME SupplyInit
    PROVE  SupplyInv
<1>1. \A v \in Variants : Credits(v) = {} /\ OnHand(v) = 0 /\ adjusted[v] = 0
  BY DEF SupplyInit, Credits, OnHand
<1>2. SupplyTypes
  BY <1>1, FS_EmptySet DEF SupplyInit, SupplyTypes, NoItem
<1>3. \A k \in PoCalls : ~Receiving(k)
  BY DEF SupplyInit, Receiving
<1>4. \A v \in Variants : ItemExplained(v)
  BY <1>1, FS_EmptySet DEF ItemExplained
<1>5. \A o \in PurchaseOrders : OrderCredited(o)
  BY DEF SupplyInit, OrderCredited, NoPo
<1>6. QED
  BY <1>2, <1>3, <1>4, <1>5, Explained DEF SupplyInv, LocksExclude

LEMMA SupplyNextInv ==
    ASSUME SupplyInv, [SupplyNext]_supplyVars
    PROVE  SupplyInv'
<1>1. ASSUME NEW s \in Suppliers, SupplierRequest(s) PROVE SupplyInv'
  BY <1>1, SupplyQuiet
     DEF SupplierRequest, CreateSupplier, UpdateSupplier, RemoveSupplier, SupplyEdit,
         stockRows
<1>2. ASSUME NEW o \in PurchaseOrders, PoRequest(o) PROVE SupplyInv'
  BY <1>2, CreatePoStep, CancelPoStep, ReceiveLockPoStep DEF PoRequest
<1>3. ASSUME NEW v \in Variants, AdjustItem(v) PROVE SupplyInv'
  BY <1>3, AdjustItemStep
<1>4. ASSUME NEW k \in PoCalls,
             \/ ReceiveLockItem(k) \/ ReceiveInsertItem(k)
             \/ ReceiveCommit(k) \/ ReceiveRollback(k)
      PROVE  SupplyInv'
  <2>1. CASE ReceiveRollback(k)
    BY <2>1, ReceiptDies DEF ReceiveRollback, stockRows
  <2>2. QED
    BY <1>4, <2>1, ReceiveLockItemStep, ReceiveInsertItemStep, ReceiveCommitStep
<1>5. CASE UNCHANGED supplyVars
  BY <1>5, SupplyQuiet DEF supplyVars
<1>6. QED
  BY <1>1, <1>2, <1>3, <1>4, <1>5 DEF SupplyNext

\* Receipts of any number of orders with any lines, adjustments and deaths between any of
\* their steps neither lose nor repeat a delivery (PurchaseOrderService.receive).
THEOREM ReceiptsAddUp == SupplySpec => []StockIsExplained
<1>1. SupplyInv => StockIsExplained
  BY DEF SupplyInv
<1>2. QED
  BY <1>1, SupplyInitInv, SupplyNextInv, PTL DEF SupplySpec
-----------------------------------------------------------------------------
(***************************************************************************)
(* Stores and warehouses                                                   *)
(***************************************************************************)

LocationCallRow ==
    {IdleLocation} \union
    [at : {"link", "settings", "promote", "delete"}, id : Places] \union
    [at : {"save"}, id : Places, row : PlaceRow, promote : BOOLEAN]

LocationTypes ==
    /\ place \in [Places -> {NoPlace} \union PlaceRow]
    /\ locationCall \in [LocationCalls -> LocationCallRow]
    /\ kept \subseteq {StoreIds, WarehouseIds}

\* Whoever demotes the default makes another row the default.
PromotesToDefault ==
    \A k \in LocationCalls :
        locationCall[k].at = "save" /\ locationCall[k].promote => locationCall[k].row.default

\* While a default is kept, one call at most is about to write a row of its kind, and none
\* is about to delete the default.
OneWriter ==
    \A kind \in kept : \A k \in Writers(kind) :
        /\ \A j \in Writers(kind) : j = k
        /\ locationCall[k].at = "delete" /\ Stands(locationCall[k].id) =>
               ~place[locationCall[k].id].default

LocationsInv ==
    /\ LocationTypes
    /\ PromotesToDefault
    /\ OneWriter
    /\ DefaultIsKept
LEMMA KindsApart ==
    ASSUME NEW p \in Places, NEW q \in Places
    PROVE  /\ Kind(p) \in {StoreIds, WarehouseIds} /\ p \in Kind(p)
           /\ Kind(p) \subseteq Places
           /\ q \in Kind(p) <=> Kind(q) = Kind(p)
           /\ \A kind \in {StoreIds, WarehouseIds} : p \in kind => kind = Kind(p)
  BY PlacesAssumption DEF Kind, Places

\* A write either fails as a whole or leaves the row as it was to be and, unless it
\* promotes, every other row alone; rows of the other kind it never touches.
LEMMA SavedRows ==
    ASSUME LocationTypes, NEW p \in Places, NEW row \in PlaceRow, NEW promote \in BOOLEAN,
           NEW rows, rows = Saved(p, row, promote)
    PROVE  /\ rows \in [Places -> {NoPlace} \union PlaceRow]
           /\ \A q \in Places \ Kind(p) : rows[q] = place[q]
           /\ \/ rows = place
              \/ /\ rows[p] = row
                 /\ ~promote => \A q \in Places \ {p} : rows[q] = place[q]
<1>1. place \in [Places -> {NoPlace} \union PlaceRow]
  BY DEF LocationTypes
<1>2. PICK old : old = IF promote THEN Demoted(p, place) ELSE place
  OBVIOUS
<1>3. /\ old \in [Places -> {NoPlace} \union PlaceRow]
      /\ \A q \in Places \ Kind(p) : old[q] = place[q]
      /\ ~promote => old = place
  <2>1. PICK demoted : demoted = Demoted(p, place)
    OBVIOUS
  <2>2. demoted \in [Places -> {NoPlace} \union PlaceRow]
    <3>1. \A q \in Places : place[q] # NoPlace =>
              [place[q] EXCEPT !.default = FALSE] \in PlaceRow
      BY <1>1 DEF PlaceRow
    <3>2. QED
      BY <1>1, <2>1, <3>1 DEF Demoted
  <2>3. \A q \in Places \ Kind(p) : demoted[q] = place[q]
    BY <1>1, <2>1 DEF Demoted
  <2>4. QED
    BY <1>1, <1>2, <2>1, <2>2, <2>3
<1>4. PICK new : new = [old EXCEPT ![p] = row]
  OBVIOUS
<1>5. /\ new \in [Places -> {NoPlace} \union PlaceRow]
      /\ new[p] = row
      /\ \A q \in Places \ {p} : new[q] = old[q]
  BY <1>3, <1>4
<1>6. rows = new \/ rows = place
  BY <1>2, <1>4 DEF Saved
<1>7. p \in Kind(p)
  BY KindsApart
<1>8. CASE rows = new
  BY <1>3, <1>5, <1>7, <1>8
<1>9. CASE rows = place
  BY <1>1, <1>9
<1>10. QED
  BY <1>6, <1>8, <1>9

\* A kind of which nothing was written keeps what it has.
LEMMA OtherKind ==
    ASSUME LocationsInv, NEW kind \in {StoreIds, WarehouseIds}, kind \in kept,
           \A q \in kind : place'[q] = place[q],
           \A j \in LocationCalls : j \in Writers(kind)' =>
               j \in Writers(kind) /\ locationCall'[j] = locationCall[j]
    PROVE  /\ HasDefault(kind)'
           /\ \A k \in Writers(kind)' :
                  /\ \A j \in Writers(kind)' : j = k
                  /\ (locationCall[k].at = "delete" /\ Stands(locationCall[k].id) =>
                          ~place[locationCall[k].id].default)'
<1>1. HasDefault(kind)'
  BY DEF LocationsInv, DefaultIsKept, HasDefault, Stands
<1>2. ASSUME NEW k \in Writers(kind)'
      PROVE  /\ \A j \in Writers(kind)' : j = k
             /\ (locationCall[k].at = "delete" /\ Stands(locationCall[k].id) =>
                     ~place[locationCall[k].id].default)'
  <2>1. Writers(kind)' \subseteq LocationCalls
    BY DEF Writers
  <2>2. k \in Writers(kind) /\ locationCall'[k] = locationCall[k]
        /\ \A j \in Writers(kind)' : j \in Writers(kind)
    BY <1>2, <2>1
  <2>3. locationCall[k].id \in kind
    BY <2>2 DEF Writers
  <2>4. QED
    BY <2>2, <2>3 DEF LocationsInv, OneWriter, Stands
<1>3. QED
  BY <1>1, <1>2

LEMMA LocationCallFields ==
    ASSUME NEW x \in LocationCallRow
    PROVE  /\ x.at = "save" =>
                  x.id \in Places /\ x.row \in PlaceRow /\ x.promote \in BOOLEAN
           /\ x.at \in {"delete", "link", "settings", "promote"} => x.id \in Places
  BY DEF LocationCallRow, IdleLocation

LEMMA LocationCallMoves ==
    ASSUME LocationsInv, NEW k \in LocationCalls, NEW x \in LocationCallRow,
           GoLocation(k, x)
    PROVE  /\ locationCall' \in [LocationCalls -> LocationCallRow]
           /\ locationCall'[k] = x
           /\ \A j \in LocationCalls \ {k} : locationCall'[j] = locationCall[j]
  BY DEF LocationsInv, LocationTypes, GoLocation

\* A step that writes no store and no warehouse and begins no write of one.
LEMMA LocationsQuiet ==
    ASSUME LocationsInv, UNCHANGED <<place, kept>>,
           locationCall' \in [LocationCalls -> LocationCallRow],
           \A j \in LocationCalls :
               \/ locationCall'[j] = locationCall[j]
               \/ locationCall'[j].at \notin {"save", "delete"}
    PROVE  LocationsInv'
<1>1. LocationTypes' /\ PromotesToDefault'
  BY DEF LocationsInv, LocationTypes, PromotesToDefault
<1>2. \A kind : \A j \in Writers(kind)' :
          j \in Writers(kind) /\ locationCall'[j] = locationCall[j]
  BY DEF Writers
<1>3. ASSUME NEW kind \in kept
      PROVE  /\ HasDefault(kind)'
             /\ \A k \in Writers(kind)' :
                    /\ \A j \in Writers(kind)' : j = k
                    /\ (locationCall[k].at = "delete" /\ Stands(locationCall[k].id) =>
                            ~place[locationCall[k].id].default)'
  BY <1>2, <1>3, OtherKind DEF LocationsInv, LocationTypes
<1>4. OneWriter' /\ DefaultIsKept'
  BY <1>3 DEF OneWriter, DefaultIsKept
<1>5. QED
  BY <1>1, <1>4 DEF LocationsInv

\* A step that writes rows of the kind of p: if it leaves that kind among those that are
\* kept, then with a default and nobody else about to write.
LEMMA PlaceWritten ==
    ASSUME LocationsInv, NEW p \in Places,
           place' \in [Places -> {NoPlace} \union PlaceRow],
           \A q \in Places \ Kind(p) : place'[q] = place[q],
           kept' \subseteq kept \union {Kind(p)},
           Kind(p) \in kept' => HasDefault(Kind(p))' /\ Writers(Kind(p))' = {},
           locationCall' \in [LocationCalls -> LocationCallRow],
           \A j \in LocationCalls :
               \/ locationCall'[j] = locationCall[j]
               \/ locationCall'[j].at \notin {"save", "delete"}
    PROVE  LocationsInv'
<1>1. LocationTypes' /\ PromotesToDefault'
  BY KindsApart DEF LocationsInv, LocationTypes, PromotesToDefault
<1>2. \A kind : \A j \in Writers(kind)' :
          j \in Writers(kind) /\ locationCall'[j] = locationCall[j]
  BY DEF Writers
<1>3. ASSUME NEW kind \in kept'
      PROVE  /\ HasDefault(kind)'
             /\ \A k \in Writers(kind)' :
                    /\ \A j \in Writers(kind)' : j = k
                    /\ (locationCall[k].at = "delete" /\ Stands(locationCall[k].id) =>
                            ~place[locationCall[k].id].default)'
  <2>1. CASE kind = Kind(p)
    BY <1>3, <2>1
  <2>2. CASE kind # Kind(p)
    <3>1. kind \in kept /\ kind \in {StoreIds, WarehouseIds}
      BY <1>3, <2>2 DEF LocationsInv, LocationTypes
    <3>2. ASSUME NEW q \in kind PROVE place'[q] = place[q]
      <4>1. q \in Places
        BY <3>1 DEF Places
      <4>2. kind = Kind(q)
        BY <3>1, <4>1, KindsApart
      <4>3. q \notin Kind(p)
        BY <2>2, <4>1, <4>2, KindsApart
      <4>4. QED
        BY <4>1, <4>3
    <3>3. QED
      BY <1>2, <3>1, <3>2, OtherKind
  <2>3. QED
    BY <2>1, <2>2
<1>4. OneWriter' /\ DefaultIsKept'
  BY <1>3 DEF OneWriter, DefaultIsKept
<1>5. QED
  BY <1>1, <1>4 DEF LocationsInv

\* A call that has read the row of p and is about to write it.
LEMMA WriteBegins ==
    ASSUME LocationsInv, NEW k \in LocationCalls, NEW p \in Places,
           NEW x \in LocationCallRow, GoLocation(k, x),
           x.at \in {"save", "delete"}, x.id = p,
           x.at = "save" /\ x.promote => x.row.default,
           x.at = "delete" => ~place[p].default,
           UNCHANGED place,
           kept' = IF Writers(Kind(p)) # {} THEN kept \ {Kind(p)} ELSE kept
    PROVE  LocationsInv'
<1>1. /\ locationCall' \in [LocationCalls -> LocationCallRow]
      /\ locationCall'[k] = x
      /\ \A j \in LocationCalls \ {k} : locationCall'[j] = locationCall[j]
  BY LocationCallMoves
<1>2. LocationTypes' /\ PromotesToDefault'
  BY <1>1 DEF LocationsInv, LocationTypes, PromotesToDefault
<1>3. ASSUME NEW kind \in kept'
      PROVE  /\ HasDefault(kind)'
             /\ \A i \in Writers(kind)' :
                    /\ \A j \in Writers(kind)' : j = i
                    /\ (locationCall[i].at = "delete" /\ Stands(locationCall[i].id) =>
                            ~place[locationCall[i].id].default)'
  <2>1. kind \in kept /\ kind \in {StoreIds, WarehouseIds}
    BY <1>3 DEF LocationsInv, LocationTypes
  <2>2. CASE kind = Kind(p)
    <3>1. Writers(kind) = {}
      BY <1>3, <2>2
    <3>2. Writers(kind)' \subseteq {k}
      BY <1>1, <3>1 DEF Writers
    <3>3. HasDefault(kind)'
      BY <2>1 DEF LocationsInv, DefaultIsKept, HasDefault, Stands
    <3>4. QED
      BY <1>1, <3>2, <3>3
  <2>3. CASE kind # Kind(p)
    <3>1. p \notin kind
      BY <2>1, <2>3, KindsApart
    <3>2. \A j \in LocationCalls : j \in Writers(kind)' =>
              j \in Writers(kind) /\ locationCall'[j] = locationCall[j]
      BY <1>1, <3>1 DEF Writers
    <3>3. QED
      BY <2>1, <3>2, OtherKind
  <2>4. QED
    BY <2>2, <2>3
<1>4. OneWriter' /\ DefaultIsKept'
  BY <1>3 DEF OneWriter, DefaultIsKept
<1>5. QED
  BY <1>2, <1>4 DEF LocationsInv

LEMMA CreatePlaceStep ==
    ASSUME LocationsInv, NEW p \in Places, CreatePlace(p),
           locationCall' \in [LocationCalls -> LocationCallRow],
           \A j \in LocationCalls :
               \/ locationCall'[j] = locationCall[j]
               \/ locationCall'[j].at \notin {"save", "delete"}
    PROVE  LocationsInv'
<1>1. PICK row \in PlaceRow :
          /\ place' = Saved(p, row, row.default)
          /\ kept' = IF Writers(Kind(p)) # {} THEN kept \ {Kind(p)}
                     ELSE IF place'[p] = row /\ row.default THEN kept \union {Kind(p)} ELSE kept
  BY DEF CreatePlace
<1>2. PICK promote \in BOOLEAN : promote <=> row.default
  OBVIOUS
<1>3. place' = Saved(p, row, promote)
  BY <1>1, <1>2 DEF Saved
<1>4. /\ place' \in [Places -> {NoPlace} \union PlaceRow]
      /\ \A q \in Places \ Kind(p) : place'[q] = place[q]
      /\ \/ place' = place
         \/ /\ place'[p] = row
            /\ ~promote => \A q \in Places \ {p} : place'[q] = place[q]
  BY <1>3, SavedRows DEF LocationsInv
<1>5. kept' \subseteq kept \union {Kind(p)}
  BY <1>1
<1>6. ASSUME Kind(p) \in kept' PROVE HasDefault(Kind(p))' /\ Writers(Kind(p))' = {}
  <2>1. Writers(Kind(p)) = {}
    BY <1>1, <1>6
  <2>2. Writers(Kind(p))' = {}
    BY <2>1 DEF Writers
  <2>3. CASE place'[p] = row /\ row.default
    <3>1. row # NoPlace
      BY DEF PlaceRow, NoPlace
    <3>2. p \in Kind(p)
      BY KindsApart
    <3>3. QED
      BY <2>2, <2>3, <3>1, <3>2 DEF HasDefault, Stands
  <2>4. CASE ~(place'[p] = row /\ row.default)
    <3>1. Kind(p) \in kept
      BY <1>1, <1>6, <2>1, <2>4
    <3>2. PICK q \in Kind(p) : Stands(q) /\ place[q].default
      BY <3>1 DEF LocationsInv, DefaultIsKept, HasDefault
    <3>3. q # p /\ q \in Places
      BY <3>2, KindsApart DEF CreatePlace
    <3>4. place'[q] = place[q]
      BY <1>2, <1>4, <2>4, <3>3
    <3>5. QED
      BY <2>2, <3>2, <3>4 DEF HasDefault, Stands
  <2>5. QED
    BY <2>3, <2>4
<1>7. QED
  BY <1>4, <1>5, <1>6, PlaceWritten

LEMMA CreateStoreStep ==
    ASSUME LocationsInv, NEW k \in LocationCalls, NEW s \in StoreIds, CreateStore(k, s)
    PROVE  LocationsInv'
<1>1. PICK x : GoLocation(k, x) /\ x \in {IdleLocation, [at |-> "link", id |-> s]}
  BY DEF CreateStore
<1>2. x \in LocationCallRow /\ x.at \notin {"save", "delete"}
  BY <1>1 DEF LocationCallRow, IdleLocation, Places
<1>3. CreatePlace(s) /\ s \in Places
  BY DEF CreateStore, Places
<1>4. QED
  BY <1>1, <1>2, <1>3, LocationCallMoves, CreatePlaceStep

LEMMA CreateWarehouseStep ==
    ASSUME LocationsInv, NEW w \in WarehouseIds, CreateWarehouse(w)
    PROVE  LocationsInv'
<1>1. w \in Places /\ CreatePlace(w) /\ UNCHANGED locationCall
  BY DEF CreateWarehouse, Places
<1>2. QED
  BY <1>1, CreatePlaceStep DEF LocationsInv, LocationTypes

LEMMA UpdatePlaceReadStep ==
    ASSUME LocationsInv, NEW k \in LocationCalls, NEW p \in Places, UpdatePlaceRead(k, p)
    PROVE  LocationsInv'
<1>1. PICK code \in Codes, default \in {"keep", "set", "clear"} :
          GoLocation(k, [at |-> "save", id |-> p, promote |-> default = "set",
                         row |-> [place[p] EXCEPT !.code = code,
                                      !.default = default # "clear" /\ (@ \/ default = "set")]])
  BY DEF UpdatePlaceRead
<1>2. place[p] \in PlaceRow
  BY DEF UpdatePlaceRead, Stands, LocationsInv, LocationTypes
<1>3. PICK row : row = [place[p] EXCEPT !.code = code,
                            !.default = default # "clear" /\ (@ \/ default = "set")]
  OBVIOUS
<1>4. row \in PlaceRow /\ (default = "set" => row.default)
  BY <1>2, <1>3 DEF PlaceRow
<1>5. PICK x : x = [at |-> "save", id |-> p, promote |-> default = "set", row |-> row]
  OBVIOUS
<1>6. /\ x \in LocationCallRow /\ x.at = "save" /\ x.id = p
      /\ x.promote => x.row.default
  BY <1>4, <1>5 DEF LocationCallRow
<1>7. GoLocation(k, x)
  BY <1>1, <1>3, <1>5
<1>8. QED
  BY <1>6, <1>7, WriteBegins DEF UpdatePlaceRead

LEMMA RemovePlaceReadStep ==
    ASSUME LocationsInv, NEW k \in LocationCalls, NEW p \in Places, RemovePlaceRead(k, p)
    PROVE  LocationsInv'
<1>1. PICK x : x = [at |-> "delete", id |-> p]
  OBVIOUS
<1>2. x \in LocationCallRow /\ x.at = "delete" /\ x.id = p /\ GoLocation(k, x)
  BY <1>1 DEF LocationCallRow, RemovePlaceRead
<1>3. QED
  BY <1>2, WriteBegins DEF RemovePlaceRead

LEMMA WriteEnds ==
    ASSUME LocationsInv, NEW k \in LocationCalls, GoLocation(k, IdleLocation)
    PROVE  /\ locationCall' \in [LocationCalls -> LocationCallRow]
           /\ \A j \in LocationCalls :
                  \/ locationCall'[j] = locationCall[j]
                  \/ locationCall'[j].at \notin {"save", "delete"}
           /\ \A kind : Writers(kind)' = Writers(kind) \ {k}
<1>1. PICK x : x = IdleLocation
  OBVIOUS
<1>2. x \in LocationCallRow /\ x.at \notin {"save", "delete"}
  BY <1>1 DEF LocationCallRow, IdleLocation
<1>3. /\ locationCall' \in [LocationCalls -> LocationCallRow]
      /\ locationCall'[k] = x
      /\ \A j \in LocationCalls \ {k} : locationCall'[j] = locationCall[j]
  BY <1>1, <1>2, LocationCallMoves
<1>4. QED
  BY <1>2, <1>3 DEF Writers

LEMMA UpdatePlaceSaveStep ==
    ASSUME LocationsInv, NEW k \in LocationCalls, UpdatePlaceSave(k)
    PROVE  LocationsInv'
<1>1. PICK call \in LocationCallRow : call = locationCall[k]
  BY DEF LocationsInv, LocationTypes
<1>2. call.at = "save"
  BY <1>1 DEF UpdatePlaceSave
<1>3. PICK p \in Places, row \in PlaceRow, promote \in BOOLEAN :
          p = call.id /\ row = call.row /\ promote = call.promote
  BY <1>2, LocationCallFields
<1>4. promote => row.default
  BY <1>1, <1>2, <1>3 DEF LocationsInv, PromotesToDefault
<1>5. /\ place' = Saved(p, row, promote)
      /\ kept' = IF place'[p] # row THEN kept
                 ELSE IF ~row.default /\ Stands(p) /\ place[p].default
                      THEN kept \ {Kind(p)}
                 ELSE IF row.default /\ Writers(Kind(p)) = {k}
                      THEN kept \union {Kind(p)} ELSE kept
      /\ GoLocation(k, IdleLocation)
  BY <1>1, <1>3 DEF UpdatePlaceSave
<1>6. /\ place' \in [Places -> {NoPlace} \union PlaceRow]
      /\ \A q \in Places \ Kind(p) : place'[q] = place[q]
      /\ \/ place' = place
         \/ /\ place'[p] = row
            /\ ~promote => \A q \in Places \ {p} : place'[q] = place[q]
  BY <1>5, SavedRows DEF LocationsInv
<1>7. kept' \subseteq kept \union {Kind(p)}
  BY <1>5
<1>8. /\ locationCall' \in [LocationCalls -> LocationCallRow]
      /\ \A j \in LocationCalls :
             \/ locationCall'[j] = locationCall[j]
             \/ locationCall'[j].at \notin {"save", "delete"}
      /\ Writers(Kind(p))' = Writers(Kind(p)) \ {k}
  BY <1>5, WriteEnds
<1>9. k \in Writers(Kind(p))
  BY <1>1, <1>2, <1>3, KindsApart DEF Writers
<1>10. ASSUME Kind(p) \in kept' PROVE HasDefault(Kind(p))' /\ Writers(Kind(p))' = {}
  <2>1. Writers(Kind(p)) = {k}
    <3>1. CASE Kind(p) \in kept
      BY <1>9, <3>1 DEF LocationsInv, OneWriter
    <3>2. CASE Kind(p) \notin kept
      BY <1>5, <1>10, <3>2
    <3>3. QED
      BY <3>1, <3>2
  <2>2. CASE place'[p] = row /\ row.default
    <3>1. row # NoPlace /\ p \in Kind(p)
      BY KindsApart DEF PlaceRow, NoPlace
    <3>2. QED
      BY <1>8, <2>1, <2>2, <3>1 DEF HasDefault, Stands
  <2>3. CASE ~(place'[p] = row /\ row.default)
    <3>1. Kind(p) \in kept
      BY <1>5, <1>10, <2>3
    <3>2. PICK q \in Kind(p) : Stands(q) /\ place[q].default
      BY <3>1 DEF LocationsInv, DefaultIsKept, HasDefault
    <3>3. q \in Places
      BY <3>2, KindsApart
    <3>4. place'[q] = place[q]
      <4>1. CASE place' = place
        BY <4>1
      <4>2. CASE place' # place
        <5>1. place'[p] = row /\ ~row.default /\ ~promote
          BY <1>4, <1>6, <2>3, <4>2
        <5>2. q # p
          BY <1>5, <1>10, <3>2, <5>1
        <5>3. QED
          BY <1>6, <3>3, <4>2, <5>1, <5>2
      <4>3. QED
        BY <4>1, <4>2
    <3>5. QED
      BY <1>8, <2>1, <3>2, <3>4 DEF HasDefault, Stands
  <2>4. QED
    BY <2>2, <2>3
<1>11. QED
  BY <1>6, <1>7, <1>8, <1>10, PlaceWritten

LEMMA RemovePlaceDeleteStep ==
    ASSUME LocationsInv, NEW k \in LocationCalls, RemovePlaceDelete(k)
    PROVE  LocationsInv'
<1>1. PICK call \in LocationCallRow : call = locationCall[k]
  BY DEF LocationsInv, LocationTypes
<1>2. call.at = "delete" /\ UNCHANGED kept /\ GoLocation(k, IdleLocation)
  BY <1>1 DEF RemovePlaceDelete
<1>3. PICK p \in Places : p = call.id
  BY <1>2, LocationCallFields
<1>4. place' = [place EXCEPT ![p] = NoPlace] \/ place' = place
  BY <1>1, <1>3 DEF RemovePlaceDelete
<1>5. /\ place' \in [Places -> {NoPlace} \union PlaceRow]
      /\ \A q \in Places \ {p} : place'[q] = place[q]
  BY <1>4 DEF LocationsInv, LocationTypes
<1>6. p \in Kind(p) /\ Kind(p) \subseteq Places
  BY KindsApart
<1>7. /\ locationCall' \in [LocationCalls -> LocationCallRow]
      /\ \A j \in LocationCalls :
             \/ locationCall'[j] = locationCall[j]
             \/ locationCall'[j].at \notin {"save", "delete"}
      /\ Writers(Kind(p))' = Writers(Kind(p)) \ {k}
  BY <1>2, WriteEnds
<1>8. k \in Writers(Kind(p))
  BY <1>1, <1>2, <1>3, <1>6 DEF Writers
<1>9. ASSUME Kind(p) \in kept' PROVE HasDefault(Kind(p))' /\ Writers(Kind(p))' = {}
  <2>1. Kind(p) \in kept
    BY <1>2, <1>9
  <2>2. Writers(Kind(p)) = {k} /\ (Stands(p) => ~place[p].default)
    BY <1>1, <1>2, <1>3, <1>8, <2>1 DEF LocationsInv, OneWriter
  <2>3. PICK q \in Kind(p) : Stands(q) /\ place[q].default
    BY <2>1 DEF LocationsInv, DefaultIsKept, HasDefault
  <2>4. place'[q] = place[q]
    BY <1>5, <1>6, <2>2, <2>3
  <2>5. QED
    BY <1>7, <2>2, <2>3, <2>4 DEF HasDefault, Stands
<1>10. QED
  BY <1>2, <1>5, <1>6, <1>7, <1>9, PlaceWritten

LEMMA LocationsInitInv ==
    ASSUME LocationsInit
    PROVE  LocationsInv
<1>1. PICK code \in Codes :
          place = [p \in Places |->
              IF p = DefaultWarehouse THEN [at |-> "present", code |-> code, default |-> TRUE]
              ELSE NoPlace]
  BY DEF LocationsInit
<1>2. PICK row : row = [at |-> "present", code |-> code, default |-> TRUE]
  OBVIOUS
<1>3. row \in PlaceRow /\ row.default /\ row # NoPlace
  BY <1>2 DEF PlaceRow, NoPlace
<1>4. DefaultWarehouse \in Places /\ DefaultWarehouse \in WarehouseIds
  BY DefaultWarehouseAssumption DEF Places
<1>5. place \in [Places -> {NoPlace} \union PlaceRow] /\ place[DefaultWarehouse] = row
  BY <1>1, <1>2, <1>3, <1>4
<1>6. \A k \in LocationCalls : locationCall[k] = IdleLocation
  BY DEF LocationsInit
<1>7. LocationTypes
  BY <1>5 DEF LocationsInit, LocationTypes, LocationCallRow
<1>8. \A kind : Writers(kind) = {}
  BY <1>6 DEF Writers, IdleLocation
<1>9. PromotesToDefault /\ OneWriter
  BY <1>6, <1>8 DEF PromotesToDefault, OneWriter, IdleLocation
<1>10. DefaultIsKept
  BY <1>3, <1>4, <1>5 DEF LocationsInit, DefaultIsKept, HasDefault, Stands
<1>11. QED
  BY <1>7, <1>9, <1>10 DEF LocationsInv

\* The links of stores and their settings.
LEMMA LinkCallStep ==
    ASSUME LocationsInv, NEW k \in LocationCalls,
           \/ \E s \in StoreIds : LinkRequest(k, s) \/ EnsureSettings(s)
           \/ UnlinkPromote(k) \/ OnStoreCreatedLink(k) \/ OnStoreCreatedSettings(k)
           \/ LocationCallDies(k)
    PROVE  LocationsInv'
<1>1. UNCHANGED <<place, kept>>
  BY DEF LinkRequest, Link, Unlink, EnsureSettings, UnlinkPromote, OnStoreCreatedLink,
         OnStoreCreatedSettings, LocationCallDies
<1>2. CASE UNCHANGED locationCall
  BY <1>1, <1>2, LocationsQuiet DEF LocationsInv, LocationTypes
<1>3. ASSUME NEW x \in LocationCallRow, GoLocation(k, x), x.at \notin {"save", "delete"}
      PROVE  LocationsInv'
  BY <1>1, <1>3, LocationCallMoves, LocationsQuiet
<1>4. CASE GoLocation(k, IdleLocation)
  BY <1>1, <1>4, WriteEnds, LocationsQuiet
<1>5. CASE \E s \in StoreIds : GoLocation(k, [at |-> "promote", id |-> s])
  <2>1. PICK s \in StoreIds : GoLocation(k, [at |-> "promote", id |-> s])
    BY <1>5
  <2>2. PICK x : x = [at |-> "promote", id |-> s]
    OBVIOUS
  <2>3. x \in LocationCallRow /\ x.at = "promote" /\ GoLocation(k, x)
    BY <2>1, <2>2 DEF LocationCallRow, Places
  <2>4. QED
    BY <1>3, <2>3
<1>6. CASE OnStoreCreatedLink(k)
  <2>1. PICK call \in LocationCallRow : call = locationCall[k]
    BY DEF LocationsInv, LocationTypes
  <2>2. PICK x : x = [call EXCEPT !.at = "settings"]
    OBVIOUS
  <2>3. x \in LocationCallRow /\ x.at = "settings" /\ GoLocation(k, x)
    BY <1>6, <2>1, <2>2 DEF OnStoreCreatedLink, LocationCallRow, IdleLocation
  <2>4. QED
    BY <1>3, <2>3
<1>7. QED
  BY <1>2, <1>4, <1>5, <1>6
     DEF LinkRequest, Link, Unlink, EnsureSettings, UnlinkPromote,
         OnStoreCreatedSettings, LocationCallDies

LEMMA LocationsNextInv ==
    ASSUME LocationsInv, [LocationsNext]_locationVars
    PROVE  LocationsInv'
<1>1. ASSUME NEW k \in LocationCalls, NEW s \in StoreIds, StoreRequest(k, s)
      PROVE  LocationsInv'
  BY <1>1, CreateStoreStep, UpdatePlaceReadStep, RemovePlaceReadStep
     DEF StoreRequest, Places
<1>2. ASSUME NEW k \in LocationCalls, NEW w \in WarehouseIds, WarehouseRequest(k, w)
      PROVE  LocationsInv'
  BY <1>2, CreateWarehouseStep, UpdatePlaceReadStep, RemovePlaceReadStep
     DEF WarehouseRequest, Places
<1>3. ASSUME NEW k \in LocationCalls, NEW s \in StoreIds,
             LinkRequest(k, s) \/ EnsureSettings(s)
      PROVE  LocationsInv'
  BY <1>3, LinkCallStep
<1>4. ASSUME NEW k \in LocationCalls, LocationStep(k)
      PROVE  LocationsInv'
  BY <1>4, UpdatePlaceSaveStep, RemovePlaceDeleteStep, LinkCallStep DEF LocationStep
<1>5. CASE UNCHANGED locationVars
  BY <1>5, LocationsQuiet DEF locationVars, LocationsInv, LocationTypes
<1>6. QED
  BY <1>1, <1>2, <1>3, <1>4, <1>5 DEF LocationsNext

\* With any number of stores, warehouses and overlapping calls, a kind loses its default
\* only to an update that takes it away or to two calls at once (StoreService and
\* WarehouseService: create, update, remove).
THEOREM DefaultsAreKept == LocationsSpec => []DefaultIsKept
<1>1. LocationsInv => DefaultIsKept
  BY DEF LocationsInv
<1>2. QED
  BY <1>1, LocationsInitInv, LocationsNextInv, PTL DEF LocationsSpec
-----------------------------------------------------------------------------
(***************************************************************************)
(* Publications                                                            *)
(***************************************************************************)

RunningPublication ==
    [at : {"running"}, array : {0} \union Arrays, next : Nat \ {0}, steady : SUBSET Listeners,
     heard : [Listeners -> {0, 1}], throws : BOOLEAN]
EndedPublication ==
    [at : {"done", "threw"}, heard : [Listeners -> {0, 1}], steady : SUBSET Listeners]

Distinct(s) == \A i, j \in 1 .. Len(s) : s[i] = s[j] => i = j

\* Whom a publication iterating over s has called, and whom it will still call.
CalledSoFar(p, s) ==
    /\ p.next <= Len(s) + 1
    /\ \A l \in Listeners : p.heard[l] = 1 <=> \E i \in 1 .. p.next - 1 : s[i] = l
    /\ \A l \in p.steady : \E i \in 1 .. Len(s) : s[i] = l

ArrayOf(a) == IF a = 0 THEN <<>> ELSE array[a]

BusInv ==
    /\ array \in [Arrays -> Seq(Listeners)]
    /\ \A a \in Arrays : Distinct(array[a])
    /\ current \in {0} \union Arrays
    /\ publication = [k \in Publications |-> publication[k]]
    /\ \A k \in Publications :
           \/ publication[k] = IdlePublication
           \/ /\ publication[k] \in RunningPublication
              /\ CalledSoFar(publication[k], ArrayOf(publication[k].array))
           \/ /\ publication[k] \in EndedPublication
              /\ \A l \in publication[k].steady : publication[k].heard[l] = 1

LEMMA Concatenated ==
    ASSUME NEW a \in Seq(Listeners), NEW b \in Seq(Listeners)
    PROVE  a \o b \in Seq(Listeners) /\ Len(a \o b) = Len(a) + Len(b)
  OBVIOUS

LEMMA RemovedOne ==
    ASSUME NEW s \in Seq(Listeners), NEW j \in 1 .. Len(s), Distinct(s)
    PROVE  LET r == SubSeq(s, 1, j - 1) \o SubSeq(s, j + 1, Len(s))
           IN  r \in Seq(Listeners) /\ Distinct(r)
<1>1. PICK n \in Nat : n = Len(s)
  OBVIOUS
<1>2. PICK a : a = SubSeq(s, 1, j - 1)
  OBVIOUS
<1>3. PICK b : b = SubSeq(s, j + 1, n)
  OBVIOUS
<1>4. a \in Seq(Listeners) /\ Len(a) = j - 1 /\ \A i \in 1 .. j - 1 : a[i] = s[i]
  BY <1>1, <1>2
<1>5. b \in Seq(Listeners) /\ Len(b) = n - j /\ \A i \in 1 .. n - j : b[i] = s[i + j]
  BY <1>1, <1>3
<1>6. PICK r : r = a \o b
  OBVIOUS
<1>7. /\ r \in Seq(Listeners) /\ Len(r) = n - 1
      /\ \A i \in 1 .. n - 1 : r[i] = IF i <= j - 1 THEN s[i] ELSE s[i + 1]
  <2>1. r \in Seq(Listeners) /\ Len(r) = (j - 1) + (n - j)
    <3>1. a \o b \in Seq(Listeners) /\ Len(a \o b) = Len(a) + Len(b)
      BY <1>4, <1>5, Concatenated
    <3>2. QED
      BY <1>1, <1>4, <1>5, <1>6, <3>1
  <2>2. \A i \in 1 .. j - 1 : r[i] = a[i]
    BY <1>4, <1>5, <1>6
  <2>3. \A i \in j .. n - 1 : r[i] = b[i - (j - 1)]
    BY <1>1, <1>4, <1>5, <1>6
  <2>4. \A i \in j .. n - 1 : b[i - (j - 1)] = s[i + 1]
    <3>1. ASSUME NEW i \in j .. n - 1 PROVE b[i - (j - 1)] = s[i + 1]
      <4>1. PICK m \in 1 .. n - j : m = i - (j - 1) /\ m + j = i + 1
        BY <1>1
      <4>2. QED
        BY <1>5, <4>1
    <3>2. QED
      BY <3>1
  <2>5. QED
    BY <1>1, <1>4, <2>1, <2>2, <2>3, <2>4
<1>8. Distinct(r)
  BY <1>1, <1>7 DEF Distinct
<1>9. QED
  BY <1>1, <1>2, <1>3, <1>6, <1>7, <1>8

\* There are more arrays than holders of one.
LEMMA FreshArrayIsFree ==
    ASSUME BusInv
    PROVE  FreshArray \in Arrays \ Held
<1> DEFINE running == {k \in Publications : publication[k].at = "running"}
           theirs == {publication[k].array : k \in running}
<1>1. PICK n \in Nat : n = Cardinality(Publications) /\ Arrays = 1 .. n + 2
  BY PublicationsAssumption, FS_CardinalityType DEF Arrays
<1>2. IsFiniteSet(running) /\ Cardinality(running) \in Nat /\ Cardinality(running) <= n
  <2>1. running \in SUBSET Publications
    OBVIOUS
  <2>2. IsFiniteSet(running) /\ Cardinality(running) <= Cardinality(Publications)
    BY <2>1, PublicationsAssumption, FS_Subset
  <2>3. QED
    BY <1>1, <2>2, FS_CardinalityType
<1>3. IsFiniteSet(theirs) /\ Cardinality(theirs) <= n
  <2>1. [k \in running |-> publication[k].array] \in Surjection(running, theirs)
    BY DEF Surjection
  <2>2. PICK f : f \in Surjection(running, theirs)
    BY <2>1
  <2> HIDE DEF running, theirs
  <2>3. IsFiniteSet(theirs) /\ Cardinality(theirs) <= Cardinality(running)
    BY <1>2, <2>2, FS_Surjection
  <2>4. Cardinality(theirs) \in Nat
    BY <2>3, FS_CardinalityType
  <2>5. QED
    BY <1>2, <2>3, <2>4
<1>4. IsFiniteSet(Held) /\ Cardinality(Held) <= n + 1
  <2>1. Held = {current} \union theirs
    BY DEF Held
  <2>2. IsFiniteSet({current}) /\ Cardinality({current}) = 1
    BY FS_Singleton
  <2> HIDE DEF theirs
  <2>3. Cardinality(theirs) \in Nat
    BY <1>3, FS_CardinalityType
  <2>4. /\ IsFiniteSet(Held)
        /\ Cardinality(Held) = 1 + Cardinality(theirs) - Cardinality({current} \intersect theirs)
    BY <1>3, <2>1, <2>2, FS_Union
  <2>5. Cardinality({current} \intersect theirs) \in Nat
    <3>1. {current} \intersect theirs \in SUBSET {current}
      OBVIOUS
    <3>2. IsFiniteSet({current} \intersect theirs)
      BY <2>2, <3>1, FS_Subset
    <3>3. QED
      BY <3>2, FS_CardinalityType
  <2>6. QED
    BY <1>1, <1>3, <2>3, <2>4, <2>5
<1>5. ~(Arrays \subseteq Held)
  <2>1. IsFiniteSet(Arrays) /\ Cardinality(Arrays) = n + 2
    BY <1>1, FS_Interval
  <2>2. Cardinality(Held) \in Nat
    BY <1>4, FS_CardinalityType
  <2>3. Arrays \subseteq Held => Cardinality(Arrays) <= Cardinality(Held)
    BY <1>4, FS_Subset
  <2>4. QED
    BY <1>1, <1>4, <2>1, <2>2, <2>3
<1>6. PICK T : T = Arrays \ Held
  OBVIOUS
<1>7. T \in SUBSET Nat /\ T # {}
  BY <1>1, <1>5, <1>6
<1>8. QED
  BY <1>6, <1>7, LeastNatural DEF FreshArray

LEMMA ListIsDistinct ==
    ASSUME BusInv
    PROVE  List \in Seq(Listeners) /\ Distinct(List) /\ List = ArrayOf(current)
  BY DEF BusInv, List, ArrayOf, Distinct

\* A longer array calls those it has called, and whoever is steady.
LEMMA LongerArray ==
    ASSUME NEW p \in RunningPublication, NEW s \in Seq(Listeners), NEW t \in Seq(Listeners),
           CalledSoFar(p, s), Len(s) <= Len(t), \A i \in 1 .. Len(s) : t[i] = s[i]
    PROVE  CalledSoFar(p, t)
<1>1. PICK m, n \in Nat : m = Len(s) /\ n = Len(t) /\ m <= n
  OBVIOUS
<1>2. PICK next \in Nat \ {0} : next = p.next
  BY DEF RunningPublication
<1>3. p.steady \in SUBSET Listeners
  BY DEF RunningPublication
<1>4. \A i \in 1 .. next - 1 : i \in 1 .. m /\ t[i] = s[i]
  BY <1>1, <1>2 DEF CalledSoFar
<1>5. next <= n + 1
  BY <1>1, <1>2 DEF CalledSoFar
<1>6. ASSUME NEW l \in Listeners
      PROVE  p.heard[l] = 1 <=> \E i \in 1 .. next - 1 : t[i] = l
  <2>1. p.heard[l] = 1 <=> \E i \in 1 .. next - 1 : s[i] = l
    BY <1>2, <1>6 DEF CalledSoFar
  <2>2. QED
    BY <1>4, <2>1
<1>7. ASSUME NEW l \in p.steady
      PROVE  \E i \in 1 .. n : t[i] = l
  <2>1. PICK i \in 1 .. m : s[i] = l
    BY <1>1 DEF CalledSoFar
  <2>2. i \in 1 .. n /\ t[i] = l
    BY <1>1, <2>1
  <2>3. QED
    BY <2>2
<1>8. QED
  BY <1>1, <1>2, <1>5, <1>6, <1>7 DEF CalledSoFar

LEMMA RunningIsHeld ==
    ASSUME NEW k \in Publications, publication[k] \in RunningPublication
    PROVE  publication[k].array \in Held
  BY DEF Held, RunningPublication

LEMMA KindsOfPublication ==
    ASSUME NEW p
    PROVE  /\ p = IdlePublication => p.at = "idle"
           /\ p \in RunningPublication => p.at = "running"
           /\ p \in EndedPublication => p.at \in {"done", "threw"}
  BY DEF IdlePublication, RunningPublication, EndedPublication

LEMMA SubscribeStep ==
    ASSUME BusInv, NEW l \in Listeners, BusSubscribe(l)
    PROVE  BusInv'
<1>1. PICK s \in Seq(Listeners) : s = List /\ Distinct(s) /\ s = ArrayOf(current)
  BY ListIsDistinct
<1>2. PICK c \in Arrays : c = current' /\ (c = current \/ c \notin Held)
  BY FreshArrayIsFree DEF BusSubscribe, BusInv
<1>3. PICK t : t = Append(s, l)
  OBVIOUS
<1>4. /\ t \in Seq(Listeners) /\ Len(t) = Len(s) + 1 /\ t[Len(s) + 1] = l
      /\ \A i \in 1 .. Len(s) : t[i] = s[i]
  BY <1>3
<1>5. Distinct(t)
  <2>1. PICK n \in Nat : n = Len(s)
    OBVIOUS
  <2>2. \A i \in 1 .. n : s[i] # l
    BY <1>1, <2>1 DEF BusSubscribe, Subscribed, Range
  <2>3. \A i, j \in 1 .. n + 1 : t[i] = t[j] => i = j
    BY <1>1, <1>4, <2>1, <2>2 DEF Distinct
  <2>4. QED
    BY <1>4, <2>1, <2>3 DEF Distinct
<1>6. array' = [array EXCEPT ![c] = t] /\ UNCHANGED publication
  BY <1>1, <1>2, <1>3 DEF BusSubscribe
<1>7. array' \in [Arrays -> Seq(Listeners)] /\ array'[c] = t
      /\ \A a \in Arrays \ {c} : array'[a] = array[a]
  BY <1>4, <1>6 DEF BusInv
<1>8. \A a \in Arrays : Distinct(array'[a])
  BY <1>5, <1>7 DEF BusInv
<1>9. ASSUME NEW k \in Publications, publication[k] \in RunningPublication,
             CalledSoFar(publication[k], ArrayOf(publication[k].array))
      PROVE  CalledSoFar(publication[k], ArrayOf(publication[k].array)')
  <2>1. PICK p \in RunningPublication : p = publication[k]
    BY <1>9
  <2>2. p.array \in {0} \union Arrays
    BY DEF RunningPublication
  <2>3. CASE p.array = c
    <3>1. c = current
      BY <1>2, <1>9, <2>1, <2>3, RunningIsHeld
    <3>2. CalledSoFar(p, s)
      BY <1>1, <1>9, <2>1, <2>3, <3>1
    <3>3. CalledSoFar(p, t)
      BY <1>4, <3>2, LongerArray
    <3>4. c # 0
      BY DEF Arrays
    <3>5. ArrayOf(publication[k].array)' = t
      BY <1>6, <1>7, <2>1, <2>3, <3>4 DEF ArrayOf
    <3>6. QED
      BY <2>1, <3>3, <3>5
  <2>4. CASE p.array # c
    <3>1. ArrayOf(publication[k].array)' = ArrayOf(publication[k].array)
      BY <1>6, <1>7, <2>1, <2>2, <2>4 DEF ArrayOf
    <3>2. QED
      BY <1>9, <3>1
  <2>5. QED
    BY <2>3, <2>4
<1>10. QED
  BY <1>2, <1>6, <1>7, <1>8, <1>9 DEF BusInv

LEMMA UnsubscribeStep ==
    ASSUME BusInv, NEW l \in Listeners, Unsubscribe(l)
    PROVE  BusInv'
<1>1. PICK s \in Seq(Listeners) : s = List /\ Distinct(s)
  BY ListIsDistinct
<1>2. FreshArray \in Arrays \ Held
  BY FreshArrayIsFree
<1>3. ListWithout(l) \in Seq(Listeners) /\ Distinct(ListWithout(l))
  <2>1. PICK j \in 1 .. Len(s) : j = CHOOSE i \in DOMAIN List : List[i] = l
    BY <1>1 DEF Unsubscribe, Subscribed, Range
  <2>2. QED
    BY <1>1, <2>1, RemovedOne DEF ListWithout
<1>4. /\ current' \in {0} \union Arrays
      /\ array' \in [Arrays -> Seq(Listeners)]
      /\ \A a \in Arrays : Distinct(array'[a])
      /\ \A a \in Arrays \intersect Held : array'[a] = array[a]
  <2>1. CASE current' = 0 /\ UNCHANGED array
    BY <2>1 DEF BusInv
  <2>2. CASE current' = FreshArray /\ array' = [array EXCEPT ![FreshArray] = ListWithout(l)]
    BY <1>2, <1>3, <2>2 DEF BusInv
  <2>3. QED
    BY <2>1, <2>2 DEF Unsubscribe
<1>5. publication' = Unsteady(l)
  BY DEF Unsubscribe
<1>6. publication' = [k \in Publications |-> publication'[k]]
  BY <1>5 DEF Unsteady
<1>7. ASSUME NEW k \in Publications
      PROVE  \/ publication'[k] = IdlePublication
             \/ /\ publication'[k] \in RunningPublication
                /\ CalledSoFar(publication'[k], ArrayOf(publication[k].array)')
             \/ /\ publication'[k] \in EndedPublication
                /\ \A m \in publication'[k].steady : publication'[k].heard[m] = 1
  <2>1. CASE publication[k] \in RunningPublication
    <3>1. PICK p \in RunningPublication : p = publication[k]
      BY <2>1
    <3>2. PICK x : x = [p EXCEPT !.steady = p.steady \ {l}]
      OBVIOUS
    <3>3. publication'[k] = x
      BY <1>5, <2>1, <3>1, <3>2, KindsOfPublication DEF Unsteady
    <3>4. /\ x \in RunningPublication /\ x.array = p.array /\ x.next = p.next
          /\ x.heard = p.heard /\ x.steady \subseteq p.steady
      BY <3>2 DEF RunningPublication
    <3>5. p.array \in {0} \union Arrays /\ p.array \in Held
      BY <2>1, <3>1, RunningIsHeld DEF RunningPublication
    <3>6. ArrayOf(publication[k].array)' = ArrayOf(p.array)
      BY <1>4, <3>3, <3>4, <3>5 DEF ArrayOf
    <3>7. CalledSoFar(p, ArrayOf(p.array))
      BY <2>1, <3>1, KindsOfPublication DEF BusInv
    <3>8. CalledSoFar(x, ArrayOf(p.array))
      BY <3>4, <3>7 DEF CalledSoFar
    <3>9. QED
      BY <3>3, <3>4, <3>6, <3>8
  <2>2. CASE publication[k] \notin RunningPublication
    <3>1. publication[k].at # "running" /\ publication'[k] = publication[k]
      BY <1>5, <2>2, KindsOfPublication DEF Unsteady, BusInv
    <3>2. QED
      BY <2>2, <3>1 DEF BusInv
  <2>3. QED
    BY <2>1, <2>2
<1>8. QED
  BY <1>4, <1>6, <1>7 DEF BusInv

LEMMA PublishStep ==
    ASSUME BusInv, NEW k \in Publications, Publish(k)
    PROVE  BusInv'
<1>1. PICK s \in Seq(Listeners) : s = List /\ s = ArrayOf(current)
  BY ListIsDistinct
<1>2. PICK x : x = [at |-> "running", array |-> current, next |-> 1, steady |-> Range(s),
                    heard |-> [l \in Listeners |-> 0], throws |-> FALSE]
  OBVIOUS
<1>3. publication' = [publication EXCEPT ![k] = x] /\ UNCHANGED <<array, current>>
  BY <1>1, <1>2 DEF Publish, Subscribed
<1>4. Range(s) \in SUBSET Listeners
  BY DEF Range
<1>5. x \in RunningPublication
  <2>1. [l \in Listeners |-> 0] \in [Listeners -> {0, 1}]
    OBVIOUS
  <2>2. current \in {0} \union Arrays
    BY DEF BusInv
  <2>3. QED
    BY <1>2, <1>4, <2>1, <2>2 DEF RunningPublication
<1>6. CalledSoFar(x, s)
  <2>1. x.next = 1 /\ x.steady = Range(s) /\ \A l \in Listeners : x.heard[l] = 0
    BY <1>2
  <2>2. Len(s) \in Nat /\ \A l \in Range(s) : \E i \in 1 .. Len(s) : s[i] = l
    BY DEF Range
  <2>3. QED
    BY <2>1, <2>2 DEF CalledSoFar
<1>7. x.array = current
  BY <1>2
<1>8. /\ publication' = [j \in Publications |-> publication'[j]] /\ publication'[k] = x
      /\ \A j \in Publications \ {k} : publication'[j] = publication[j]
  BY <1>3 DEF BusInv
<1>9. \A a : ArrayOf(a)' = ArrayOf(a)
  BY <1>3 DEF ArrayOf
<1>10. ArrayOf(publication[k].array)' = s
  BY <1>1, <1>3, <1>7, <1>8 DEF ArrayOf
<1>11. ASSUME NEW j \in Publications \ {k}
       PROVE  ArrayOf(publication[j].array)' = ArrayOf(publication[j].array)
  BY <1>3, <1>8 DEF ArrayOf
<1>12. QED
  BY <1>3, <1>5, <1>6, <1>8, <1>10, <1>11 DEF BusInv

\* A step of a running publication to x, which leaves the arrays alone.
LEMMA PublicationMoves ==
    ASSUME BusInv, NEW k \in Publications, NEW p \in RunningPublication, p = publication[k],
           NEW x, publication' = [publication EXCEPT ![k] = x], UNCHANGED <<array, current>>,
           \/ /\ x \in RunningPublication /\ x.array = p.array
              /\ CalledSoFar(x, ArrayOf(p.array))
           \/ x \in EndedPublication /\ \A l \in x.steady : x.heard[l] = 1
    PROVE  BusInv'
<1>1. /\ publication' = [j \in Publications |-> publication'[j]] /\ publication'[k] = x
      /\ \A j \in Publications \ {k} : publication'[j] = publication[j]
  BY DEF BusInv
<1>2. x.array = p.array => ArrayOf(publication[k].array)' = ArrayOf(p.array)
  BY <1>1 DEF ArrayOf
<1>3. ASSUME NEW j \in Publications \ {k}
      PROVE  ArrayOf(publication[j].array)' = ArrayOf(publication[j].array)
  BY <1>1 DEF ArrayOf
<1>4. \A j \in Publications :
          \/ publication'[j] = IdlePublication
          \/ /\ publication'[j] \in RunningPublication
             /\ CalledSoFar(publication'[j], ArrayOf(publication[j].array)')
          \/ /\ publication'[j] \in EndedPublication
             /\ \A m \in publication'[j].steady : publication'[j].heard[m] = 1
  BY <1>1, <1>2, <1>3 DEF BusInv
<1>5. QED
  BY <1>1, <1>4 DEF BusInv

LEMMA RunningPublicationOf ==
    ASSUME BusInv, NEW k \in Publications, publication[k].at = "running"
    PROVE  /\ publication[k] \in RunningPublication
           /\ CalledSoFar(publication[k], ArrayOf(publication[k].array))
           /\ Awaited(k) = ArrayOf(publication[k].array)
           /\ Awaited(k) \in Seq(Listeners) /\ Distinct(Awaited(k))
<1>1. /\ publication[k] \in RunningPublication
      /\ CalledSoFar(publication[k], ArrayOf(publication[k].array))
  BY KindsOfPublication DEF BusInv
<1>2. publication[k].array \in {0} \union Arrays
  BY <1>1 DEF RunningPublication
<1>3. Awaited(k) \in Seq(Listeners) /\ Distinct(Awaited(k))
  BY <1>2 DEF Awaited, BusInv, Distinct
<1>4. QED
  BY <1>1, <1>3 DEF Awaited, ArrayOf

LEMMA PublishCallStep ==
    ASSUME BusInv, NEW k \in Publications, PublishCall(k)
    PROVE  BusInv'
<1>1. PICK p \in RunningPublication, s \in Seq(Listeners) :
          /\ p = publication[k] /\ s = Awaited(k) /\ s = ArrayOf(p.array)
          /\ CalledSoFar(p, s) /\ Distinct(s)
  BY RunningPublicationOf DEF PublishCall
<1>2. PICK n \in Nat, next \in Nat \ {0} : n = Len(s) /\ next = p.next /\ next <= n
  BY <1>1 DEF PublishCall, RunningPublication
<1>3. PICK m \in Listeners : m = s[next]
  BY <1>2
<1>4. PICK fails \in BOOLEAN :
          publication' = [publication EXCEPT
              ![k].next = @ + 1,
              ![k].heard[Awaited(k)[publication[k].next]] = @ + 1,
              ![k].throws = @ \/ fails]
  BY DEF PublishCall
<1>5. p.heard \in [Listeners -> {0, 1}] /\ p.throws \in BOOLEAN
  BY DEF RunningPublication
<1>6. PICK throws \in BOOLEAN : throws = (p.throws \/ fails)
  OBVIOUS
<1>7. \A l \in Listeners : p.heard[l] = 1 <=> \E i \in 1 .. next - 1 : s[i] = l
  BY <1>1, <1>2 DEF CalledSoFar
<1>8. p.heard[m] = 0
  <2>1. \A i \in 1 .. next - 1 : s[i] # m
    BY <1>1, <1>2, <1>3 DEF Distinct
  <2>2. QED
    BY <1>5, <1>7, <2>1
<1>9. PICK heard : heard = [p.heard EXCEPT ![m] = @ + 1]
  OBVIOUS
<1>10. /\ heard \in [Listeners -> {0, 1}] /\ heard[m] = 1
       /\ \A l \in Listeners \ {m} : heard[l] = p.heard[l]
  BY <1>5, <1>8, <1>9
<1>11. PICK x : x = [p EXCEPT !.next = next + 1, !.heard = heard, !.throws = throws]
  OBVIOUS
<1>12. x \in RunningPublication
  <2>1. PICK more \in Nat \ {0} : more = next + 1
    BY <1>2
  <2>2. x = [p EXCEPT !.next = more, !.heard = heard, !.throws = throws]
    BY <1>11, <2>1
  <2>3. QED
    BY <1>6, <1>10, <2>2 DEF RunningPublication
<1>13. /\ x.array = p.array /\ x.next = next + 1
       /\ x.heard = heard /\ x.steady = p.steady
  BY <1>11 DEF RunningPublication
<1>14. publication' = [publication EXCEPT ![k] = x]
  BY <1>1, <1>2, <1>3, <1>4, <1>6, <1>9, <1>11 DEF BusInv, RunningPublication
<1>15. \A l \in Listeners : heard[l] = 1 <=> \E i \in 1 .. next : s[i] = l
  <2>1. ASSUME NEW l \in Listeners \ {m}
        PROVE  heard[l] = 1 <=> \E i \in 1 .. next : s[i] = l
    <3>1. heard[l] = 1 <=> \E i \in 1 .. next - 1 : s[i] = l
      BY <1>7, <1>10
    <3>2. s[next] # l
      BY <1>3
    <3>3. \A i : i \in 1 .. next <=> (i \in 1 .. next - 1 \/ i = next)
      BY <1>2
    <3>4. QED
      BY <3>1, <3>2, <3>3
  <2>2. heard[m] = 1 /\ \E i \in 1 .. next : s[i] = m
    BY <1>2, <1>3, <1>10
  <2>3. QED
    BY <2>1, <2>2
<1>16. CalledSoFar(x, s)
  <2>1. x.next - 1 = next /\ x.next <= Len(s) + 1
    BY <1>2, <1>13
  <2>2. \A l \in x.steady : \E i \in 1 .. Len(s) : s[i] = l
    BY <1>1, <1>13 DEF CalledSoFar
  <2>3. QED
    BY <1>13, <1>15, <2>1, <2>2 DEF CalledSoFar
<1>17. UNCHANGED <<array, current>>
  BY DEF PublishCall
<1>18. QED
  BY <1>1, <1>12, <1>13, <1>14, <1>16, <1>17, PublicationMoves

LEMMA PublishEndStep ==
    ASSUME BusInv, NEW k \in Publications, PublishEnd(k)
    PROVE  BusInv'
<1>1. PICK p \in RunningPublication, s \in Seq(Listeners) :
          /\ p = publication[k] /\ s = Awaited(k) /\ s = ArrayOf(p.array)
          /\ CalledSoFar(p, s)
  BY RunningPublicationOf DEF PublishEnd
<1>2. p.next > Len(s) /\ p.next <= Len(s) + 1 /\ p.next \in Nat \ {0}
  BY <1>1 DEF PublishEnd, CalledSoFar, RunningPublication
<1>3. p.next - 1 = Len(s)
  BY <1>2
<1>4. PICK x : x = [at |-> IF p.throws THEN "threw" ELSE "done", heard |-> p.heard,
                    steady |-> p.steady]
  OBVIOUS
<1>5. x \in EndedPublication
  BY <1>4 DEF EndedPublication, RunningPublication
<1>6. p.steady \in SUBSET Listeners
  BY DEF RunningPublication
<1>7. \A l \in x.steady : x.heard[l] = 1
  BY <1>1, <1>3, <1>4, <1>6 DEF CalledSoFar
<1>8. publication' = [publication EXCEPT ![k] = x] /\ UNCHANGED <<array, current>>
  BY <1>1, <1>4 DEF PublishEnd
<1>9. QED
  BY <1>1, <1>5, <1>7, <1>8, PublicationMoves

LEMMA BusNextInv ==
    ASSUME BusInv, [BusNext]_busVars
    PROVE  BusInv'
<1>1. CASE UNCHANGED busVars
  BY <1>1 DEF BusInv, busVars, ArrayOf
<1>2. CASE BusNext
  BY <1>2, SubscribeStep, UnsubscribeStep, PublishStep, PublishCallStep, PublishEndStep
     DEF BusNext
<1>3. QED
  BY <1>1, <1>2

(***************************************************************************)
(* Whatever subscribes and unsubscribes while EventBusService.publish      *)
(* awaits its listeners, and whichever of them fail, each one that stayed  *)
(* subscribed was called exactly once when it returns, and nobody twice.   *)
(***************************************************************************)
THEOREM EachListenerIsCalledOnce == BusSpec => []EachListenerOnce
<1>1. BusInit => BusInv
  <2>1. <<>> \in Seq(Listeners) /\ Distinct(<<>>)
    BY DEF Distinct
  <2>2. QED
    BY <2>1 DEF BusInit, BusInv
<1>2. BusInv /\ [BusNext]_busVars => BusInv'
  BY BusNextInv
<1>3. BusInv => EachListenerOnce
  <2>1. ASSUME BusInv, NEW k \in Publications, publication[k].at \in {"done", "threw"},
               NEW l \in Listeners
        PROVE  /\ publication[k].heard[l] <= 1
               /\ l \in publication[k].steady => publication[k].heard[l] = 1
    <3>1. publication[k] \in EndedPublication
                 /\ \A m \in publication[k].steady : publication[k].heard[m] = 1
      BY <2>1, KindsOfPublication DEF BusInv
    <3>2. publication[k].heard[l] \in {0, 1}
      BY <3>1 DEF EndedPublication
    <3>3. QED
      BY <3>1, <3>2
  <2>2. QED
    BY <2>1 DEF EachListenerOnce
<1>4. QED
  BY <1>1, <1>2, <1>3, PTL DEF BusSpec
-----------------------------------------------------------------------------
(***************************************************************************)
(* Plugins and their jobs                                                  *)
(***************************************************************************)

LifecycleRow ==
    {IdleLifecycle} \union
    [at : {"install", "boot", "bootAll", "activate"}, id : PluginIds] \union
    [at : {"hook", "store", "config"}, id : PluginIds, as : {"enabled", "disabled"}]
JobUpdateRow ==
    {IdleUpdate} \union
    [at : {"define", "register", "row", "queue"}, id : PluginIds,
     active : {"active", "inactive"}]

PluginTypes ==
    /\ state \in [PluginIds -> PluginLifecycleStates]
    /\ offer \in [PluginIds -> {"none", "active", "inactive"}]
    /\ job \in [PluginIds -> {"none", "active", "inactive"}]
    /\ served \subseteq PluginIds
    /\ cron \subseteq PluginIds
    /\ pluginState \in [PluginIds -> {"none", "enabled", "disabled"}]
    /\ lifecycle \in [LifecycleCalls -> LifecycleRow]
    /\ jobUpdate \in [JobUpdates -> JobUpdateRow]

\* Call x switches p on or off, or configures it.
Switching(x, p) == x # IdleLifecycle /\ x.at # "config" /\ x.id = p
Configuring(x, p) == x.at = "config" /\ x.id = p

\* What call x, the only one that switches its plugin, knows of the plugin.
KnowsPlugin(x) ==
    /\ x.at = "install" => state[x.id] = "installed"
    /\ x.at \in {"boot", "activate"} => state[x.id] = "enabled"
    /\ x.at = "bootAll" => state[x.id] # "disabled"
    /\ x.at \in {"hook", "store"} =>
           \/ x.as = "enabled" /\ state[x.id] = "enabled"
           \/ x.as = "disabled" /\ state[x.id] # "enabled"

\* A plugin nobody contests is switched by one call at a time, and offers nothing once it
\* is disabled.  Unless a configuration crossed a switch, none is under way with one, and
\* saves what is stored.
Uncontested(p) ==
    /\ \A j, k \in LifecycleCalls :
           Switching(lifecycle[j], p) /\ Switching(lifecycle[k], p) => j = k
    /\ \A k \in LifecycleCalls : Switching(lifecycle[k], p) => KnowsPlugin(lifecycle[k])
    /\ state[p] = "disabled" => offer[p] # "active"
    /\ state[p] = "disabled" /\ p \notin failed
           /\ (\A k \in LifecycleCalls : ~Switching(lifecycle[k], p)) =>
           p \notin served /\ (p \notin crossed => pluginState[p] = "disabled")
    /\ p \notin crossed => \A k \in LifecycleCalls : Configuring(lifecycle[k], p) =>
           /\ \A j \in LifecycleCalls : ~Switching(lifecycle[j], p)
           /\ lifecycle[k].as = "enabled" <=> pluginState[p] = "enabled"

PluginsInv ==
    /\ PluginTypes
    /\ starting # "up" => \A p \in PluginIds : state[p] # "disabled"
    /\ \A p \in PluginIds \ contested : Uncontested(p)

LEMMA LifecycleFields ==
    ASSUME NEW x \in LifecycleRow
    PROVE  /\ x = IdleLifecycle <=> x.at = "idle"
           /\ x # IdleLifecycle => x.id \in PluginIds
           /\ x.at = "boot" => [x EXCEPT !.at = "activate"] \in LifecycleRow
           /\ x.at = "hook" => /\ x.as \in {"enabled", "disabled"}
                               /\ [x EXCEPT !.at = "store"] \in LifecycleRow
           /\ x.at \in {"store", "config"} => x.as \in {"enabled", "disabled"}
  BY DEF LifecycleRow, IdleLifecycle

LEMMA JobUpdateFields ==
    ASSUME NEW x \in JobUpdateRow
    PROVE  /\ x = IdleUpdate <=> x.at = "idle"
           /\ x # IdleUpdate => x.id \in PluginIds /\ x.active \in {"active", "inactive"}
           /\ x # IdleUpdate => \A at \in {"register", "queue"} :
                  /\ [x EXCEPT !.at = at] \in JobUpdateRow
                  /\ [x EXCEPT !.at = at].id = x.id
                  /\ [x EXCEPT !.at = at] # IdleUpdate
  BY DEF JobUpdateRow, IdleUpdate

LEMMA CallsAre ==
    ASSUME NEW p
    PROVE  /\ SwitchesOn(p) = {} <=> \A k \in LifecycleCalls : ~Switching(lifecycle[k], p)
           /\ ConfigsOn(p) = {} <=> \A k \in LifecycleCalls : ~Configuring(lifecycle[k], p)
  BY DEF SwitchesOn, ConfigsOn, CallsOn, Switching, Configuring, IdleLifecycle

\* No other call than k switches q, nor configures it unless one did as q was switched.
Alone(k, q) ==
    q \notin contested' =>
        /\ \A b \in LifecycleCalls \ {k} : ~Switching(lifecycle[b], q)
        /\ q \notin crossed' => \A b \in LifecycleCalls \ {k} : ~Configuring(lifecycle[b], q)

\* A step of call k, on plugin q, to x.
LEMMA LifecycleMoves ==
    ASSUME PluginsInv, NEW k \in LifecycleCalls, NEW q \in PluginIds, NEW x \in LifecycleRow,
           PluginTypes',
           lifecycle' = [lifecycle EXCEPT ![k] = x],
           lifecycle[k] = IdleLifecycle \/ Switching(lifecycle[k], q),
           x = IdleLifecycle \/ Switching(x, q),
           \A p \in PluginIds \ {q} :
               /\ state'[p] = state[p] /\ offer'[p] = offer[p]
               /\ pluginState'[p] = pluginState[p]
               /\ p \in served' => p \in served \/ offer[p] = "active",
           contested \subseteq contested', failed \subseteq failed', crossed \subseteq crossed',
           starting' # "up" => state'[q] # "disabled" /\ starting # "up",
           Alone(k, q),
           q \notin contested' /\ x # IdleLifecycle => KnowsPlugin(x)',
           q \notin contested' /\ state'[q] = "disabled" =>
               /\ offer'[q] # "active"
               /\ x = IdleLifecycle /\ q \notin failed' =>
                      pluginState'[q] = "disabled" /\ q \notin served'
    PROVE  PluginsInv'
<1>1. /\ lifecycle'[k] = x
      /\ \A b \in LifecycleCalls \ {k} : lifecycle'[b] = lifecycle[b]
  BY DEF PluginsInv, PluginTypes
<1>2. ASSUME NEW p \in PluginIds \ contested' PROVE Uncontested(p)'
  <2>1. CASE p = q
    <3>1. \A b \in LifecycleCalls : Switching(lifecycle'[b], p) => b = k /\ x # IdleLifecycle
      BY <1>1, <1>2, <2>1 DEF Alone, Switching
    <3>2. Switching(x, p) \/ x = IdleLifecycle
      BY <2>1
    <3>3. \A b \in LifecycleCalls : Switching(lifecycle'[b], p) => KnowsPlugin(lifecycle[b])'
      BY <1>1, <1>2, <2>1, <3>1
    <3>4. p \notin crossed' => \A b \in LifecycleCalls : ~Configuring(lifecycle'[b], p)
      BY <1>1, <1>2, <2>1, <3>2 DEF Alone, Switching, Configuring, IdleLifecycle
    <3>5. QED
      BY <1>1, <1>2, <2>1, <3>1, <3>2, <3>3, <3>4 DEF Uncontested
  <2>2. CASE p # q
    <3>1. p \in PluginIds \ contested /\ Uncontested(p)
      BY <1>2 DEF PluginsInv
    <3>2. /\ ~Switching(lifecycle[k], p) /\ ~Switching(x, p)
          /\ ~Configuring(lifecycle[k], p) /\ ~Configuring(x, p)
      BY <2>2 DEF Switching, Configuring, IdleLifecycle
    <3>3. \A b \in LifecycleCalls :
              /\ Switching(lifecycle'[b], p) <=> Switching(lifecycle[b], p)
              /\ Configuring(lifecycle'[b], p) <=> Configuring(lifecycle[b], p)
              /\ Switching(lifecycle[b], p) \/ Configuring(lifecycle[b], p) =>
                     lifecycle'[b] = lifecycle[b] /\ lifecycle[b].id = p
      BY <1>1, <3>2 DEF Switching, Configuring
    <3>4. state'[p] = state[p] /\ offer'[p] = offer[p] /\ pluginState'[p] = pluginState[p]
      BY <2>2
    <3>5. \A b \in LifecycleCalls : Switching(lifecycle'[b], p) => KnowsPlugin(lifecycle[b])'
      BY <3>1, <3>3, <3>4 DEF Uncontested, KnowsPlugin
    <3>6. state[p] = "disabled" /\ p \notin served => p \notin served'
      BY <2>2, <3>1 DEF Uncontested
    <3>7. QED
      BY <3>1, <3>3, <3>4, <3>5, <3>6 DEF Uncontested
  <2>3. QED
    BY <2>1, <2>2
<1>3. starting' # "up" => \A p \in PluginIds : state'[p] # "disabled"
  BY DEF PluginsInv
<1>4. QED
  BY <1>2, <1>3 DEF PluginsInv

\* A call that switches q, unless others contest it, is alone and knows q.
LEMMA LifecycleAlone ==
    ASSUME PluginsInv, NEW k \in LifecycleCalls, NEW q \in PluginIds
    PROVE  /\ Switching(lifecycle[k], q) =>
                  /\ UNCHANGED <<contested, crossed>> => Alone(k, q)
                  /\ q \notin contested => KnowsPlugin(lifecycle[k])
           /\ q \notin contested /\ state[q] = "disabled" => offer[q] # "active"
  BY DEF PluginsInv, Uncontested, Alone

\* A call that begins to switch q notes what else is under way.
LEMMA SwitchBegins ==
    ASSUME NEW k, NEW q, Overlapping(q)
    PROVE  /\ Alone(k, q)
           /\ contested \subseteq contested' /\ crossed \subseteq crossed'
  BY CallsAre DEF Overlapping, Alone

\* A step that moves no call and no plugin.
LEMMA PluginsQuiet ==
    ASSUME PluginsInv, PluginTypes',
           UNCHANGED <<state, offer, pluginState, lifecycle, starting, contested, failed, crossed>>,
           \A p \in PluginIds : p \in served' => p \in served \/ offer[p] = "active"
    PROVE  PluginsInv'
<1>1. ASSUME NEW p \in PluginIds \ contested PROVE Uncontested(p)'
  <2>1. Uncontested(p)
    BY <1>1 DEF PluginsInv
  <2>2. \A b : KnowsPlugin(lifecycle[b])' <=> KnowsPlugin(lifecycle[b])
    BY DEF KnowsPlugin
  <2>3. QED
    BY <2>1, <2>2 DEF Uncontested
<1>2. QED
  BY <1>1 DEF PluginsInv

LEMMA StartUpdateTypes ==
    ASSUME PluginTypes, NEW update \in JobUpdateRow, StartUpdate(update)
    PROVE  jobUpdate' \in [JobUpdates -> JobUpdateRow]
  BY DEF StartUpdate, PluginTypes

LEMMA SetActiveMoves ==
    ASSUME PluginTypes, NEW p \in PluginIds, NEW to \in {"active", "inactive"}, SetActive(p, to)
    PROVE  /\ offer' \in [PluginIds -> {"none", "active", "inactive"}]
           /\ job' \in [PluginIds -> {"none", "active", "inactive"}]
           /\ jobUpdate' \in [JobUpdates -> JobUpdateRow]
           /\ offer'[p] \in {"none", to}
           /\ \A q \in PluginIds \ {p} : offer'[q] = offer[q]
<1>1. PICK update : update = [at |-> "row", id |-> p, active |-> to]
  OBVIOUS
<1>2. update \in JobUpdateRow
  BY <1>1 DEF JobUpdateRow
<1>3. jobUpdate' = jobUpdate \/ StartUpdate(update)
  BY <1>1 DEF SetActive
<1>4. jobUpdate' \in [JobUpdates -> JobUpdateRow]
  BY <1>2, <1>3, StartUpdateTypes DEF PluginTypes
<1>5. QED
  BY <1>4 DEF SetActive, PluginTypes

\* enable(), from whatever state the plugin is in.
LEMMA EnableFromMoves ==
    ASSUME PluginsInv, NEW k \in LifecycleCalls, NEW p \in PluginIds, EnableFrom(k, p)
    PROVE  \E x \in LifecycleRow :
               /\ Switching(x, p)
               /\ lifecycle' = [lifecycle EXCEPT ![k] = x]
               /\ state' \in [PluginIds -> PluginLifecycleStates]
               /\ state'[p] # "disabled"
               /\ \A q \in PluginIds \ {p} : state'[q] = state[q]
               /\ KnowsPlugin(x)'
<1>1. CASE /\ state[p] = "discovered"
           /\ state' = [state EXCEPT ![p] = "installed"]
           /\ lifecycle' = [lifecycle EXCEPT ![k] = [at |-> "install", id |-> p]]
  <2>1. PICK x : x = [at |-> "install", id |-> p]
    OBVIOUS
  <2>2. x \in LifecycleRow /\ x # IdleLifecycle /\ x.id = p /\ x.at = "install"
    BY <2>1 DEF LifecycleRow, IdleLifecycle
  <2>3. state' \in [PluginIds -> PluginLifecycleStates] /\ state'[p] = "installed"
    BY <1>1 DEF PluginsInv, PluginTypes, PluginLifecycleStates
  <2>4. \A q \in PluginIds \ {p} : state'[q] = state[q]
    BY <1>1 DEF PluginsInv, PluginTypes
  <2>5. KnowsPlugin(x)'
    BY <2>2, <2>3 DEF KnowsPlugin
  <2>6. Switching(x, p)
    BY <2>2 DEF Switching
  <2>7. QED
    BY <1>1, <2>1, <2>2, <2>3, <2>4, <2>5, <2>6
<1>2. CASE /\ state[p] \in {"installed", "disabled"}
           /\ state' = [state EXCEPT ![p] = "enabled"]
           /\ lifecycle' = [lifecycle EXCEPT ![k] =
                  [at |-> IF booted[p] THEN "activate" ELSE "boot", id |-> p]]
  <2>1. PICK x : x = [at |-> IF booted[p] THEN "activate" ELSE "boot", id |-> p]
    OBVIOUS
  <2>2. /\ x \in LifecycleRow /\ x # IdleLifecycle
        /\ x.id = p /\ x.at \in {"activate", "boot"}
    BY <2>1 DEF LifecycleRow, IdleLifecycle
  <2>3. state' \in [PluginIds -> PluginLifecycleStates] /\ state'[p] = "enabled"
    BY <1>2 DEF PluginsInv, PluginTypes, PluginLifecycleStates
  <2>4. \A q \in PluginIds \ {p} : state'[q] = state[q]
    BY <1>2 DEF PluginsInv, PluginTypes
  <2>5. KnowsPlugin(x)'
    BY <2>2, <2>3 DEF KnowsPlugin
  <2>6. Switching(x, p)
    BY <2>2 DEF Switching
  <2>7. QED
    BY <1>2, <2>1, <2>2, <2>3, <2>4, <2>5, <2>6
<1>3. CASE /\ state[p] = "enabled"
           /\ UNCHANGED state
           /\ lifecycle' = [lifecycle EXCEPT ![k] =
                  [at |-> "store", id |-> p, as |-> "enabled"]]
  <2>1. PICK x : x = [at |-> "store", id |-> p, as |-> "enabled"]
    OBVIOUS
  <2>2. /\ x \in LifecycleRow /\ x # IdleLifecycle
        /\ x.id = p /\ x.at = "store" /\ x.as = "enabled"
    BY <2>1 DEF LifecycleRow, IdleLifecycle
  <2>3. state' \in [PluginIds -> PluginLifecycleStates] /\ state'[p] = "enabled"
    BY <1>3 DEF PluginsInv, PluginTypes
  <2>4. KnowsPlugin(x)'
    BY <2>2, <2>3 DEF KnowsPlugin
  <2>5. Switching(x, p)
    BY <2>2 DEF Switching
  <2>6. QED
    BY <1>3, <2>1, <2>2, <2>3, <2>4, <2>5
<1>4. QED
  BY <1>1, <1>2, <1>3 DEF EnableFrom

LEMMA EnablePluginStep ==
    ASSUME PluginsInv, NEW k \in LifecycleCalls, NEW p \in PluginIds, EnablePlugin(k, p)
    PROVE  PluginsInv'
<1>1. /\ lifecycle[k] = IdleLifecycle /\ EnableFrom(k, p) /\ Overlapping(p)
      /\ UNCHANGED <<offer, served, job, cron, pluginState, jobUpdate, starting, failed>>
      /\ starting = "up"
  BY DEF EnablePlugin, records
<1>2. PICK x \in LifecycleRow :
               /\ Switching(x, p)
               /\ lifecycle' = [lifecycle EXCEPT ![k] = x]
               /\ state' \in [PluginIds -> PluginLifecycleStates]
               /\ state'[p] # "disabled"
               /\ \A q \in PluginIds \ {p} : state'[q] = state[q]
               /\ KnowsPlugin(x)'
  BY <1>1, EnableFromMoves
<1>3. PluginTypes'
  BY <1>1, <1>2 DEF PluginsInv, PluginTypes
<1>4. QED
  BY <1>1, <1>2, <1>3, SwitchBegins, LifecycleMoves

LEMMA InstallHookStep ==
    ASSUME PluginsInv, NEW k \in LifecycleCalls, InstallHook(k)
    PROVE  PluginsInv'
<1>1. PICK call \in LifecycleRow : call = lifecycle[k]
  BY DEF PluginsInv, PluginTypes
<1>2. call.at = "install" /\ call # IdleLifecycle
  BY <1>1, LifecycleFields DEF InstallHook
<1>3. PICK p \in PluginIds : p = call.id
  BY <1>2, LifecycleFields
<1>4. UNCHANGED <<offer, served, job, cron, pluginState, jobUpdate, starting, contested, crossed>>
  BY DEF InstallHook, records
<1>5. /\ Switching(lifecycle[k], p) /\ Alone(k, p)
      /\ p \notin contested => KnowsPlugin(call)
  BY <1>1, <1>2, <1>3, <1>4, LifecycleAlone DEF Switching
<1>6. CASE EnableFrom(k, p) /\ UNCHANGED failed
  <2>1. PICK x \in LifecycleRow :
               /\ Switching(x, p)
               /\ lifecycle' = [lifecycle EXCEPT ![k] = x]
               /\ state' \in [PluginIds -> PluginLifecycleStates]
               /\ state'[p] # "disabled"
               /\ \A q \in PluginIds \ {p} : state'[q] = state[q]
               /\ KnowsPlugin(x)'
    BY <1>6, EnableFromMoves
  <2>2. PluginTypes'
    BY <1>4, <2>1 DEF PluginsInv, PluginTypes
  <2>3. QED
    BY <1>4, <1>5, <1>6, <2>1, <2>2, LifecycleMoves DEF Switching
<1>7. CASE GoLifecycle(k, "idle") /\ failed' = failed \cup {p} /\ UNCHANGED state
  <2>1. PICK x : x = IdleLifecycle
    OBVIOUS
  <2>2. x \in LifecycleRow /\ lifecycle' = [lifecycle EXCEPT ![k] = x]
    BY <1>7, <2>1 DEF GoLifecycle, LifecycleRow
  <2>3. PluginTypes'
    BY <1>4, <1>7, <2>2 DEF PluginsInv, PluginTypes
  <2>4. p \notin contested => state[p] # "disabled"
    BY <1>2, <1>3, <1>5 DEF KnowsPlugin
  <2>5. starting' # "up" => state'[p] # "disabled" /\ starting # "up"
    BY <1>4, <1>7 DEF PluginsInv
  <2>6. QED
    BY <1>4, <1>5, <1>7, <2>1, <2>2, <2>3, <2>4, <2>5, LifecycleMoves
<1>8. QED
  BY <1>1, <1>3, <1>6, <1>7 DEF InstallHook

LEMMA BootHookStep ==
    ASSUME PluginsInv, NEW k \in LifecycleCalls, BootHook(k)
    PROVE  PluginsInv'
<1>1. PICK call \in LifecycleRow : call = lifecycle[k]
  BY DEF PluginsInv, PluginTypes
<1>2. call.at \in {"boot", "bootAll"} /\ call # IdleLifecycle
  BY <1>1, LifecycleFields DEF BootHook
<1>3. PICK p \in PluginIds : p = call.id
  BY <1>2, LifecycleFields
<1>4. UNCHANGED <<state, served, job, cron, pluginState, starting, contested, crossed>>
  BY DEF BootHook, records
<1>5. /\ Switching(lifecycle[k], p) /\ Alone(k, p)
      /\ p \notin contested => KnowsPlugin(call)
  BY <1>1, <1>2, <1>3, <1>4, LifecycleAlone DEF Switching
<1>6. p \notin contested => state[p] # "disabled" /\ (call.at = "boot" => state[p] = "enabled")
  BY <1>2, <1>3, <1>5 DEF KnowsPlugin
<1>7. /\ offer' \in [PluginIds -> {"none", "active", "inactive"}]
      /\ \A q \in PluginIds \ {p} : offer'[q] = offer[q]
  BY <1>1, <1>3 DEF BootHook, PluginsInv, PluginTypes
<1>8. jobUpdate' \in [JobUpdates -> JobUpdateRow]
  <2>1. PICK as \in {"active", "inactive"} :
            jobUpdate' = jobUpdate \/ StartUpdate([at |-> "define", id |-> p, active |-> as])
    BY <1>1, <1>3 DEF BootHook
  <2>2. PICK update : update = [at |-> "define", id |-> p, active |-> as]
    OBVIOUS
  <2>3. update \in JobUpdateRow
    BY <2>2 DEF JobUpdateRow
  <2>4. QED
    BY <2>1, <2>2, <2>3, StartUpdateTypes DEF PluginsInv, PluginTypes
<1>9. PICK x \in LifecycleRow :
          /\ lifecycle' = [lifecycle EXCEPT ![k] = x]
          /\ x = IdleLifecycle \/ (Switching(x, p) /\ x.at = "activate" /\ call.at = "boot")
  <2>1. CASE GoLifecycle(k, "idle")
    BY <2>1 DEF GoLifecycle, LifecycleRow
  <2>2. CASE GoLifecycle(k, "activate") /\ call.at = "boot"
    <3>1. PICK x : x = [call EXCEPT !.at = "activate"]
      OBVIOUS
    <3>2. x \in LifecycleRow /\ lifecycle' = [lifecycle EXCEPT ![k] = x]
      BY <1>1, <2>2, <3>1, LifecycleFields DEF GoLifecycle
    <3>3. x.at = "activate" /\ Switching(x, p)
      BY <1>2, <1>3, <3>1 DEF LifecycleRow, IdleLifecycle, Switching
    <3>4. QED
      BY <2>2, <3>2, <3>3
  <2>3. QED
    BY <1>1, <2>1, <2>2 DEF BootHook
<1>10. PluginTypes'
  BY <1>4, <1>7, <1>8, <1>9 DEF PluginsInv, PluginTypes
<1>11. failed \subseteq failed'
  BY DEF BootHook
<1>12. p \notin contested' /\ x # IdleLifecycle => KnowsPlugin(x)'
  BY <1>4, <1>6, <1>9 DEF KnowsPlugin, Switching
<1>13. starting' # "up" => state'[p] # "disabled" /\ starting # "up"
  BY <1>4 DEF PluginsInv
<1>14. \A q \in PluginIds \ {p} :
           /\ state'[q] = state[q] /\ offer'[q] = offer[q]
           /\ pluginState'[q] = pluginState[q]
           /\ q \in served' => q \in served \/ offer[q] = "active"
  BY <1>4, <1>7
<1>15. p \notin contested' => state'[p] # "disabled"
  BY <1>4, <1>6
<1>16. contested \subseteq contested' /\ crossed \subseteq crossed'
  BY <1>4
<1>17. x = IdleLifecycle \/ Switching(x, p)
  BY <1>9
<1>18. QED
  BY <1>5, <1>9, <1>10, <1>11, <1>12, <1>13, <1>14, <1>15, <1>16, <1>17, LifecycleMoves

LEMMA ActivatePluginStep ==
    ASSUME PluginsInv, NEW k \in LifecycleCalls, ActivatePlugin(k)
    PROVE  PluginsInv'
<1>1. PICK call \in LifecycleRow : call = lifecycle[k]
  BY DEF PluginsInv, PluginTypes
<1>2. call.at = "activate" /\ call # IdleLifecycle
  BY <1>1, LifecycleFields DEF ActivatePlugin
<1>3. PICK p \in PluginIds : p = call.id
  BY <1>2, LifecycleFields
<1>4. UNCHANGED <<state, served, cron, pluginState, starting, contested, failed, crossed>>
  BY DEF ActivatePlugin, records, ghosts
<1>5. /\ Switching(lifecycle[k], p) /\ Alone(k, p)
      /\ p \notin contested => KnowsPlugin(call)
  BY <1>1, <1>2, <1>3, <1>4, LifecycleAlone DEF Switching
<1>6. p \notin contested => state[p] = "enabled"
  BY <1>2, <1>3, <1>5 DEF KnowsPlugin
<1>7. PICK x : x = [at |-> "hook", id |-> p, as |-> "enabled"]
  OBVIOUS
<1>8. /\ x \in LifecycleRow /\ Switching(x, p)
      /\ x.at = "hook" /\ x.id = p /\ x.as = "enabled"
  BY <1>7 DEF LifecycleRow, IdleLifecycle, Switching
<1>9. lifecycle' = [lifecycle EXCEPT ![k] = x]
  BY <1>1, <1>3, <1>7 DEF ActivatePlugin
<1>10. SetActive(p, "active")
  BY <1>1, <1>3 DEF ActivatePlugin
<1>11. PluginTypes' /\ \A q \in PluginIds \ {p} : offer'[q] = offer[q]
  BY <1>4, <1>8, <1>9, <1>10, SetActiveMoves DEF PluginsInv, PluginTypes
<1>12. p \notin contested' => KnowsPlugin(x)'
  BY <1>4, <1>6, <1>8 DEF KnowsPlugin
<1>13. starting' # "up" => state'[p] # "disabled" /\ starting # "up"
  BY <1>4 DEF PluginsInv
<1>14. QED
  BY <1>4, <1>5, <1>6, <1>8, <1>9, <1>11, <1>12, <1>13, LifecycleMoves

LEMMA DisablePluginStep ==
    ASSUME PluginsInv, NEW k \in LifecycleCalls, NEW p \in PluginIds, DisablePlugin(k, p)
    PROVE  PluginsInv'
<1>1. /\ lifecycle[k] = IdleLifecycle /\ starting = "up" /\ Overlapping(p)
      /\ UNCHANGED <<served, cron, pluginState, starting, failed>>
  BY DEF DisablePlugin, records
<1>2. Alone(k, p) /\ contested \subseteq contested' /\ crossed \subseteq crossed'
  BY <1>1, SwitchBegins
<1>3. CASE state[p] = "enabled"
  <2>1. PICK x : x = [at |-> "hook", id |-> p, as |-> "disabled"]
    OBVIOUS
  <2>2. /\ x \in LifecycleRow /\ Switching(x, p)
        /\ x.at = "hook" /\ x.id = p /\ x.as = "disabled"
    BY <2>1 DEF LifecycleRow, IdleLifecycle, Switching
  <2>3. /\ lifecycle' = [lifecycle EXCEPT ![k] = x]
        /\ state' = [state EXCEPT ![p] = "disabled"]
        /\ SetActive(p, "inactive")
    BY <1>3, <2>1 DEF DisablePlugin
  <2>4. PluginTypes' /\ offer'[p] # "active" /\ \A q \in PluginIds \ {p} : offer'[q] = offer[q]
    BY <1>1, <2>2, <2>3, SetActiveMoves DEF PluginsInv, PluginTypes, PluginLifecycleStates
  <2>5. state'[p] = "disabled" /\ \A q \in PluginIds \ {p} : state'[q] = state[q]
    BY <2>3 DEF PluginsInv, PluginTypes
  <2>6. KnowsPlugin(x)'
    BY <2>2, <2>5 DEF KnowsPlugin
  <2>7. QED
    BY <1>1, <1>2, <2>2, <2>3, <2>4, <2>5, <2>6, LifecycleMoves DEF Switching
<1>4. CASE state[p] # "enabled"
  <2>1. PICK x : x = [at |-> "store", id |-> p, as |-> "disabled"]
    OBVIOUS
  <2>2. /\ x \in LifecycleRow /\ Switching(x, p)
        /\ x.at = "store" /\ x.id = p /\ x.as = "disabled"
    BY <2>1 DEF LifecycleRow, IdleLifecycle, Switching
  <2>3. /\ lifecycle' = [lifecycle EXCEPT ![k] = x]
        /\ UNCHANGED <<state, offer, job, jobUpdate>>
    BY <1>4, <2>1 DEF DisablePlugin
  <2>4. PluginTypes'
    BY <1>1, <2>2, <2>3 DEF PluginsInv, PluginTypes
  <2>5. KnowsPlugin(x)'
    BY <1>4, <2>2, <2>3 DEF KnowsPlugin
  <2>6. p \notin contested' /\ state'[p] = "disabled" => offer'[p] # "active"
    BY <1>2, <2>3, LifecycleAlone
  <2>7. QED
    BY <1>1, <1>2, <2>2, <2>3, <2>4, <2>5, <2>6, LifecycleMoves DEF Switching
<1>5. QED
  BY <1>3, <1>4

LEMMA LifecycleHookStep ==
    ASSUME PluginsInv, NEW k \in LifecycleCalls, LifecycleHook(k)
    PROVE  PluginsInv'
<1>1. PICK call \in LifecycleRow : call = lifecycle[k]
  BY DEF PluginsInv, PluginTypes
<1>2. call.at = "hook" /\ call # IdleLifecycle
  BY <1>1, LifecycleFields DEF LifecycleHook
<1>3. PICK p \in PluginIds : p = call.id
  BY <1>2, LifecycleFields
<1>4. UNCHANGED <<state, offer, served, job, cron, pluginState, jobUpdate, starting,
                   contested, crossed>>
  BY DEF LifecycleHook, records, memory
<1>5. /\ Switching(lifecycle[k], p) /\ Alone(k, p)
      /\ p \notin contested =>
             KnowsPlugin(call) /\ (state[p] = "disabled" => offer[p] # "active")
  BY <1>1, <1>2, <1>3, <1>4, LifecycleAlone DEF Switching
<1>6. starting' # "up" => state'[p] # "disabled" /\ starting # "up"
  BY <1>4 DEF PluginsInv
<1>7. CASE GoLifecycle(k, "store") /\ UNCHANGED failed
  <2>1. PICK x : x = [call EXCEPT !.at = "store"]
    OBVIOUS
  <2>2. x \in LifecycleRow /\ lifecycle' = [lifecycle EXCEPT ![k] = x]
    BY <1>1, <1>2, <1>7, <2>1, LifecycleFields DEF GoLifecycle
  <2>3. x.at = "store" /\ x.id = p /\ x.as = call.as
    BY <1>2, <1>3, <2>1 DEF LifecycleRow, IdleLifecycle
  <2>4. p \notin contested' => KnowsPlugin(x)'
    BY <1>2, <1>3, <1>4, <1>5, <2>3 DEF KnowsPlugin
  <2>5. PluginTypes'
    BY <1>4, <2>2 DEF PluginsInv, PluginTypes
  <2>6. Switching(x, p)
    BY <2>3 DEF Switching, IdleLifecycle
  <2>7. QED
    BY <1>4, <1>5, <1>6, <1>7, <2>2, <2>3, <2>4, <2>5, <2>6, LifecycleMoves DEF Switching
<1>8. CASE GoLifecycle(k, "idle") /\ failed' = failed \cup {p}
  <2>1. PICK x : x = IdleLifecycle
    OBVIOUS
  <2>2. x \in LifecycleRow /\ lifecycle' = [lifecycle EXCEPT ![k] = x]
    BY <1>8, <2>1 DEF GoLifecycle, LifecycleRow
  <2>3. PluginTypes'
    BY <1>4, <2>2 DEF PluginsInv, PluginTypes
  <2>4. QED
    BY <1>4, <1>5, <1>6, <1>8, <2>1, <2>2, <2>3, LifecycleMoves
<1>9. QED
  BY <1>1, <1>3, <1>7, <1>8 DEF LifecycleHook

LEMMA StoreStateStep ==
    ASSUME PluginsInv, NEW k \in LifecycleCalls, StoreState(k)
    PROVE  PluginsInv'
<1>1. PICK call \in LifecycleRow : call = lifecycle[k]
  BY DEF PluginsInv, PluginTypes
<1>2. call.at = "store" /\ call # IdleLifecycle /\ call.as \in {"enabled", "disabled"}
  BY <1>1, LifecycleFields DEF StoreState
<1>3. PICK p \in PluginIds : p = call.id
  BY <1>2, LifecycleFields
<1>4. UNCHANGED <<state, offer, job, cron, jobUpdate, starting, contested, crossed>>
  BY DEF StoreState
<1>5. /\ Switching(lifecycle[k], p) /\ Alone(k, p)
      /\ p \notin contested =>
             KnowsPlugin(call) /\ (state[p] = "disabled" => offer[p] # "active")
  BY <1>1, <1>2, <1>3, <1>4, LifecycleAlone DEF Switching
<1>6. \/ /\ pluginState' = [pluginState EXCEPT ![p] = call.as]
         /\ served' = Synced /\ UNCHANGED failed
      \/ failed' = failed \union {p} /\ UNCHANGED <<pluginState, served>>
  BY <1>1, <1>3 DEF StoreState
<1>7. /\ pluginState' \in [PluginIds -> {"none", "enabled", "disabled"}]
      /\ \A q \in PluginIds \ {p} : pluginState'[q] = pluginState[q]
      /\ served' \subseteq PluginIds
      /\ \A q \in PluginIds : q \in served' => q \in served \/ offer[q] = "active"
      /\ failed \subseteq failed'
      /\ p \notin failed' => pluginState'[p] = call.as /\ (p \in served' => offer[p] = "active")
  BY <1>2, <1>6 DEF Synced, PluginsInv, PluginTypes
<1>8. PICK x : x = IdleLifecycle
  OBVIOUS
<1>9. x \in LifecycleRow /\ lifecycle' = [lifecycle EXCEPT ![k] = x]
  BY <1>8 DEF StoreState, GoLifecycle, LifecycleRow
<1>10. PluginTypes'
  BY <1>4, <1>7, <1>9 DEF PluginsInv, PluginTypes
<1>11. starting' # "up" => state'[p] # "disabled" /\ starting # "up"
  BY <1>4 DEF PluginsInv
<1>12. p \notin contested' /\ state'[p] = "disabled" =>
           /\ offer'[p] # "active"
           /\ p \notin failed' => pluginState'[p] = "disabled" /\ p \notin served'
  BY <1>2, <1>3, <1>4, <1>5, <1>7 DEF KnowsPlugin
<1>13. QED
  BY <1>4, <1>5, <1>7, <1>8, <1>9, <1>10, <1>11, <1>12, LifecycleMoves

\* A configuration that is read, or saved as it was read.
LEMMA ConfigStep ==
    ASSUME PluginsInv, NEW k \in LifecycleCalls,
           (\E p \in PluginIds : UpdateConfig(k, p)) \/ SaveConfig(k)
    PROVE  PluginsInv'
<1>1. UNCHANGED <<state, offer, served, job, cron, jobUpdate, starting, contested, failed>>
  BY DEF UpdateConfig, SaveConfig, memory, ghosts
<1>2. CASE SaveConfig(k)
  <2>1. PICK call \in LifecycleRow : call = lifecycle[k]
    BY DEF PluginsInv, PluginTypes
  <2>2. call.at = "config" /\ call # IdleLifecycle /\ call.as \in {"enabled", "disabled"}
    BY <1>2, <2>1, LifecycleFields DEF SaveConfig, IdleLifecycle
  <2>3. PICK q \in PluginIds : q = call.id
    BY <2>2, LifecycleFields
  <2>4. /\ pluginState' \in [PluginIds -> {"none", "enabled", "disabled"}]
        /\ pluginState'[q] \in {pluginState[q], call.as}
        /\ \A p \in PluginIds \ {q} : pluginState'[p] = pluginState[p]
        /\ UNCHANGED crossed
    BY <1>2, <2>1, <2>2, <2>3 DEF SaveConfig, ghosts, PluginsInv, PluginTypes
  <2>5. PICK x \in LifecycleRow :
            x = IdleLifecycle /\ lifecycle' = [lifecycle EXCEPT ![k] = x]
    BY <1>2 DEF SaveConfig, GoLifecycle, LifecycleRow
  <2>6. PluginTypes'
    BY <1>1, <2>4, <2>5 DEF PluginsInv, PluginTypes
  <2>7. ASSUME NEW p \in PluginIds, NEW b \in LifecycleCalls
        PROVE  /\ Switching(lifecycle'[b], p) <=> Switching(lifecycle[b], p)
               /\ Configuring(lifecycle'[b], p) => Configuring(lifecycle[b], p)
               /\ Switching(lifecycle'[b], p) \/ Configuring(lifecycle'[b], p) =>
                      lifecycle'[b] = lifecycle[b]
    BY <2>1, <2>2, <2>5 DEF PluginsInv, PluginTypes, Switching, Configuring, IdleLifecycle
  <2>8. ASSUME NEW p \in PluginIds \ contested PROVE Uncontested(p)'
    <3>1. Uncontested(p)
      BY <2>8 DEF PluginsInv
    <3>2. p \notin crossed =>
              /\ pluginState'[p] = "enabled" <=> pluginState[p] = "enabled"
              /\ pluginState[p] = "disabled" => pluginState'[p] = "disabled"
      BY <2>1, <2>2, <2>3, <2>4, <3>1 DEF Uncontested, Configuring
    <3>3. \A b \in LifecycleCalls : Switching(lifecycle'[b], p) => KnowsPlugin(lifecycle[b])'
      BY <1>1, <2>7, <3>1 DEF Uncontested, KnowsPlugin
    <3>4. QED
      BY <1>1, <2>4, <2>7, <3>1, <3>2, <3>3 DEF Uncontested
  <2>9. QED
    BY <1>1, <2>6, <2>8 DEF PluginsInv
<1>3. ASSUME NEW q \in PluginIds, UpdateConfig(k, q) PROVE PluginsInv'
  <2>1. PICK x : x = [at |-> "config", id |-> q,
                      as |-> IF pluginState[q] = "enabled" THEN "enabled" ELSE "disabled"]
    OBVIOUS
  <2>2. /\ x \in LifecycleRow /\ x.at = "config" /\ x.id = q
        /\ x.as = "enabled" <=> pluginState[q] = "enabled"
    BY <2>1 DEF LifecycleRow
  <2>3. /\ lifecycle[k] = IdleLifecycle /\ lifecycle' = [lifecycle EXCEPT ![k] = x]
        /\ UNCHANGED pluginState
        /\ crossed \subseteq crossed'
        /\ q \in crossed' \/ \A b \in LifecycleCalls : ~Switching(lifecycle[b], q)
    BY <1>3, <2>1, CallsAre DEF UpdateConfig, records
  <2>4. PluginTypes'
    BY <1>1, <2>2, <2>3 DEF PluginsInv, PluginTypes
  <2>5. /\ lifecycle'[k] = x /\ ~Switching(x, q)
        /\ \A b \in LifecycleCalls \ {k} : lifecycle'[b] = lifecycle[b]
    BY <2>2, <2>3 DEF PluginsInv, PluginTypes, Switching
  <2>6. ASSUME NEW p \in PluginIds \ contested PROVE Uncontested(p)'
    <3>1. Uncontested(p)
      BY <2>6 DEF PluginsInv
    <3>2. \A b \in LifecycleCalls :
              /\ Switching(lifecycle'[b], p) <=> Switching(lifecycle[b], p)
              /\ Switching(lifecycle[b], p) => lifecycle'[b] = lifecycle[b]
      BY <2>2, <2>3, <2>5 DEF Switching
    <3>3. \A b \in LifecycleCalls : Switching(lifecycle'[b], p) => KnowsPlugin(lifecycle[b])'
      BY <1>1, <3>1, <3>2 DEF Uncontested, KnowsPlugin
    <3>4. p \notin crossed' => \A b \in LifecycleCalls : Configuring(lifecycle'[b], p) =>
              /\ \A j \in LifecycleCalls : ~Switching(lifecycle'[j], p)
              /\ lifecycle'[b].as = "enabled" <=> pluginState'[p] = "enabled"
      BY <2>2, <2>3, <2>5, <3>1, <3>2 DEF Uncontested, Configuring
    <3>5. QED
      BY <1>1, <2>3, <3>1, <3>2, <3>3, <3>4 DEF Uncontested
  <2>7. QED
    BY <1>1, <2>4, <2>6 DEF PluginsInv
<1>4. QED
  BY <1>2, <1>3

LEMMA RestoreStep ==
    ASSUME PluginsInv, NEW k \in LifecycleCalls, NEW p \in PluginIds, Restore(k, p)
    PROVE  PluginsInv'
<1>1. /\ NobodyBusy /\ EnableFrom(k, p)
      /\ UNCHANGED <<offer, served, job, cron, pluginState, jobUpdate, starting,
                     contested, failed, crossed>>
      /\ starting = "restore"
  BY DEF Restore, records, ghosts
<1>2. PICK x \in LifecycleRow :
               /\ Switching(x, p)
               /\ lifecycle' = [lifecycle EXCEPT ![k] = x]
               /\ state' \in [PluginIds -> PluginLifecycleStates]
               /\ state'[p] # "disabled"
               /\ \A q \in PluginIds \ {p} : state'[q] = state[q]
               /\ KnowsPlugin(x)'
  BY <1>1, EnableFromMoves
<1>3. PluginTypes'
  BY <1>1, <1>2 DEF PluginsInv, PluginTypes
<1>4. \A b \in LifecycleCalls : lifecycle[b] = IdleLifecycle
  BY <1>1 DEF NobodyBusy
<1>5. starting # "up" /\ Alone(k, p)
  BY <1>1, <1>4 DEF Alone, Switching, Configuring, IdleLifecycle
<1>6. QED
  BY <1>1, <1>2, <1>3, <1>4, <1>5, LifecycleMoves

LEMMA BootRemainingStep ==
    ASSUME PluginsInv, NEW k \in LifecycleCalls, NEW p \in PluginIds, BootRemaining(k, p)
    PROVE  PluginsInv'
<1>1. /\ NobodyBusy
      /\ UNCHANGED <<state, offer, served, job, cron, pluginState, jobUpdate, starting,
                     contested, failed, crossed>>
      /\ starting # "up"
  BY DEF BootRemaining, records, ghosts, memory
<1>2. PICK x : x = [at |-> "bootAll", id |-> p]
  OBVIOUS
<1>3. x \in LifecycleRow /\ Switching(x, p) /\ x.id = p /\ x.at = "bootAll"
  BY <1>2 DEF LifecycleRow, IdleLifecycle, Switching
<1>4. lifecycle' = [lifecycle EXCEPT ![k] = x]
  BY <1>2 DEF BootRemaining
<1>5. PluginTypes' /\ state'[p] # "disabled"
  BY <1>1, <1>3, <1>4 DEF PluginsInv, PluginTypes
<1>6. KnowsPlugin(x)'
  BY <1>3, <1>5 DEF KnowsPlugin
<1>7. \A b \in LifecycleCalls : lifecycle[b] = IdleLifecycle
  BY <1>1 DEF NobodyBusy
<1>8. Alone(k, p)
  BY <1>7 DEF Alone, Switching, Configuring, IdleLifecycle
<1>9. QED
  BY <1>1, <1>3, <1>4, <1>5, <1>6, <1>7, <1>8, LifecycleMoves

LEMMA BootstrapEndsStep ==
    ASSUME PluginsInv, Restored \/ Up
    PROVE  PluginsInv'
<1>1. /\ UNCHANGED <<state, offer, job, cron, pluginState, lifecycle, jobUpdate,
                     contested, failed, crossed>>
      /\ starting # "up"
      /\ served' = served \/ served' = Synced
  BY DEF Restored, Up, memory, records, ghosts
<1>2. \A p \in PluginIds : state'[p] # "disabled"
  BY <1>1 DEF PluginsInv
<1>3. PluginTypes'
  BY <1>1 DEF PluginsInv, PluginTypes, Synced
<1>4. ASSUME NEW p \in PluginIds \ contested PROVE Uncontested(p)'
  <2>1. Uncontested(p)
    BY <1>4 DEF PluginsInv
  <2>2. \A b : KnowsPlugin(lifecycle[b])' <=> KnowsPlugin(lifecycle[b])
    BY <1>1 DEF KnowsPlugin
  <2>3. QED
    BY <1>1, <1>2, <1>4, <2>1, <2>2 DEF Uncontested
<1>5. QED
  BY <1>1, <1>2, <1>3, <1>4 DEF PluginsInv

LEMMA RestartStep ==
    ASSUME PluginsInv, Restart
    PROVE  PluginsInv'
<1>1. Forgotten /\ UNCHANGED pluginState
  BY DEF Restart, records
<1>2. PluginTypes'
  BY <1>1 DEF Forgotten, PluginsInv, PluginTypes, PluginLifecycleStates, LifecycleRow,
              JobUpdateRow
<1>3. \A p \in PluginIds : state'[p] # "disabled"
  BY <1>1 DEF Forgotten
<1>4. \A p \in PluginIds, k \in LifecycleCalls :
          ~Switching(lifecycle'[k], p) /\ ~Configuring(lifecycle'[k], p)
  BY <1>1 DEF Forgotten, Switching, Configuring, IdleLifecycle
<1>5. QED
  BY <1>2, <1>3, <1>4 DEF PluginsInv, Uncontested

LEMMA JobUpdateStep ==
    ASSUME PluginsInv, NEW j \in JobUpdates,
           DefineJob(j) \/ RegisterJob(j) \/ UpdateJobRow(j) \/ UpdateQueue(j)
    PROVE  PluginsInv'
<1>1. PICK update \in JobUpdateRow : update = jobUpdate[j]
  BY DEF PluginsInv, PluginTypes
<1>2. update # IdleUpdate
  BY <1>1 DEF IdleUpdate, DefineJob, RegisterJob, UpdateJobRow, UpdateQueue
<1>3. UNCHANGED <<state, offer, served, pluginState, lifecycle, starting, contested, failed,
                   crossed>>
  BY DEF DefineJob, RegisterJob, UpdateJobRow, UpdateQueue, memory, records, ghosts
<1>4. PICK x \in JobUpdateRow : jobUpdate' = [jobUpdate EXCEPT ![j] = x]
  <2>1. IdleUpdate \in JobUpdateRow /\ \A at \in {"register", "queue"} :
            [update EXCEPT !.at = at] \in JobUpdateRow
    BY <1>2, JobUpdateFields DEF JobUpdateRow
  <2>2. QED
    BY <1>1, <2>1 DEF DefineJob, RegisterJob, UpdateJobRow, UpdateQueue, GoUpdate
<1>5. /\ job' \in [PluginIds -> {"none", "active", "inactive"}]
      /\ cron' \subseteq PluginIds
  BY <1>1, <1>2, JobUpdateFields
     DEF DefineJob, RegisterJob, UpdateJobRow, UpdateQueue, memory, PluginsInv, PluginTypes
<1>6. PluginTypes'
  BY <1>3, <1>4, <1>5 DEF PluginsInv, PluginTypes
<1>7. QED
  BY <1>3, <1>6, PluginsQuiet

LEMMA PluginsNextInv ==
    ASSUME PluginsInv, [PluginsNext]_pluginVars
    PROVE  PluginsInv'
<1>1. CASE (\E p \in PluginIds : TriggerJob(p) \/ FinishRun(p)) \/ UNCHANGED pluginVars
  <2>1. UNCHANGED <<memory, pluginState, lifecycle, jobUpdate, starting, ghosts>>
    BY <1>1 DEF TriggerJob, FinishRun, pluginVars, records
  <2>2. PluginTypes'
    BY <2>1 DEF PluginsInv, PluginTypes, memory
  <2>3. QED
    BY <2>1, <2>2, PluginsQuiet DEF memory, ghosts
<1>2. ASSUME NEW k \in LifecycleCalls, NEW p \in PluginIds,
             PluginRequest(k, p) \/ Bootstrap(k, p)
      PROVE  PluginsInv'
  BY <1>2, EnablePluginStep, DisablePluginStep, ConfigStep, RestoreStep, BootRemainingStep
     DEF PluginRequest, Bootstrap
<1>3. QED
  BY <1>1, <1>2, InstallHookStep, BootHookStep, ActivatePluginStep, LifecycleHookStep,
     StoreStateStep, ConfigStep, BootstrapEndsStep, RestartStep, JobUpdateStep DEF PluginsNext

LEMMA PluginsInitInv ==
    ASSUME PluginsInit
    PROVE  PluginsInv
<1>1. \A k \in LifecycleCalls, p \in PluginIds :
          ~Switching(lifecycle[k], p) /\ ~Configuring(lifecycle[k], p)
  BY DEF PluginsInit, Switching, Configuring, IdleLifecycle
<1>2. \A p \in PluginIds : state[p] = "discovered"
  BY DEF PluginsInit
<1>3. PluginTypes
  BY DEF PluginsInit, PluginTypes, PluginLifecycleStates, LifecycleRow, JobUpdateRow
<1>4. QED
  BY <1>1, <1>2, <1>3 DEF PluginsInv, Uncontested

\* The job of a disabled plugin stays inactive, unless its registration as active was
\* under way when the plugin was disabled.
JobsSilent ==
    \A p \in PluginIds \ (contested \union late) :
        state[p] = "disabled" => job[p] # "active" /\ ~Registering(p)

LEMMA JobsStaySilent ==
    ASSUME JobsSilent, contested \subseteq contested', late \subseteq late',
           \A p \in PluginIds \ (contested' \union late') :
               state'[p] = "disabled" =>
                   /\ state[p] = "disabled"
                   /\ job'[p] = "active" => job[p] = "active" \/ Registering(p)
                   /\ Registering(p)' => Registering(p)
    PROVE  JobsSilent'
  BY DEF JobsSilent

\* What starting an update for p registers.
LEMMA StartsRegistering ==
    ASSUME PluginTypes, NEW p \in PluginIds, NEW update \in JobUpdateRow, update.id = p,
           StartUpdate(update), NEW q \in PluginIds,
           update.at = "row" \/ q # p
    PROVE  Registering(q)' => Registering(q)
<1>1. PICK j \in JobUpdates : jobUpdate' = [jobUpdate EXCEPT ![j] = update]
  BY DEF StartUpdate
<1>2. jobUpdate'[j] = update /\ \A i \in JobUpdates \ {j} : jobUpdate'[i] = jobUpdate[i]
  BY <1>1 DEF PluginTypes
<1>3. QED
  BY <1>2 DEF Registering, UpdatesOn

LEMMA SetActiveRegisters ==
    ASSUME PluginTypes, NEW p \in PluginIds, NEW to \in {"active", "inactive"}, SetActive(p, to)
    PROVE  /\ job'[p] \in {"none", to}
           /\ \A q \in PluginIds \ {p} : job'[q] = job[q]
           /\ \A q \in PluginIds : Registering(q)' => Registering(q)
<1>1. job'[p] \in {"none", to} /\ \A q \in PluginIds \ {p} : job'[q] = job[q]
  BY DEF SetActive, PluginTypes
<1>2. ASSUME NEW q \in PluginIds PROVE Registering(q)' => Registering(q)
  <2>1. CASE jobUpdate' = jobUpdate
    BY <2>1 DEF Registering, UpdatesOn
  <2>2. CASE StartUpdate([at |-> "row", id |-> p, active |-> to])
    <3>1. PICK update : update = [at |-> "row", id |-> p, active |-> to]
      OBVIOUS
    <3>2. update \in JobUpdateRow /\ update.id = p /\ update.at = "row"
      BY <3>1 DEF JobUpdateRow
    <3>3. QED
      BY <2>2, <3>1, <3>2, StartsRegistering
  <2>3. QED
    BY <2>1, <2>2 DEF SetActive
<1>3. QED
  BY <1>1, <1>2

LEMMA SilentCallStep ==
    ASSUME PluginsInv, JobsSilent, NEW k \in LifecycleCalls, NEW p \in PluginIds,
           \/ PluginRequest(k, p) \/ Bootstrap(k, p)
           \/ InstallHook(k) \/ BootHook(k) \/ ActivatePlugin(k)
           \/ LifecycleHook(k) \/ StoreState(k) \/ SaveConfig(k)
    PROVE  JobsSilent'
<1>1. PICK call \in LifecycleRow : call = lifecycle[k]
  BY DEF PluginsInv, PluginTypes
<1>2. CASE DisablePlugin(k, p) /\ state[p] = "enabled"
  <2>1. SetActive(p, "inactive") /\ Overlapping(p)
    BY <1>2 DEF DisablePlugin
  <2>2. /\ contested \subseteq contested'
        /\ late' = IF Registering(p) THEN late \union {p} ELSE late
        /\ \A q \in PluginIds \ {p} : state'[q] = state[q]
    BY <1>2, <2>1, SwitchBegins DEF DisablePlugin, PluginsInv, PluginTypes
  <2>3. /\ job'[p] # "active" /\ \A q \in PluginIds \ {p} : job'[q] = job[q]
        /\ \A q \in PluginIds : Registering(q)' => Registering(q)
    BY <2>1, SetActiveRegisters DEF PluginsInv
  <2>4. QED
    BY <2>2, <2>3 DEF JobsSilent
<1>3. CASE ActivatePlugin(k)
  <2>1. PICK q \in PluginIds : q = call.id /\ Switching(call, q) /\ call.at = "activate"
    BY <1>1, <1>3, LifecycleFields DEF ActivatePlugin, Switching
  <2>2. q \notin contested => state[q] # "disabled"
    BY <1>1, <2>1, LifecycleAlone DEF KnowsPlugin
  <2>3. SetActive(q, "active") /\ UNCHANGED <<state, contested, late>>
    BY <1>1, <1>3, <2>1 DEF ActivatePlugin, ghosts
  <2>4. /\ \A r \in PluginIds \ {q} : job'[r] = job[r]
        /\ \A r \in PluginIds : Registering(r)' => Registering(r)
    BY <2>3, SetActiveRegisters DEF PluginsInv
  <2>5. QED
    BY <2>2, <2>3, <2>4, JobsStaySilent
<1>4. CASE BootHook(k)
  <2>1. PICK q \in PluginIds :
            q = call.id /\ Switching(call, q) /\ call.at \in {"boot", "bootAll"}
    BY <1>1, <1>4, LifecycleFields DEF BootHook, Switching
  <2>2. q \notin contested => state[q] # "disabled"
    BY <1>1, <2>1, LifecycleAlone DEF KnowsPlugin
  <2>3. UNCHANGED <<state, job, contested, late>>
    BY <1>4 DEF BootHook
  <2>4. PICK as \in {"active", "inactive"} :
            \/ jobUpdate' = jobUpdate
            \/ StartUpdate([at |-> "define", id |-> q, active |-> as])
    BY <1>1, <1>4, <2>1 DEF BootHook
  <2>5. PICK update : update = [at |-> "define", id |-> q, active |-> as]
    OBVIOUS
  <2>6. update \in JobUpdateRow /\ update.id = q
    BY <2>5 DEF JobUpdateRow
  <2>7. \A r \in PluginIds \ {q} : Registering(r)' => Registering(r)
    BY <2>4, <2>5, <2>6, StartsRegistering DEF PluginsInv, Registering, UpdatesOn
  <2>8. QED
    BY <2>2, <2>3, <2>7, JobsStaySilent
<1>5. CASE EnablePlugin(k, p) \/ Restore(k, p) \/ (InstallHook(k) /\ EnableFrom(k, call.id))
  <2>1. PICK q \in PluginIds : EnableFrom(k, q)
    <3>1. call.at = "install" => call.id \in PluginIds
      BY LifecycleFields DEF IdleLifecycle
    <3>2. QED
      BY <1>1, <1>5, <3>1 DEF EnablePlugin, Restore, InstallHook
  <2>2. state'[q] # "disabled" /\ \A r \in PluginIds \ {q} : state'[r] = state[r]
    BY <2>1, EnableFromMoves
  <2>3. UNCHANGED <<job, jobUpdate, late>> /\ contested \subseteq contested'
    BY <1>5 DEF EnablePlugin, Restore, InstallHook, Overlapping, ghosts
  <2>4. \A r \in PluginIds : Registering(r)' => Registering(r)
    BY <2>3 DEF Registering, UpdatesOn
  <2>5. QED
    BY <2>2, <2>3, <2>4, JobsStaySilent
<1>6. CASE UNCHANGED <<state, job, jobUpdate, late>> /\ contested \subseteq contested'
  <2>1. \A r \in PluginIds : Registering(r)' => Registering(r)
    BY <1>6 DEF Registering, UpdatesOn
  <2>2. QED
    BY <1>6, <2>1, JobsStaySilent
<1>7. CASE DisablePlugin(k, p) /\ state[p] # "enabled"
  BY <1>6, <1>7 DEF DisablePlugin, Overlapping
<1>8. CASE BootRemaining(k, p) \/ UpdateConfig(k, p)
  BY <1>6, <1>8 DEF BootRemaining, UpdateConfig, memory, ghosts
<1>9. CASE LifecycleHook(k) \/ StoreState(k) \/ SaveConfig(k) \/ (InstallHook(k) /\ UNCHANGED state)
  BY <1>6, <1>9 DEF LifecycleHook, StoreState, SaveConfig, InstallHook, memory, ghosts
<1>10. QED
  BY <1>1, <1>2, <1>3, <1>4, <1>5, <1>7, <1>8, <1>9 DEF PluginRequest, Bootstrap, InstallHook

LEMMA SilentUpdateStep ==
    ASSUME PluginsInv, JobsSilent, NEW j \in JobUpdates,
           DefineJob(j) \/ RegisterJob(j) \/ UpdateJobRow(j) \/ UpdateQueue(j)
    PROVE  JobsSilent'
<1>1. UNCHANGED <<state, contested, late>>
  BY DEF DefineJob, RegisterJob, UpdateJobRow, UpdateQueue, memory, ghosts
<1>2. PICK update \in JobUpdateRow : update = jobUpdate[j]
  BY DEF PluginsInv, PluginTypes
<1>3. update # IdleUpdate
  BY <1>2 DEF IdleUpdate, DefineJob, RegisterJob, UpdateJobRow, UpdateQueue
<1>4. PICK p \in PluginIds : p = update.id /\ j \in UpdatesOn(p)
  BY <1>2, <1>3, JobUpdateFields DEF UpdatesOn
<1>5. \A q \in PluginIds : job'[q] = "active" => job[q] = "active" \/ Registering(q)
  <2>1. CASE RegisterJob(j)
    BY <1>2, <1>4, <2>1 DEF RegisterJob, Registering, PluginsInv, PluginTypes
  <2>2. CASE UNCHANGED job
    BY <2>2
  <2>3. QED
    BY <2>1, <2>2 DEF DefineJob, UpdateJobRow, UpdateQueue, memory
<1>6. PICK x :
          /\ jobUpdate' = [jobUpdate EXCEPT ![j] = x]
          /\ \/ x = IdleUpdate
             \/ x = [update EXCEPT !.at = "register"] /\ update.at = "define"
             \/ x = [update EXCEPT !.at = "queue"]
  BY <1>2 DEF DefineJob, RegisterJob, UpdateJobRow, UpdateQueue, GoUpdate
<1>7. /\ jobUpdate'[j] = x
      /\ \A i \in JobUpdates \ {j} : jobUpdate'[i] = jobUpdate[i]
  BY <1>6 DEF PluginsInv, PluginTypes
<1>8. x.at = "register" => /\ x.id = p /\ x.active = update.active
                           /\ update.at = "define"
  BY <1>3, <1>4, <1>6 DEF JobUpdateRow, IdleUpdate
<1>9. x.at # "define"
  BY <1>3, <1>6 DEF JobUpdateRow, IdleUpdate
<1>10. ASSUME NEW q \in PluginIds, Registering(q)' PROVE Registering(q)
  <2>1. PICK i \in JobUpdates :
            /\ jobUpdate'[i] # IdleUpdate /\ jobUpdate'[i].id = q
            /\ jobUpdate'[i].at \in {"define", "register"} /\ jobUpdate'[i].active = "active"
    BY <1>10 DEF Registering, UpdatesOn
  <2>2. CASE i = j
    BY <1>2, <1>4, <1>7, <1>8, <1>9, <2>1, <2>2 DEF Registering
  <2>3. CASE i # j
    BY <1>7, <2>1, <2>3 DEF Registering, UpdatesOn
  <2>4. QED
    BY <2>2, <2>3
<1>11. QED
  BY <1>1, <1>5, <1>10, JobsStaySilent

LEMMA SilentNextInv ==
    ASSUME PluginsInv, JobsSilent, [PluginsNext]_pluginVars
    PROVE  JobsSilent'
<1>1. CASE \/ \E p \in PluginIds : TriggerJob(p) \/ FinishRun(p)
           \/ Restored \/ Up \/ UNCHANGED pluginVars
  <2>1. UNCHANGED <<state, job, jobUpdate, contested, late>>
    BY <1>1 DEF TriggerJob, FinishRun, Restored, Up, pluginVars, memory, ghosts
  <2>2. \A p \in PluginIds : Registering(p)' => Registering(p)
    BY <2>1 DEF Registering, UpdatesOn
  <2>3. QED
    BY <2>1, <2>2, JobsStaySilent
<1>2. CASE Restart
  BY <1>2 DEF Restart, Forgotten, JobsSilent
<1>3. ASSUME NEW k \in LifecycleCalls,
             \/ \E p \in PluginIds : PluginRequest(k, p) \/ Bootstrap(k, p)
             \/ InstallHook(k) \/ BootHook(k) \/ ActivatePlugin(k)
             \/ LifecycleHook(k) \/ StoreState(k) \/ SaveConfig(k)
      PROVE  JobsSilent'
  <2>1. CASE PluginIds = {}
    BY <2>1 DEF JobsSilent
  <2>2. QED
    BY <1>3, <2>1, SilentCallStep
<1>4. QED
  BY <1>1, <1>2, <1>3, SilentUpdateStep DEF PluginsNext

\* Once the switches of a plugin are over, what it registered is inactive if it is
\* disabled, its job too, no field of it is served and it is stored as disabled, for any
\* number of plugins and calls and with the exceptions the property names
\* (PluginManagementService.disable, PluginLoaderService.disable).
THEOREM DisabledPluginsStaySilent == PluginsSpec => []DisabledPluginsAreSilent
<1>1. PluginsInit => PluginsInv /\ JobsSilent
  BY PluginsInitInv DEF PluginsInit, JobsSilent
<1>2. PluginsInv /\ JobsSilent => DisabledPluginsAreSilent
  BY CallsAre DEF PluginsInv, Uncontested, JobsSilent, DisabledPluginsAreSilent
<1>3. QED
  BY <1>1, <1>2, PluginsNextInv, SilentNextInv, PTL DEF PluginsSpec

\* An update that starts is one more on its plugin, and ends none.
LEMMA StartedUpdatesLast ==
    ASSUME PluginTypes, NEW update \in JobUpdateRow, update # IdleUpdate, StartUpdate(update),
           NEW p \in PluginIds, UpdatesOn(p)' = {}
    PROVE  UpdatesOn(p) = {} /\ update.id # p
<1>1. PICK j \in JobUpdates : /\ jobUpdate[j] = IdleUpdate
                              /\ jobUpdate' = [jobUpdate EXCEPT ![j] = update]
  BY DEF StartUpdate
<1>2. jobUpdate'[j] = update /\ \A i \in JobUpdates \ {j} : jobUpdate'[i] = jobUpdate[i]
  BY <1>1 DEF PluginTypes
<1>3. QED
  BY <1>1, <1>2 DEF UpdatesOn

\* The queue follows the registry when no update is under way: a step of the calls of
\* plugins changes the registry only with an update that is started.
LEMMA CronSettles ==
    ASSUME CronFollowsRegistry, UNCHANGED cron,
           \A p \in PluginIds : UpdatesOn(p)' = {} => UpdatesOn(p) = {} /\ job'[p] = job[p]
    PROVE  CronFollowsRegistry'
  BY DEF CronFollowsRegistry

LEMMA SetActiveStarts ==
    ASSUME PluginTypes, NEW p \in PluginIds, NEW to \in {"active", "inactive"}, SetActive(p, to),
           NEW q \in PluginIds, UpdatesOn(q)' = {}
    PROVE  UpdatesOn(q) = {} /\ job'[q] = job[q]
<1>1. CASE job[p] = "none"
  BY <1>1 DEF SetActive, PluginTypes, UpdatesOn
<1>2. CASE job[p] # "none"
  <2>1. PICK update : update = [at |-> "row", id |-> p, active |-> to]
    OBVIOUS
  <2>2. update \in JobUpdateRow /\ update # IdleUpdate /\ update.id = p
    BY <2>1 DEF JobUpdateRow, IdleUpdate
  <2>3. StartUpdate(update)
    BY <1>2, <2>1 DEF SetActive
  <2>4. UpdatesOn(q) = {} /\ p # q
    BY <2>2, <2>3, StartedUpdatesLast
  <2>5. job'[q] = job[q]
    BY <2>4 DEF SetActive, PluginTypes
  <2>6. QED
    BY <2>4, <2>5
<1>3. QED
  BY <1>1, <1>2

LEMMA CronCallStep ==
    ASSUME PluginTypes, CronFollowsRegistry, NEW k \in LifecycleCalls, NEW p \in PluginIds,
           \/ PluginRequest(k, p) \/ Bootstrap(k, p)
           \/ InstallHook(k) \/ BootHook(k) \/ ActivatePlugin(k)
           \/ LifecycleHook(k) \/ StoreState(k) \/ SaveConfig(k)
    PROVE  CronFollowsRegistry'
<1>1. CASE DisablePlugin(k, p) /\ state[p] = "enabled"
  BY <1>1, SetActiveStarts, CronSettles DEF DisablePlugin
<1>2. CASE ActivatePlugin(k)
  <2>1. lifecycle[k] \in LifecycleRow
    BY DEF PluginTypes
  <2>2. lifecycle[k].id \in PluginIds
    BY <1>2, <2>1, LifecycleFields DEF ActivatePlugin
  <2>3. QED
    BY <1>2, <2>2, SetActiveStarts, CronSettles DEF ActivatePlugin
<1>3. CASE BootHook(k)
  <2>1. lifecycle[k] \in LifecycleRow
    BY DEF PluginTypes
  <2>2. lifecycle[k].id \in PluginIds
    BY <1>3, <2>1, LifecycleFields DEF BootHook
  <2>3. UNCHANGED <<job, cron>>
    BY <1>3 DEF BootHook
  <2>4. PICK as \in {"active", "inactive"} :
            \/ jobUpdate' = jobUpdate
            \/ StartUpdate([at |-> "define", id |-> lifecycle[k].id, active |-> as])
    BY <1>3 DEF BootHook
  <2>5. PICK update : update = [at |-> "define", id |-> lifecycle[k].id, active |-> as]
    OBVIOUS
  <2>6. update \in JobUpdateRow /\ update # IdleUpdate
    BY <2>2, <2>5 DEF JobUpdateRow, IdleUpdate
  <2>7. \A q \in PluginIds : UpdatesOn(q)' = {} => UpdatesOn(q) = {}
    BY <2>4, <2>5, <2>6, StartedUpdatesLast DEF UpdatesOn
  <2>8. QED
    BY <2>3, <2>7, CronSettles
<1>4. CASE UNCHANGED <<job, cron, jobUpdate>>
  BY <1>4 DEF CronFollowsRegistry, UpdatesOn
<1>5. QED
  BY <1>1, <1>2, <1>3, <1>4
     DEF PluginRequest, EnablePlugin, DisablePlugin, UpdateConfig, Bootstrap, Restore,
         BootRemaining, InstallHook, LifecycleHook, StoreState, SaveConfig, memory

LEMMA CronUpdateStep ==
    ASSUME PluginTypes, CronFollowsRegistry, NEW j \in JobUpdates,
           DefineJob(j) \/ RegisterJob(j) \/ UpdateJobRow(j) \/ UpdateQueue(j)
    PROVE  CronFollowsRegistry'
<1>1. PICK update \in JobUpdateRow : update = jobUpdate[j]
  BY DEF PluginTypes
<1>2. update # IdleUpdate
  BY <1>1 DEF IdleUpdate, DefineJob, RegisterJob, UpdateJobRow, UpdateQueue
<1>3. update.id \in PluginIds
  BY <1>2, JobUpdateFields
<1>4. CASE DefineJob(j) \/ UpdateJobRow(j)
  <2>1. PICK x : /\ x # IdleUpdate /\ x.id = update.id
                 /\ jobUpdate' = [jobUpdate EXCEPT ![j] = x]
    <3>1. PICK at \in {"register", "queue"} :
              jobUpdate' = [jobUpdate EXCEPT ![j] = [update EXCEPT !.at = at]]
      BY <1>1, <1>4 DEF DefineJob, UpdateJobRow, GoUpdate
    <3>2. PICK x : x = [update EXCEPT !.at = at]
      OBVIOUS
    <3>3. x # IdleUpdate /\ x.id = update.id
      BY <1>2, <3>2, JobUpdateFields
    <3>4. QED
      BY <3>1, <3>2, <3>3
  <2>2. jobUpdate'[j] = x /\ \A i \in JobUpdates \ {j} : jobUpdate'[i] = jobUpdate[i]
    BY <2>1 DEF PluginTypes
  <2>3. \A p \in PluginIds : UpdatesOn(p)' = {} => UpdatesOn(p) = {}
    BY <1>1, <1>2, <2>1, <2>2 DEF UpdatesOn
  <2>4. UNCHANGED <<job, cron>>
    BY <1>4 DEF DefineJob, UpdateJobRow, memory
  <2>5. QED
    BY <2>3, <2>4, CronSettles
<1>5. CASE RegisterJob(j) \/ UpdateQueue(j)
  <2>1. jobUpdate' = [jobUpdate EXCEPT ![j] = IdleUpdate]
    BY <1>5 DEF RegisterJob, UpdateQueue, GoUpdate
  <2>2. \A i \in JobUpdates \ {j} : jobUpdate'[i] = jobUpdate[i]
    BY <2>1 DEF PluginTypes
  <2>3. \A p \in PluginIds \ {update.id} : UpdatesOn(p)' = {} => UpdatesOn(p) = {}
    BY <1>1, <2>2 DEF UpdatesOn
  <2>4. \A p \in PluginIds \ {update.id} : job'[p] = job[p] /\ (p \in cron' <=> p \in cron)
    BY <1>1, <1>5 DEF RegisterJob, UpdateQueue, PluginTypes
  <2>5. update.id \in cron' => job'[update.id] = "active"
    BY <1>1, <1>3, <1>5 DEF RegisterJob, UpdateQueue, PluginTypes
  <2>6. QED
    BY <2>3, <2>4, <2>5 DEF CronFollowsRegistry
<1>6. QED
  BY <1>4, <1>5

LEMMA CronNextInv ==
    ASSUME PluginTypes, CronFollowsRegistry, [PluginsNext]_pluginVars
    PROVE  CronFollowsRegistry'
<1>1. CASE \/ \E p \in PluginIds : TriggerJob(p) \/ FinishRun(p)
           \/ Restored \/ Up \/ UNCHANGED pluginVars
  <2>1. UNCHANGED <<job, cron, jobUpdate>>
    BY <1>1 DEF TriggerJob, FinishRun, Restored, Up, pluginVars, memory
  <2>2. QED
    BY <2>1 DEF CronFollowsRegistry, UpdatesOn
<1>2. CASE Restart
  BY <1>2 DEF Restart, Forgotten, CronFollowsRegistry
<1>3. ASSUME NEW k \in LifecycleCalls,
             \/ \E p \in PluginIds : PluginRequest(k, p) \/ Bootstrap(k, p)
             \/ InstallHook(k) \/ BootHook(k) \/ ActivatePlugin(k)
             \/ LifecycleHook(k) \/ StoreState(k) \/ SaveConfig(k)
      PROVE  CronFollowsRegistry'
  <2>1. CASE PluginIds = {}
    BY <2>1 DEF CronFollowsRegistry
  <2>2. QED
    BY <1>3, <2>1, CronCallStep
<1>4. QED
  BY <1>1, <1>2, <1>3, CronUpdateStep DEF PluginsNext

\* The queue fires a job only while the registry has it active once its updates are over,
\* whatever order they overtake each other in (JobsService.setPluginJobsActive).
THEOREM CronIsRight == PluginsSpec => []CronFollowsRegistry
<1>1. PluginsInit => PluginsInv /\ CronFollowsRegistry
  BY PluginsInitInv DEF PluginsInit, CronFollowsRegistry
<1>2. PluginsInv => PluginTypes
  BY DEF PluginsInv
<1>3. QED
  BY <1>1, <1>2, PluginsNextInv, CronNextInv, PTL DEF PluginsSpec
-----------------------------------------------------------------------------
(***************************************************************************)
(* Quotes                                                                  *)
(***************************************************************************)

QuoteStages ==
    {"idle", "refused", "coupon", "rules", "each", "tax", "gift", "points", "locked", "rate",
     "done"}

PricedQuote ==
    [at : QuoteStages, ship : Nat, sum : Int, free : BOOLEAN,
     loaded : [RuleIds -> {NoRow} \union RuleRows], left : SUBSET RuleIds,
     tax : Nat, inclusive : BOOLEAN, gift : Int, points : Int, total : Int,
     currency : {Base, Foreign}, rate : Rates \union {<<1, 1>>}]

\* What a quote is made of so far.
QuoteSoFar(q) ==
    /\ \A r \in q.left : q.loaded[r] \in RuleRows
    /\ q.at \notin {"points", "locked", "rate", "done", "refused"} => q.gift = 0
    /\ q.at \notin {"locked", "rate", "done", "refused"} => q.points = 0
    /\ q.at \notin {"idle", "refused", "coupon", "rules", "each", "tax"} =>
           q.total = TotalWithTax(q) - q.gift - q.points /\ q.total >= 0
    /\ q.at # "done" => q.rate = <<1, 1>>
    /\ q.at = "rate" => q.currency # Base
    /\ q.currency = Base => q.rate = <<1, 1>>

PricingInv ==
    /\ priced = [t \in Tables |-> priced[t]]
    /\ \A t \in Tables : priced[t] \in {NoRow} \union RowsOf(t)
    /\ DisplayRow.main \in {Base, Foreign}
    /\ shipping \in Nat
    /\ quote \in PricedQuote
    /\ QuoteSoFar(quote)

LEMMA LeastOfTwo ==
    ASSUME NEW a \in Int, NEW b \in Int
    PROVE  /\ Min({a, b}) \in Int
           /\ Min({a, b}) <= a /\ Min({a, b}) <= b
           /\ Min({a, b}) = a \/ Min({a, b}) = b
<1>1. \E x \in {a, b} : \A y \in {a, b} : x <= y
  OBVIOUS
<1>2. Min({a, b}) \in {a, b} /\ \A y \in {a, b} : Min({a, b}) <= y
  BY <1>1 DEF Min
<1>3. QED
  BY <1>2

\* Rounding.

LEMMA CancelPositive ==
    ASSUME NEW d \in Nat \ {0}, NEW u \in Int, NEW v \in Int, d * u <= d * v
    PROVE  u <= v
<1>1. ASSUME u > v PROVE FALSE
  <2>1. PICK w \in Nat : u = v + 1 + w
    <3>1. u - v - 1 \in Nat /\ u = v + 1 + (u - v - 1)
      BY <1>1
    <3>2. QED
      BY <3>1
  <2>2. d * u = d * v + d + d * w
    BY <2>1
  <2>3. d * w >= 0
    BY <2>1
  <2>4. d * v \in Int /\ d * w \in Int
    BY <2>1
  <2>5. QED
    BY <2>2, <2>3, <2>4
<1>2. QED
  BY <1>1

LEMMA Division ==
    ASSUME NEW m \in Int, NEW k \in Nat \ {0}
    PROVE  /\ m \div k \in Int
           /\ k * (m \div k) <= m
           /\ m < k * (m \div k) + k
           /\ m % k = 0 => m = k * (m \div k)
  OBVIOUS

\* s is a * n / d, half a unit off at most, and exactly when d divides it.
CloseTo(s, a, n, d) ==
    /\ s \in Int
    /\ 2 * (d * s) - 2 * (a * n) <= d
    /\ 2 * (a * n) - 2 * (d * s) <= d
    /\ (a * n) % d = 0 => d * s = a * n

LEMMA ShownIsClose ==
    ASSUME NEW a \in Int, NEW n \in Nat \ {0}, NEW d \in Nat \ {0},
           NEW rate, rate = <<n, d>>
    PROVE  CloseTo(Shown(a, rate), a, n, d)
<1> DEFINE m == 2 * a * n + d
           k == 2 * d
           s == m \div k
<1>1. PICK an \in Int : an = a * n
  OBVIOUS
<1>2. m \in Int /\ k \in Nat \ {0} /\ m = 2 * an + d
  BY <1>1
<1>3. s \in Int /\ k * s <= m /\ m < k * s + k
  BY <1>2, Division
<1>4. Shown(a, rate) = s
  BY DEF Shown
<1>5. PICK ds \in Int : ds = d * s
  BY <1>3
<1>6. k * s = 2 * ds
  BY <1>3, <1>5
<1>7. 2 * ds <= 2 * an + d /\ 2 * an + d < 2 * ds + 2 * d
  BY <1>2, <1>3, <1>6
<1>8. ASSUME an % d = 0 PROVE ds = an
  <2>1. PICK e \in Int : an = d * e
    BY <1>8, Division
  <2>2. d * (s - e) = ds - an /\ d * (e - s) = an - ds
    BY <1>3, <1>5, <2>1
  <2>3. 2 * (d * (s - e)) <= d /\ 2 * (d * (e - s)) < d
    BY <1>7, <2>2
  <2>4. d * (s - e) <= d * 0 \/ d * (s - e) >= d * 1
    <3>1. CASE s - e <= 0
      <4>1. PICK w \in Nat : s - e = -w
        BY <1>3, <3>1
      <4>2. d * w >= 0 /\ d * (s - e) = -(d * w)
        BY <4>1
      <4>3. QED
        BY <4>2
    <3>2. CASE s - e >= 1
      <4>1. PICK w \in Nat : s - e = 1 + w
        <5>1. s - e - 1 \in Nat /\ s - e = 1 + (s - e - 1)
          BY <1>3, <3>2
        <5>2. QED
          BY <5>1
      <4>2. d * w >= 0 /\ d * (s - e) = d + d * w
        BY <4>1
      <4>3. QED
        BY <4>2
    <3>3. QED
      BY <1>3, <3>1, <3>2
  <2>5. d * (s - e) <= 0
    BY <1>3, <2>3, <2>4
  <2>6. s - e <= 0
    BY <1>3, <2>5, CancelPositive
  <2>7. s - e > -1
    <3>1. ASSUME s - e <= -1 PROVE FALSE
      <4>1. PICK w \in Nat : e - s = 1 + w
        <5>1. e - s - 1 \in Nat /\ e - s = 1 + (e - s - 1)
          BY <1>3, <3>1
        <5>2. QED
          BY <5>1
      <4>2. d * w >= 0 /\ d * (e - s) = d + d * w
        BY <4>1
      <4>3. QED
        BY <2>3, <4>1, <4>2
    <3>2. QED
      BY <1>3, <3>1
  <2>8. s = e
    BY <1>3, <2>6, <2>7
  <2>9. QED
    BY <1>5, <2>1, <2>8
<1>9. 2 * (d * s) - 2 * (a * n) <= d /\ 2 * (a * n) - 2 * (d * s) <= d
  BY <1>1, <1>5, <1>7
<1>10. (a * n) % d = 0 => d * s = a * n
  BY <1>1, <1>5, <1>8
<1>11. CloseTo(s, a, n, d)
  BY <1>3, <1>9, <1>10 DEF CloseTo
<1> HIDE DEF s
<1>12. QED
  BY <1>4, <1>11

Fields == {"subtotal", "discount", "gift", "points", "tax", "shipping", "total"}
Among(U, f) == IF f \in U THEN 1 ELSE 0

LEMMA CountOneMore ==
    ASSUME NEW S, IsFiniteSet(S), NEW U, NEW f, f \notin S
    PROVE  /\ IsFiniteSet(S \union {f})
           /\ Cardinality((S \union {f}) \intersect U) = Cardinality(S \intersect U) + Among(U, f)
<1>1. IsFiniteSet(S \intersect U) /\ IsFiniteSet(S \union {f})
  BY FS_Subset, FS_AddElement
<1>2. Cardinality(S \intersect U) \in Nat
  BY <1>1, FS_CardinalityType
<1>3. CASE f \in U
  <2>1. (S \union {f}) \intersect U = (S \intersect U) \union {f}
    BY <1>3
  <2>2. Cardinality((S \intersect U) \union {f}) = Cardinality(S \intersect U) + 1
    BY <1>1, FS_AddElement
  <2>3. QED
    BY <1>1, <1>3, <2>1, <2>2 DEF Among
<1>4. CASE f \notin U
  <2>1. (S \union {f}) \intersect U = S \intersect U
    BY <1>4
  <2>2. Among(U, f) = 0
    BY <1>4 DEF Among
  <2>3. Cardinality(S \intersect U) = Cardinality(S \intersect U) + Among(U, f)
    BY <1>2, <2>2
  <2>4. QED
    BY <1>1, <2>1, <2>3
<1>5. QED
  BY <1>3, <1>4

LEMMA CountFields ==
    ASSUME NEW U \in SUBSET Fields
    PROVE  Cardinality(U) =
               Among(U, "subtotal") + Among(U, "discount") + Among(U, "gift") + Among(U, "points")
               + Among(U, "tax") + Among(U, "shipping") + Among(U, "total")
<1> DEFINE F1 == {} \union {"subtotal"}
           F2 == F1 \union {"discount"}
           F3 == F2 \union {"gift"}
           F4 == F3 \union {"points"}
           F5 == F4 \union {"tax"}
           F6 == F5 \union {"shipping"}
           F7 == F6 \union {"total"}
<1>1. IsFiniteSet({}) /\ Cardinality({} \intersect U) = 0
  <2>1. {} \intersect U = {}
    OBVIOUS
  <2>2. QED
    BY <2>1, FS_EmptySet
<1>2. /\ "discount" \notin F1 /\ "gift" \notin F2 /\ "points" \notin F3
      /\ "tax" \notin F4 /\ "shipping" \notin F5 /\ "total" \notin F6
  OBVIOUS
<1>3. F7 \intersect U = U
  BY DEF Fields
<1>4. \A f : Among(U, f) \in {0, 1}
  BY DEF Among
<1> HIDE DEF F1, F2, F3, F4, F5, F6, F7
<1>5. IsFiniteSet(F1) /\ Cardinality(F1 \intersect U) = Among(U, "subtotal")
  <2>1. /\ IsFiniteSet(F1)
        /\ Cardinality(F1 \intersect U) = Cardinality({} \intersect U) + Among(U, "subtotal")
    BY <1>1, CountOneMore DEF F1
  <2>2. QED
    BY <1>1, <1>4, <2>1
<1>6. /\ IsFiniteSet(F2)
      /\ Cardinality(F2 \intersect U) = Cardinality(F1 \intersect U) + Among(U, "discount")
  <2>1. IsFiniteSet(F1) /\ "discount" \notin F1 /\ F2 = F1 \union {"discount"}
    BY <1>2, <1>5 DEF F2
  <2>2. QED
    BY <2>1, CountOneMore, Zenon
<1>7. /\ IsFiniteSet(F3)
      /\ Cardinality(F3 \intersect U) = Cardinality(F2 \intersect U) + Among(U, "gift")
  <2>1. IsFiniteSet(F2) /\ "gift" \notin F2 /\ F3 = F2 \union {"gift"}
    BY <1>2, <1>6 DEF F3
  <2>2. QED
    BY <2>1, CountOneMore, Zenon
<1>8. /\ IsFiniteSet(F4)
      /\ Cardinality(F4 \intersect U) = Cardinality(F3 \intersect U) + Among(U, "points")
  <2>1. IsFiniteSet(F3) /\ "points" \notin F3 /\ F4 = F3 \union {"points"}
    BY <1>2, <1>7 DEF F4
  <2>2. QED
    BY <2>1, CountOneMore, Zenon
<1>9. /\ IsFiniteSet(F5)
      /\ Cardinality(F5 \intersect U) = Cardinality(F4 \intersect U) + Among(U, "tax")
  <2>1. IsFiniteSet(F4) /\ "tax" \notin F4 /\ F5 = F4 \union {"tax"}
    BY <1>2, <1>8 DEF F5
  <2>2. QED
    BY <2>1, CountOneMore, Zenon
<1>10. /\ IsFiniteSet(F6)
       /\ Cardinality(F6 \intersect U) = Cardinality(F5 \intersect U) + Among(U, "shipping")
  <2>1. IsFiniteSet(F5) /\ "shipping" \notin F5 /\ F6 = F5 \union {"shipping"}
    BY <1>2, <1>9 DEF F6
  <2>2. QED
    BY <2>1, CountOneMore, Zenon
<1>11. /\ IsFiniteSet(F7)
       /\ Cardinality(F7 \intersect U) = Cardinality(F6 \intersect U) + Among(U, "total")
  <2>1. IsFiniteSet(F6) /\ "total" \notin F6 /\ F7 = F6 \union {"total"}
    BY <1>2, <1>10 DEF F7
  <2>2. QED
    BY <2>1, CountOneMore, Zenon
<1>12. QED
  BY <1>3, <1>4, <1>5, <1>6, <1>7, <1>8, <1>9, <1>10, <1>11

\* Amounts that explain a total explain it, converted one by one, up to half a unit for
\* each that is rounded.
LEMMA RoundingErrors ==
    ASSUME NEW d \in Nat \ {0},
           NEW s \in Int, NEW c \in Int, NEW g \in Int, NEW p \in Int, NEW x \in Int,
           NEW h \in Int, NEW t \in Int,
           NEW is \in {0, 1}, NEW ic \in {0, 1}, NEW ig \in {0, 1}, NEW ip \in {0, 1},
           NEW ix \in {0, 1}, NEW ih \in {0, 1}, NEW it \in {0, 1},
           NEW ss \in Int, NEW cc \in Int, NEW gg \in Int, NEW pp \in Int, NEW xx \in Int,
           NEW hh \in Int, NEW tt \in Int,
           \* each converted amount times d is off by d / 2 at most, or by nothing
           -(d * is) <= 2 * (d * ss) - 2 * s, 2 * (d * ss) - 2 * s <= d * is,
           -(d * ic) <= 2 * (d * cc) - 2 * c, 2 * (d * cc) - 2 * c <= d * ic,
           -(d * ig) <= 2 * (d * gg) - 2 * g, 2 * (d * gg) - 2 * g <= d * ig,
           -(d * ip) <= 2 * (d * pp) - 2 * p, 2 * (d * pp) - 2 * p <= d * ip,
           -(d * ix) <= 2 * (d * xx) - 2 * x, 2 * (d * xx) - 2 * x <= d * ix,
           -(d * ih) <= 2 * (d * hh) - 2 * h, 2 * (d * hh) - 2 * h <= d * ih,
           -(d * it) <= 2 * (d * tt) - 2 * t, 2 * (d * tt) - 2 * t <= d * it,
           t = s + h + x - c - g - p
    PROVE  LET off == 2 * (tt - (ss + hh + xx - cc - gg - pp))
               most == is + ic + ig + ip + ix + ih + it
           IN  off <= most /\ -off <= most
<1> DEFINE off == 2 * (tt - (ss + hh + xx - cc - gg - pp))
           most == is + ic + ig + ip + ix + ih + it
<1>1. /\ d * off = 2 * (d * tt) - 2 * (d * ss) - 2 * (d * hh) - 2 * (d * xx)
                   + 2 * (d * cc) + 2 * (d * gg) + 2 * (d * pp)
      /\ d * most = d * is + d * ic + d * ig + d * ip + d * ix + d * ih + d * it
      /\ d * (-off) = -(d * off)
  OBVIOUS
<1>2. /\ d * tt \in Int /\ d * ss \in Int /\ d * hh \in Int /\ d * xx \in Int
      /\ d * cc \in Int /\ d * gg \in Int /\ d * pp \in Int
      /\ d * it \in Int /\ d * is \in Int /\ d * ih \in Int /\ d * ix \in Int
      /\ d * ic \in Int /\ d * ig \in Int /\ d * ip \in Int
  OBVIOUS
<1>3. d * off <= d * most /\ d * (-off) <= d * most
  BY <1>1, <1>2
<1>4. off \in Int /\ -off \in Int /\ most \in Int
  OBVIOUS
<1>5. off <= most /\ -off <= most
  BY <1>3, <1>4, CancelPositive
<1>6. QED
  BY <1>5

\* What a finished quote answers with.

LEMMA QuoteAmounts ==
    ASSUME NEW q \in PricedQuote
    PROVE  /\ Discount(q) \in Int /\ Discount(q) <= Subtotal
           /\ ShippingDue(q) \in Nat
           /\ TotalWithTax(q) \in Nat
<1>1. Subtotal \in Int /\ q.sum \in Int /\ q.ship \in Nat /\ q.tax \in Nat
  BY PricingAssumption DEF PricedQuote
<1>2. Discount(q) \in Int /\ Discount(q) <= Subtotal
  BY <1>1, LeastOfTwo DEF Discount
<1>3. ShippingDue(q) \in Nat
  BY <1>1 DEF ShippingDue
<1>4. (IF q.inclusive THEN 0 ELSE q.tax) \in Nat
  BY <1>1
<1>5. TotalWithTax(q) \in Nat
  BY <1>1, <1>2, <1>3, <1>4 DEF TotalWithTax
<1>6. QED
  BY <1>2, <1>3, <1>5

LEMMA RateParts ==
    ASSUME NEW q \in PricedQuote
    PROVE  \E n, d \in Nat \ {0} : q.rate = <<n, d>>
<1>1. q.rate \in Rates \union {<<1, 1>>}
  BY DEF PricedQuote
<1>2. q.rate \in (Nat \ {0}) \X (Nat \ {0})
  BY <1>1, PricingAssumption
<1>3. QED
  BY <1>2

\* One field, converted: how far it is off, and whether it counts as rounded.
LEMMA FieldIsClose ==
    ASSUME NEW q \in PricedQuote, NEW f \in Fields, NEW n \in Nat \ {0}, NEW d \in Nat \ {0},
           q.rate = <<n, d>>, NEW a \in Int, a = Amounts(q)[f],
           NEW U, U = {e \in DOMAIN DisplayTotals(q) :
                          (Amounts(q)[e] * q.rate[1]) % q.rate[2] # 0}
    PROVE  /\ DisplayTotals(q)[f] \in Int
           /\ 2 * (d * DisplayTotals(q)[f]) - 2 * (a * n) <= d * Among(U, f)
           /\ -(d * Among(U, f)) <= 2 * (d * DisplayTotals(q)[f]) - 2 * (a * n)
<1>1. DOMAIN Amounts(q) = Fields
  BY DEF Amounts, Fields
<1>2. f \in DOMAIN DisplayTotals(q) /\ DisplayTotals(q)[f] = Shown(a, q.rate)
  BY <1>1 DEF DisplayTotals
<1>3. f \in U <=> (a * n) % d # 0
  BY <1>2
<1>4. PICK rate : rate = q.rate /\ rate = <<n, d>>
  OBVIOUS
<1>5. PICK s : s = Shown(a, rate)
  OBVIOUS
<1>6. /\ s \in Int
      /\ 2 * (d * s) - 2 * (a * n) <= d /\ 2 * (a * n) - 2 * (d * s) <= d
      /\ (a * n) % d = 0 => d * s = a * n
  <2>1. CloseTo(s, a, n, d)
    BY <1>4, <1>5, ShownIsClose
  <2>2. QED
    BY <2>1 DEF CloseTo
<1>7. DisplayTotals(q)[f] = s
  BY <1>2, <1>4, <1>5
<1>8. PICK ds, an \in Int : ds = d * s /\ an = a * n
  BY <1>6
<1>9. CASE f \in U
  <2>1. d * Among(U, f) = d
    BY <1>9 DEF Among
  <2>2. QED
    BY <1>6, <1>7, <1>8, <2>1
<1>10. CASE f \notin U
  <2>1. ds = an
    BY <1>3, <1>6, <1>8, <1>10
  <2>2. d * Among(U, f) = 0
    BY <1>10 DEF Among
  <2>3. QED
    BY <1>6, <1>7, <1>8, <2>1, <2>2
<1>11. QED
  BY <1>9, <1>10

LEMMA ShownInBase ==
    ASSUME NEW a \in Int
    PROVE  Shown(a, <<1, 1>>) = a
  BY DEF Shown

LEMMA FinishedQuotesAddUp ==
    ASSUME PricingInv
    PROVE  QuotesAddUp
<1>1. SUFFICES ASSUME quote.at = "done" PROVE QuotesAddUp
  BY DEF QuotesAddUp
<1>2. PICK q \in PricedQuote : q = quote
  BY DEF PricingInv
<1>3. q.at = "done" /\ QuoteSoFar(q)
  BY <1>1, <1>2 DEF PricingInv
<1>4. q.total = TotalWithTax(q) - q.gift - q.points /\ q.total >= 0
  BY <1>3 DEF QuoteSoFar
<1>5. PICK n, d \in Nat \ {0} : q.rate = <<n, d>>
  BY RateParts
<1> DEFINE shown == DisplayTotals(q)
           taxed(t) == IF q.inclusive THEN 0 ELSE t
           parts == shown.subtotal + shown.shipping + taxed(shown.tax)
                    - shown.discount - shown.gift - shown.points
           U == {f \in DOMAIN shown : (Amounts(q)[f] * q.rate[1]) % q.rate[2] # 0}
<1>6. /\ Subtotal \in Int /\ Discount(q) \in Int /\ ShippingDue(q) \in Int
      /\ q.gift \in Int /\ q.points \in Int /\ q.tax \in Int /\ q.total \in Int
  BY QuoteAmounts, PricingAssumption DEF PricedQuote
<1>7. /\ Amounts(q)["subtotal"] = Subtotal /\ Amounts(q)["discount"] = Discount(q)
      /\ Amounts(q)["gift"] = q.gift /\ Amounts(q)["points"] = q.points
      /\ Amounts(q)["tax"] = q.tax /\ Amounts(q)["shipping"] = ShippingDue(q)
      /\ Amounts(q)["total"] = q.total
  BY DEF Amounts
<1>8. PICK V : V = U
  OBVIOUS
<1>9. \A f \in Fields : Amounts(q)[f] \in Int
  BY <1>6, <1>7 DEF Fields
<1>10. \A f \in Fields :
           /\ shown[f] \in Int
           /\ 2 * (d * shown[f]) - 2 * (Amounts(q)[f] * n) <= d * Among(V, f)
           /\ -(d * Among(V, f)) <= 2 * (d * shown[f]) - 2 * (Amounts(q)[f] * n)
  BY <1>5, <1>8, <1>9, FieldIsClose
<1>11. V \in SUBSET Fields
  BY <1>8 DEF DisplayTotals, Amounts, Fields
<1>12. \A f \in Fields : Among(V, f) \in {0, 1}
  BY DEF Among
<1>13. q.total = Subtotal + ShippingDue(q) + taxed(q.tax) - Discount(q) - q.gift - q.points
  BY <1>4, <1>6 DEF TotalWithTax
<1>14. 2 * Distance(shown.total, parts) <= Cardinality(V)
  <2>1. PICK ss, cc, gg, pp, xx, hh, tt \in Int :
            /\ ss = shown.subtotal /\ cc = shown.discount /\ gg = shown.gift
            /\ pp = shown.points /\ xx = shown.tax /\ hh = shown.shipping /\ tt = shown.total
    BY <1>10 DEF Fields
  <2>2. PICK is, ic, ig, ip, ix, ih, it \in {0, 1} :
            /\ is = Among(V, "subtotal") /\ ic = Among(V, "discount") /\ ig = Among(V, "gift")
            /\ ip = Among(V, "points") /\ ix = Among(V, "tax") /\ ih = Among(V, "shipping")
            /\ it = Among(V, "total")
    BY <1>12 DEF Fields
  <2>3. PICK s, c, g, p, x, h, t \in Int :
            /\ s = Subtotal * n /\ c = Discount(q) * n /\ g = q.gift * n /\ p = q.points * n
            /\ x = q.tax * n /\ h = ShippingDue(q) * n /\ t = q.total * n
    <3>1. \A a \in Int : a * n \in Int
      OBVIOUS
    <3>2. QED
      BY <1>6, <3>1
  <2>4. /\ -(d * is) <= 2 * (d * ss) - 2 * s /\ 2 * (d * ss) - 2 * s <= d * is
        /\ -(d * ic) <= 2 * (d * cc) - 2 * c /\ 2 * (d * cc) - 2 * c <= d * ic
    BY <1>7, <1>10, <2>1, <2>2, <2>3 DEF Fields
  <2>5. /\ -(d * ig) <= 2 * (d * gg) - 2 * g /\ 2 * (d * gg) - 2 * g <= d * ig
        /\ -(d * ip) <= 2 * (d * pp) - 2 * p /\ 2 * (d * pp) - 2 * p <= d * ip
    BY <1>7, <1>10, <2>1, <2>2, <2>3 DEF Fields
  <2>6. /\ -(d * ix) <= 2 * (d * xx) - 2 * x /\ 2 * (d * xx) - 2 * x <= d * ix
        /\ -(d * ih) <= 2 * (d * hh) - 2 * h /\ 2 * (d * hh) - 2 * h <= d * ih
    BY <1>7, <1>10, <2>1, <2>2, <2>3 DEF Fields
  <2>7. -(d * it) <= 2 * (d * tt) - 2 * t /\ 2 * (d * tt) - 2 * t <= d * it
    BY <1>7, <1>10, <2>1, <2>2, <2>3 DEF Fields
  <2>8. Cardinality(V) = is + ic + ig + ip + ix + ih + it
    BY <1>11, <2>2, CountFields
  <2>9. CASE q.inclusive
    <3>1. q.total = Subtotal + ShippingDue(q) + 0 - Discount(q) - q.gift - q.points
      BY <1>13, <2>9
    <3>2. t = s + h + 0 - c - g - p
      BY <1>6, <2>3, <3>1
    <3>3. d * 0 = 0
      OBVIOUS
    <3>4. LET off == 2 * (tt - (ss + hh + 0 - cc - gg - pp))
              most == is + ic + ig + ip + 0 + ih + it
          IN  off <= most /\ -off <= most
      BY <2>4, <2>5, <2>6, <2>7, <3>2, <3>3, RoundingErrors
    <3>5. parts = ss + hh + 0 - cc - gg - pp
      BY <2>1, <2>9
    <3>6. QED
      BY <2>1, <2>8, <3>4, <3>5 DEF Distance
  <2>10. CASE ~q.inclusive
    <3>1. q.total = Subtotal + ShippingDue(q) + q.tax - Discount(q) - q.gift - q.points
      BY <1>13, <2>10
    <3>2. t = s + h + x - c - g - p
      BY <1>6, <2>3, <3>1
    <3>3. LET off == 2 * (tt - (ss + hh + xx - cc - gg - pp))
              most == is + ic + ig + ip + ix + ih + it
          IN  off <= most /\ -off <= most
      BY <2>4, <2>5, <2>6, <2>7, <3>2, RoundingErrors
    <3>4. parts = ss + hh + xx - cc - gg - pp
      BY <2>1, <2>10
    <3>5. QED
      BY <2>1, <2>8, <3>3, <3>4 DEF Distance
  <2>11. QED
    BY <2>9, <2>10
<1>15. q.currency = Base => shown.total = q.total
  <2>1. shown.total = Shown(q.total, q.rate)
    BY <1>7 DEF DisplayTotals, Amounts
  <2>2. QED
    BY <1>3, <1>6, <2>1, ShownInBase DEF QuoteSoFar
<1> HIDE DEF U
<1>16. QED
  BY <1>2, <1>4, <1>8, <1>13, <1>14, <1>15 DEF QuotesAddUp, U

\* The steps.

\* An edit of the rows, which a quote under way does not feel.
LEMMA PricedMoves ==
    ASSUME PricingInv, UNCHANGED quote, shipping' \in Nat,
           DisplayRow'.main \in {Base, Foreign},
           priced' = [t \in Tables |-> priced'[t]],
           \A t \in Tables : priced'[t] \in {NoRow} \union RowsOf(t)
    PROVE  PricingInv'
  BY DEF PricingInv

LEMMA RowRequests ==
    ASSUME PricingInv, NEW t \in Tables,
           CreateRow(t) \/ UpdateReads(t) \/ UpdateSaves(t) \/ RemoveRow(t)
    PROVE  PricingInv'
<1>1. UNCHANGED <<display, shipping, quote>>
  BY DEF CreateRow, UpdateReads, UpdateSaves, RemoveRow, PriceEdit
<1>2. /\ priced' = [u \in Tables |-> priced'[u]]
      /\ \A u \in Tables : priced'[u] \in {NoRow} \union RowsOf(u)
  <2>1. CASE UNCHANGED priced
    BY <2>1 DEF PricingInv
  <2>2. CASE \E row \in RowsOf(t) : priced' = [priced EXCEPT ![t] = row]
    BY <2>2 DEF PricingInv
  <2>3. CASE RemoveRow(t)
    <3>1. \A u \in Tables : priced'[u] \in {NoRow, priced[u]}
      BY <2>3 DEF RemoveRow
    <3>2. priced' = [u \in Tables |-> priced'[u]]
      BY <2>3 DEF RemoveRow
    <3>3. QED
      BY <3>1, <3>2 DEF PricingInv
  <2>4. QED
    BY <2>1, <2>2, <2>3 DEF CreateRow, UpdateReads, UpdateSaves
<1>3. UNCHANGED DisplayRow
  BY <1>1 DEF DisplayRow
<1>4. QED
  BY <1>1, <1>2, <1>3, PricedMoves DEF PricingInv

LEMMA RowsOfTables ==
    /\ \A r \in RuleIds : r \in Tables /\ RowsOf(r) = RuleRows
    /\ "coupon" \in Tables /\ RowsOf("coupon") = CouponRows
    /\ "rate" \in Tables /\ RowsOf("rate") = RateRows
    /\ "segment" \in Tables /\ "taxClass" \in Tables /\ "taxRule" \in Tables
  BY DEF Tables, RowsOf, RuleIds, CodeOrder

LEMMA AdministrationStep ==
    ASSUME PricingInv,
           \/ PromotionRequest \/ SegmentRequest \/ TaxRequest \/ RateRequest \/ DisplayRequest
           \/ SelectShipping \/ ClearShipping
    PROVE  PricingInv'
<1>1. ASSUME NEW t \in Tables,
             CreateRow(t) \/ UpdateReads(t) \/ UpdateSaves(t) \/ RemoveRow(t)
      PROVE  PricingInv'
  BY <1>1, RowRequests
<1>2. CASE UpsertRate
  <2>1. PICK row \in RateRows : priced' = [priced EXCEPT !["rate"] = row]
    BY <1>2 DEF UpsertRate
  <2>2. UNCHANGED <<shipping, quote, DisplayRow>>
    BY <1>2 DEF UpsertRate, PriceEdit, DisplayRow
  <2>3. QED
    BY <2>1, <2>2, RowsOfTables, PricedMoves DEF PricingInv
<1>3. CASE EnsureDisplay \/ UpdateDisplay
  <2>1. UNCHANGED <<priced, shipping, quote>>
    BY <1>3 DEF EnsureDisplay, UpdateDisplay, PriceEdit
  <2>2. DisplayRow'.main \in {Base, Foreign}
    <3>1. CASE EnsureDisplay
      <4>1. DisplayRow'.main = DisplayRow.main
        BY <3>1 DEF EnsureDisplay, DisplayRow
      <4>2. QED
        BY <4>1 DEF PricingInv
    <3>2. CASE UpdateDisplay
      BY <3>2 DEF UpdateDisplay, DisplayRow, WithPrimaryDisplay
    <3>3. QED
      BY <1>3, <3>1, <3>2
  <2>3. QED
    BY <2>1, <2>2, PricedMoves DEF PricingInv
<1>4. CASE SelectShipping \/ ClearShipping
  <2>1. UNCHANGED <<priced, display, quote>> /\ shipping' \in Nat
    BY <1>4, PricingAssumption DEF SelectShipping, ClearShipping, QuotedRates
  <2>2. UNCHANGED DisplayRow
    BY <2>1 DEF DisplayRow
  <2>3. QED
    BY <2>1, <2>2, PricedMoves DEF PricingInv
<1>5. CASE PromotionRequest
  BY <1>1, <1>5, RowsOfTables
     DEF PromotionRequest, CreateCoupon, UpdateCoupon, RemoveCoupon,
         CreateDiscountRule, UpdateDiscountRule, RemoveDiscountRule
<1>6. CASE SegmentRequest
  BY <1>1, <1>6, RowsOfTables DEF SegmentRequest, CreateSegment, UpdateSegment, RemoveSegment
<1>7. CASE TaxRequest
  BY <1>1, <1>7, RowsOfTables
     DEF TaxRequest, CreateTaxClass, UpdateTaxClass, RemoveTaxClass,
         CreateTaxRule, UpdateTaxRule, RemoveTaxRule
<1>8. CASE RateRequest
  BY <1>1, <1>2, <1>8, RowsOfTables DEF RateRequest, CreateRate, UpdateRate, RemoveRate
<1>9. QED
  BY <1>3, <1>4, <1>5, <1>6, <1>7, <1>8 DEF DisplayRequest

LEMMA RuleDiscountIsWhole ==
    ASSUME NEW row \in RuleRows \union CouponRows
    PROVE  RuleDiscount(row) \in Int
<1>1. Subtotal \in Int /\ row.value \in Int
  BY PricingAssumption
<1>2. (Subtotal * row.value) \div 10000 \in Int
  <2>1. PICK v \in Int : v = Subtotal * row.value
    BY <1>1
  <2>2. v \div 10000 \in Int
    BY <2>1
  <2>3. QED
    BY <2>1, <2>2
<1>3. Min({row.value, Subtotal}) \in Int
  BY <1>1, LeastOfTwo
<1>4. QED
  BY <1>2, <1>3 DEF RuleDiscount

\* A step of the quote to x.
LEMMA PricedQuoteMoves ==
    ASSUME PricingInv, NEW x \in PricedQuote, QuoteSoFar(x), quote' = x,
           UNCHANGED <<priced, shipping>>, display' \in {display, DisplayRow}
    PROVE  PricingInv'
<1>1. DisplayRow'.main = DisplayRow.main
  BY DEF DisplayRow
<1>2. QED
  BY <1>1 DEF PricingInv

LEMMA QuoteRefused ==
    ASSUME PricingInv, quote.at # "done", quote' = Refused,
           UNCHANGED <<priced, shipping>>, display' \in {display, DisplayRow}
    PROVE  PricingInv'
<1>1. PICK q \in PricedQuote : q = quote
  BY DEF PricingInv
<1>2. PICK x : x = [q EXCEPT !.at = "refused"]
  OBVIOUS
<1>3. /\ x \in PricedQuote /\ x.at = "refused"
      /\ x.left = q.left /\ x.loaded = q.loaded /\ x.rate = q.rate
      /\ x.gift = q.gift /\ x.points = q.points
  BY <1>2 DEF PricedQuote, QuoteStages
<1>4. QuoteSoFar(q) /\ q.at # "done"
  BY <1>1 DEF PricingInv
<1>5. q.rate = <<1, 1>> /\ \A r \in q.left : q.loaded[r] \in RuleRows
  BY <1>4 DEF QuoteSoFar
<1>6. QuoteSoFar(x)
  BY <1>3, <1>5 DEF QuoteSoFar
<1>7. QED
  BY <1>1, <1>2, <1>3, <1>6, PricedQuoteMoves DEF Refused

\* The order of the rules is total, so that a set of them has a first one.
LEMMA TopRuleIsOne ==
    ASSUME NEW rules, NEW S \in SUBSET RuleIds, S # {},
           \A r \in S : rules[r].priority \in Int
    PROVE  TopRule(rules, S) \in S
<1> DEFINE First(r) == \A s \in S : ComesFirst(rules, r, s)
<1>1. RuleIds = {"rule1", "rule2", "rule3"}
  BY DEF RuleIds, CodeOrder
<1>2. CodeOrder["rule1"] = 1 /\ CodeOrder["rule2"] = 2 /\ CodeOrder["rule3"] = 3
  BY DEF CodeOrder
<1>3. \A r, s \in S : CodeOrder[r] \in Int /\ CodeOrder[s] \in Int
  BY <1>1, <1>2
<1>4. \A r, s \in S : ComesFirst(rules, r, s) \/ ComesFirst(rules, s, r)
  BY <1>3 DEF ComesFirst
<1>5. \A r, s, t \in S :
          ComesFirst(rules, r, s) /\ ComesFirst(rules, s, t) => ComesFirst(rules, r, t)
  BY <1>3 DEF ComesFirst
<1>6. \E r \in S : First(r)
  <2>1. PICK a \in S : TRUE
    OBVIOUS
  <2>2. \A T \in SUBSET S : \A b, c, d \in S :
            T \subseteq {b, c, d} =>
                \E r \in {b, c, d} : \A s \in T : ComesFirst(rules, r, s)
    <3>1. ASSUME NEW T \in SUBSET S, NEW b \in S, NEW c \in S, NEW d \in S, T \subseteq {b, c, d}
          PROVE  \E r \in {b, c, d} : \A s \in T : ComesFirst(rules, r, s)
      <4>1. PICK e \in {b, c} : ComesFirst(rules, e, b) /\ ComesFirst(rules, e, c)
        BY <1>4
      <4>2. PICK r \in {e, d} : ComesFirst(rules, r, e) /\ ComesFirst(rules, r, d)
        BY <1>4
      <4>3. ComesFirst(rules, r, b) /\ ComesFirst(rules, r, c)
        BY <1>5, <4>1, <4>2
      <4>4. QED
        BY <3>1, <4>1, <4>2, <4>3
    <3>2. QED
      BY <3>1
  <2>3. PICK b, c, d \in S : S \subseteq {b, c, d}
    <3> DEFINE Or(r) == IF r \in S THEN r ELSE a
    <3>1. Or("rule1") \in S /\ Or("rule2") \in S /\ Or("rule3") \in S
      BY <2>1
    <3>2. S \subseteq {Or("rule1"), Or("rule2"), Or("rule3")}
      BY <1>1
    <3> HIDE DEF Or
    <3>3. QED
      BY <3>1, <3>2
  <2>4. QED
    BY <2>2, <2>3
<1>7. QED
  BY <1>6 DEF TopRule

LEMMA SelectedRulesQualify ==
    ASSUME NEW rules, \A r \in Qualifying(rules) : rules[r].priority \in Int
    PROVE  SelectAutomaticRules(rules) \subseteq Qualifying(rules)
<1> DEFINE alone == Qualifying(rules) \ {r \in Qualifying(rules) : rules[r].stackable}
<1>1. alone \in SUBSET RuleIds /\ \A r \in alone : rules[r].priority \in Int
  BY DEF Qualifying
<1>2. alone # {} => TopRule(rules, alone) \in alone
  <2> HIDE DEF alone
  <2>1. QED
    BY <1>1, TopRuleIsOne
<1>3. QED
  BY <1>2 DEF SelectAutomaticRules

LEMMA QuoteStartStep ==
    ASSUME PricingInv, QuoteStart
    PROVE  PricingInv'
<1>1. PICK next \in {"coupon", "rules"} :
          Step("idle", [quote EXCEPT !.at = next, !.ship = shipping])
  BY DEF QuoteStart
<1>2. PICK q \in PricedQuote : q = quote /\ q.at = "idle"
  BY <1>1 DEF PricingInv, Step
<1>3. PICK x : x = [q EXCEPT !.at = next, !.ship = shipping]
  OBVIOUS
<1>4. shipping \in Nat
  BY DEF PricingInv
<1>5. /\ x \in PricedQuote /\ x.at = next
      /\ x.left = q.left /\ x.loaded = q.loaded /\ x.rate = q.rate
      /\ x.gift = q.gift /\ x.points = q.points
  BY <1>3, <1>4 DEF PricedQuote, QuoteStages
<1>6. QuoteSoFar(x)
  BY <1>2, <1>5 DEF QuoteSoFar, PricingInv
<1>7. QED
  BY <1>1, <1>2, <1>3, <1>5, <1>6, PricedQuoteMoves DEF Step

LEMMA QuoteCouponStep ==
    ASSUME PricingInv, QuoteCoupon
    PROVE  PricingInv'
<1> DEFINE row == priced["coupon"]
<1>1. CASE Step("coupon", Refused)
  BY <1>1, QuoteRefused DEF Step
<1>2. CASE /\ Entered("coupon")
           /\ Step("coupon", [quote EXCEPT !.at = "rules", !.sum = RuleDiscount(row),
                                           !.free = GivesFreeShipping(row)])
  <2>1. PICK q \in PricedQuote : q = quote /\ q.at = "coupon"
    BY <1>2 DEF PricingInv, Step
  <2>2. PICK s \in Int, f \in BOOLEAN : s = RuleDiscount(row) /\ f = GivesFreeShipping(row)
    <3>1. GivesFreeShipping(row) \in BOOLEAN
      BY DEF GivesFreeShipping
    <3>2. QED
      BY <1>2, <3>1, RuleDiscountIsWhole, RowsOfTables DEF PricingInv, Entered
  <2>3. f \in BOOLEAN
    BY <2>2
  <2>4. PICK x : x = [q EXCEPT !.at = "rules", !.sum = s, !.free = f]
    OBVIOUS
  <2>5. /\ x \in PricedQuote /\ x.at = "rules"
        /\ x.left = q.left /\ x.loaded = q.loaded /\ x.rate = q.rate
        /\ x.gift = q.gift /\ x.points = q.points
    BY <2>2, <2>3, <2>4 DEF PricedQuote, QuoteStages
  <2>6. QuoteSoFar(x)
    BY <2>1, <2>5 DEF QuoteSoFar, PricingInv
  <2>7. quote' = x /\ UNCHANGED <<priced, display, shipping>>
    BY <1>2, <2>1, <2>2, <2>4 DEF Step
  <2>8. QED
    BY <2>5, <2>6, <2>7, PricedQuoteMoves
<1>3. QED
  BY <1>1, <1>2 DEF QuoteCoupon

LEMMA QuoteRulesStep ==
    ASSUME PricingInv, QuoteRules
    PROVE  PricingInv'
<1>1. PICK rules : rules = [r \in RuleIds |-> priced[r]]
  OBVIOUS
<1>2. rules \in [RuleIds -> {NoRow} \union RuleRows]
  BY <1>1, RowsOfTables DEF PricingInv
<1>3. PICK left : left = {r \in SelectAutomaticRules(rules) : MeetsMinimum(rules[r])}
  OBVIOUS
<1>4. \A r \in Qualifying(rules) : rules[r] \in RuleRows
  BY <1>2 DEF Qualifying
<1>5. left \subseteq Qualifying(rules)
  BY <1>3, <1>4, SelectedRulesQualify, PricingAssumption
<1>6. left \in SUBSET RuleIds /\ \A r \in left : rules[r] \in RuleRows
  BY <1>4, <1>5 DEF Qualifying
<1>7. Step("rules", [quote EXCEPT !.at = "each", !.loaded = rules, !.left = left])
  BY <1>1, <1>3 DEF QuoteRules
<1>8. PICK q \in PricedQuote : q = quote /\ q.at = "rules"
  BY <1>7 DEF PricingInv, Step
<1>9. PICK x : x = [q EXCEPT !.at = "each", !.loaded = rules, !.left = left]
  OBVIOUS
<1>10. /\ x \in PricedQuote /\ x.at = "each"
       /\ x.left = left /\ x.loaded = rules /\ x.rate = q.rate
       /\ x.gift = q.gift /\ x.points = q.points
  BY <1>2, <1>6, <1>9 DEF PricedQuote, QuoteStages
<1>11. QuoteSoFar(x)
  BY <1>6, <1>8, <1>10 DEF QuoteSoFar, PricingInv
<1>12. quote' = x /\ UNCHANGED <<priced, display, shipping>>
  BY <1>7, <1>8, <1>9 DEF Step
<1>13. QED
  BY <1>10, <1>11, <1>12, PricedQuoteMoves

LEMMA QuoteEachRuleStep ==
    ASSUME PricingInv, QuoteEachRule
    PROVE  PricingInv'
<1> DEFINE r == TopRule(quote.loaded, quote.left)
           row == quote.loaded[r]
<1>1. PICK q \in PricedQuote : q = quote /\ q.at = "each"
  BY DEF PricingInv, QuoteEachRule, Step
<1>2. QuoteSoFar(q) /\ q.left \in SUBSET RuleIds
  BY <1>1 DEF PricingInv, PricedQuote
<1>3. CASE q.left = {}
  <2>1. PICK x : x = [q EXCEPT !.at = "tax"]
    OBVIOUS
  <2>2. /\ x \in PricedQuote /\ x.at = "tax"
        /\ x.left = q.left /\ x.loaded = q.loaded /\ x.rate = q.rate
        /\ x.gift = q.gift /\ x.points = q.points
    BY <2>1 DEF PricedQuote, QuoteStages
  <2>3. QuoteSoFar(x)
    BY <1>1, <1>2, <2>2 DEF QuoteSoFar
  <2>4. quote' = x /\ UNCHANGED <<priced, display, shipping>>
    BY <1>1, <1>3, <2>1 DEF QuoteEachRule, Step
  <2>5. QED
    BY <2>2, <2>3, <2>4, PricedQuoteMoves
<1>4. CASE q.left # {}
  <2>1. \A u \in q.left : q.loaded[u] \in RuleRows
    BY <1>2 DEF QuoteSoFar
  <2>2. r \in q.left /\ row \in RuleRows
    <3>1. TopRule(q.loaded, q.left) \in q.left
      BY <1>2, <1>4, <2>1, PricingAssumption, TopRuleIsOne
    <3>2. QED
      BY <1>1, <2>1, <3>1
  <2>3. PICK given \in Int, f \in BOOLEAN, left \in SUBSET q.left :
            given = RuleDiscount(row) /\ f = GivesFreeShipping(row) /\ left = q.left \ {r}
    <3>1. GivesFreeShipping(row) \in BOOLEAN
      BY DEF GivesFreeShipping
    <3>2. QED
      BY <2>2, <3>1, RuleDiscountIsWhole
  <2>4. PICK g \in BOOLEAN, sum \in Int : g = (q.free \/ f) /\ sum = q.sum + given
    BY DEF PricedQuote
  <2>5. PICK x : x = [q EXCEPT !.left = left, !.sum = sum, !.free = g]
    OBVIOUS
  <2>6. PICK y : y = [q EXCEPT !.left = left]
    OBVIOUS
  <2>7. /\ x \in PricedQuote /\ x.at = q.at
        /\ x.left = left /\ x.loaded = q.loaded /\ x.rate = q.rate
        /\ x.gift = q.gift /\ x.points = q.points
    BY <1>2, <2>3, <2>4, <2>5 DEF PricedQuote
  <2>8. /\ y \in PricedQuote /\ y.at = q.at
        /\ y.left = left /\ y.loaded = q.loaded /\ y.rate = q.rate
        /\ y.gift = q.gift /\ y.points = q.points
    BY <1>2, <2>3, <2>6 DEF PricedQuote
  <2>9. QuoteSoFar(x) /\ QuoteSoFar(y)
    BY <1>1, <1>2, <2>3, <2>7, <2>8 DEF QuoteSoFar
  <2>10. quote' \in {x, y} /\ UNCHANGED <<priced, display, shipping>>
    <3>1. quote' \in {[q EXCEPT !.left = @ \ {r}, !.sum = @ + RuleDiscount(row),
                                !.free = @ \/ GivesFreeShipping(row)],
                      [q EXCEPT !.left = @ \ {r}]} /\ UNCHANGED <<priced, display, shipping>>
      BY <1>1, <1>4 DEF QuoteEachRule, Step
    <3>2. QED
      BY <2>3, <2>4, <2>5, <2>6, <3>1
  <2>11. QED
    BY <2>7, <2>8, <2>9, <2>10, PricedQuoteMoves
<1>5. QED
  BY <1>3, <1>4

LEMMA TaxedTotal ==
    ASSUME NEW q \in PricedQuote
    PROVE  TotalWithTax(q) \in Int /\ TotalWithTax(q) >= 0
<1>1. /\ Subtotal \in Nat /\ ShippingDue(q) \in Nat /\ q.tax \in Nat
      /\ Discount(q) \in Int /\ Discount(q) <= Subtotal
  <2>1. Subtotal \in Int /\ q.sum \in Int /\ q.ship \in Nat /\ q.tax \in Nat
    BY PricingAssumption DEF PricedQuote
  <2>2. QED
    BY <2>1, LeastOfTwo, PricingAssumption DEF Discount, ShippingDue
<1>2. QED
  BY <1>1 DEF TotalWithTax

LEMMA QuoteTaxStep ==
    ASSUME PricingInv, QuoteTax
    PROVE  PricingInv'
<1>1. CASE Step("tax", Refused)
  BY <1>1, QuoteRefused DEF Step
<1>2. ASSUME NEW tax \in TaxAnswers, NEW inclusive \in BOOLEAN,
             Step("tax", [[quote EXCEPT !.at = "gift", !.tax = tax, !.inclusive = inclusive]
                             EXCEPT !.total = TotalWithTax([quote EXCEPT
                                 !.at = "gift", !.tax = tax, !.inclusive = inclusive])])
      PROVE  PricingInv'
  <2>1. PICK q \in PricedQuote : q = quote /\ q.at = "tax"
    BY <1>2 DEF PricingInv, Step
  <2>2. PICK y : y = [q EXCEPT !.at = "gift", !.tax = tax, !.inclusive = inclusive]
    OBVIOUS
  <2>3. tax \in Nat
    BY PricingAssumption
  <2>4. /\ y \in PricedQuote /\ y.at = "gift"
        /\ y.left = q.left /\ y.loaded = q.loaded /\ y.rate = q.rate
        /\ y.gift = q.gift /\ y.points = q.points
    BY <2>2, <2>3 DEF PricedQuote, QuoteStages
  <2>5. PICK total \in Int : total = TotalWithTax(y) /\ total >= 0
    BY <2>4, TaxedTotal
  <2>6. PICK x : x = [y EXCEPT !.total = total]
    OBVIOUS
  <2>7. /\ x \in PricedQuote /\ x.at = "gift" /\ x.total = total
        /\ x.left = q.left /\ x.loaded = q.loaded /\ x.rate = q.rate
        /\ x.gift = q.gift /\ x.points = q.points
    BY <2>4, <2>5, <2>6 DEF PricedQuote
  <2>8. TotalWithTax(x) = TotalWithTax(y)
    <3>1. y \in PricedQuote
      BY <2>4
    <3>2. /\ x.sum = y.sum /\ x.free = y.free /\ x.ship = y.ship
          /\ x.tax = y.tax /\ x.inclusive = y.inclusive
      BY <2>6, <3>1 DEF PricedQuote
    <3>3. QED
      BY <3>2 DEF TotalWithTax, Discount, ShippingDue
  <2>9. QuoteSoFar(q)
    BY <2>1 DEF PricingInv
  <2>10. /\ q.gift = 0 /\ q.points = 0 /\ q.rate = <<1, 1>>
         /\ \A r \in q.left : q.loaded[r] \in RuleRows
    BY <2>1, <2>9 DEF QuoteSoFar
  <2>11. x.total = TotalWithTax(x) - x.gift - x.points /\ x.total >= 0
    BY <2>5, <2>7, <2>8, <2>10
  <2>12. QuoteSoFar(x)
    BY <2>7, <2>10, <2>11 DEF QuoteSoFar
  <2>13. quote' = x /\ UNCHANGED <<priced, display, shipping>>
    BY <1>2, <2>1, <2>2, <2>5, <2>6 DEF Step
  <2>14. QED
    BY <2>7, <2>12, <2>13, PricedQuoteMoves
<1>3. QED
  BY <1>1, <1>2 DEF QuoteTax

\* What the gift card and the points take: at most what is due.
LEMMA Taken ==
    ASSUME NEW q \in PricedQuote, QuoteSoFar(q), q.at \in {"gift", "points"},
           NEW worth \in Nat, NEW x,
           \/ /\ q.at = "gift"
              /\ x = [q EXCEPT !.at = "points", !.gift = Min({worth, q.total}),
                               !.total = q.total - Min({worth, q.total})]
           \/ /\ q.at = "points"
              /\ x = [q EXCEPT !.at = "locked", !.points = Min({worth, q.total}),
                               !.total = q.total - Min({worth, q.total})]
    PROVE  x \in PricedQuote /\ QuoteSoFar(x)
<1>1. q.total \in Int /\ TotalWithTax(q) \in Int
  BY TaxedTotal DEF PricedQuote
<1>2. PICK taken \in Int : taken = Min({worth, q.total}) /\ taken <= q.total
  <2>1. worth \in Int /\ q.total \in Int
    BY <1>1
  <2>2. Min({worth, q.total}) \in Int /\ Min({worth, q.total}) <= q.total
    BY <2>1, LeastOfTwo
  <2>3. QED
    BY <2>2
<1>3. PICK due \in Int : due = q.total - taken /\ due >= 0
  BY <1>1, <1>2
<1>4. /\ q.total = TotalWithTax(q) - q.gift - q.points
      /\ q.at = "gift" => q.gift = 0
      /\ q.points = 0 /\ q.rate = <<1, 1>> /\ \A r \in q.left : q.loaded[r] \in RuleRows
  BY DEF QuoteSoFar
<1>5. CASE q.at = "gift"
  <2>1. x = [q EXCEPT !.at = "points", !.gift = taken, !.total = due]
    BY <1>2, <1>3, <1>5
  <2>2. /\ x \in PricedQuote /\ x.at = "points" /\ x.total = due /\ x.gift = taken
        /\ x.points = q.points
        /\ x.left = q.left /\ x.loaded = q.loaded /\ x.rate = q.rate
    BY <2>1 DEF PricedQuote, QuoteStages
  <2>3. TotalWithTax(x) = TotalWithTax(q)
    BY <2>1 DEF TotalWithTax, Discount, ShippingDue, PricedQuote
  <2>4. x.total = TotalWithTax(x) - x.gift - x.points
    BY <1>1, <1>3, <1>4, <1>5, <2>2, <2>3
  <2>5. QED
    BY <1>3, <1>4, <2>2, <2>4 DEF QuoteSoFar
<1>6. CASE q.at = "points"
  <2>1. x = [q EXCEPT !.at = "locked", !.points = taken, !.total = due]
    BY <1>2, <1>3, <1>6
  <2>2. /\ x \in PricedQuote /\ x.at = "locked" /\ x.total = due /\ x.gift = q.gift
        /\ x.points = taken
        /\ x.left = q.left /\ x.loaded = q.loaded /\ x.rate = q.rate
    BY <2>1 DEF PricedQuote, QuoteStages
  <2>3. TotalWithTax(x) = TotalWithTax(q)
    BY <2>1 DEF TotalWithTax, Discount, ShippingDue, PricedQuote
  <2>4. q.gift \in Int
    BY DEF PricedQuote
  <2>5. x.total = TotalWithTax(x) - x.gift - x.points
    BY <1>1, <1>3, <1>4, <2>2, <2>3, <2>4
  <2>6. QED
    BY <1>3, <1>4, <2>2, <2>5 DEF QuoteSoFar
<1>7. QED
  BY <1>5, <1>6

LEMMA QuoteTakes ==
    ASSUME PricingInv, QuoteGift \/ QuotePoints
    PROVE  PricingInv'
<1>1. PICK q \in PricedQuote : q = quote /\ QuoteSoFar(q)
  BY DEF PricingInv
<1>2. CASE QuoteGift /\ ~Step("gift", Refused)
  <2>1. PICK worth \in GiftBalances :
            Step("gift", [quote EXCEPT !.at = "points", !.gift = Min({worth, quote.total}),
                                       !.total = @ - Min({worth, quote.total})])
    BY <1>2 DEF QuoteGift
  <2>2. PICK x : x = [q EXCEPT !.at = "points", !.gift = Min({worth, q.total}),
                               !.total = q.total - Min({worth, q.total})]
    OBVIOUS
  <2>3. quote' = x /\ q.at = "gift" /\ UNCHANGED <<priced, display, shipping>>
    BY <1>1, <2>1, <2>2 DEF Step
  <2>4. worth \in Nat
    BY PricingAssumption
  <2>5. QED
    BY <1>1, <2>2, <2>3, <2>4, Taken, PricedQuoteMoves
<1>3. CASE QuotePoints
  <2>1. PICK worth \in PointsWorth :
            Step("points", [quote EXCEPT !.at = "locked", !.points = Min({worth, quote.total}),
                                         !.total = @ - Min({worth, quote.total})])
    BY <1>3 DEF QuotePoints
  <2>2. PICK x : x = [q EXCEPT !.at = "locked", !.points = Min({worth, q.total}),
                               !.total = q.total - Min({worth, q.total})]
    OBVIOUS
  <2>3. quote' = x /\ q.at = "points" /\ UNCHANGED <<priced, display, shipping>>
    BY <1>1, <2>1, <2>2 DEF Step
  <2>4. worth \in Nat
    BY PricingAssumption
  <2>5. QED
    BY <1>1, <2>2, <2>3, <2>4, Taken, PricedQuoteMoves
<1>4. CASE Step("gift", Refused)
  BY <1>4, QuoteRefused DEF Step
<1>5. QED
  BY <1>2, <1>3, <1>4

\* A step that only chooses the currency, or the rate.
LEMMA Converted ==
    ASSUME NEW q \in PricedQuote, QuoteSoFar(q), q.at \in {"locked", "rate"},
           NEW at \in {"done", "rate"}, NEW currency \in {Base, Foreign},
           NEW rate \in Rates \union {<<1, 1>>}, NEW x,
           x = [q EXCEPT !.at = at, !.currency = currency, !.rate = rate],
           at = "rate" => rate = <<1, 1>> /\ currency # Base,
           currency = Base => rate = <<1, 1>>
    PROVE  x \in PricedQuote /\ QuoteSoFar(x)
<1>1. /\ x \in PricedQuote /\ x.at = at /\ x.total = q.total /\ x.gift = q.gift
      /\ x.points = q.points /\ x.currency = currency
      /\ x.left = q.left /\ x.loaded = q.loaded /\ x.rate = rate
  BY DEF PricedQuote, QuoteStages
<1>2. TotalWithTax(x) = TotalWithTax(q)
  BY DEF TotalWithTax, Discount, ShippingDue, PricedQuote
<1>3. /\ q.total = TotalWithTax(q) - q.gift - q.points /\ q.total >= 0
      /\ \A r \in q.left : q.loaded[r] \in RuleRows
  BY DEF QuoteSoFar
<1>4. x.total = TotalWithTax(x) - x.gift - x.points /\ x.total >= 0
  BY <1>1, <1>2, <1>3
<1>5. QED
  BY <1>1, <1>3, <1>4 DEF QuoteSoFar

LEMMA QuoteConverts ==
    ASSUME PricingInv, QuoteCurrency \/ QuoteRate
    PROVE  PricingInv'
<1>1. PICK q \in PricedQuote : q = quote /\ QuoteSoFar(q)
  BY DEF PricingInv
<1>2. CASE QuoteCurrency
  <2>1. q.at = "locked" /\ display' = DisplayRow /\ UNCHANGED <<priced, shipping>>
    BY <1>1, <1>2 DEF QuoteCurrency
  <2>2. q.rate = <<1, 1>>
    BY <1>1, <2>1 DEF QuoteSoFar
  <2>3. CASE quote' = Refused
    BY <1>1, <2>1, <2>3, QuoteRefused
  <2>4. CASE quote' # Refused
    <3>1. PICK asked \in {"none", Base, Foreign}, code \in {DisplayRow.main, Base, Foreign} :
              /\ code = IF asked = "none" THEN DisplayRow.main ELSE asked
              /\ quote' = IF code \notin DisplayRow.enabled THEN Refused
                          ELSE [quote EXCEPT !.currency = code,
                                             !.at = IF code = Base THEN "done" ELSE "rate"]
      BY <1>2 DEF QuoteCurrency
    <3>2. code \in {Base, Foreign}
      BY <3>1 DEF PricingInv
    <3>3. PICK at \in {"done", "rate"} : at = IF code = Base THEN "done" ELSE "rate"
      OBVIOUS
    <3>4. at = "rate" => code # Base
      BY <3>3
    <3>5. quote' = [q EXCEPT !.currency = code, !.at = at]
      BY <1>1, <2>4, <3>1, <3>3
    <3>6. PICK x : x = [q EXCEPT !.at = at, !.currency = code, !.rate = <<1, 1>>]
      OBVIOUS
    <3>7. quote' = x
      BY <2>2, <3>5, <3>6 DEF PricedQuote
    <3>8. x \in PricedQuote /\ QuoteSoFar(x)
      BY <1>1, <2>1, <3>2, <3>4, <3>6, Converted
    <3>9. QED
      BY <2>1, <3>7, <3>8, PricedQuoteMoves
  <2>5. QED
    BY <2>3, <2>4
<1>3. CASE QuoteRate
  <2>1. CASE Step("rate", Refused)
    BY <2>1, QuoteRefused DEF Step
  <2>2. CASE /\ Entered("rate")
             /\ Step("rate", [quote EXCEPT !.at = "done", !.rate = priced["rate"].rate])
    <3>1. q.at = "rate" /\ UNCHANGED <<priced, display, shipping>>
      BY <1>1, <2>2 DEF Step
    <3>2. PICK rate \in Rates : rate = priced["rate"].rate
      BY <2>2, RowsOfTables DEF PricingInv, Entered, RateRows
    <3>3. q.currency \in {Base, Foreign} /\ q.currency # Base
      BY <1>1, <3>1 DEF PricedQuote, QuoteSoFar
    <3>4. PICK x : x = [q EXCEPT !.at = "done", !.currency = q.currency, !.rate = rate]
      OBVIOUS
    <3>5. quote' = x
      BY <1>1, <2>2, <3>2, <3>4 DEF PricedQuote, Step
    <3>6. x \in PricedQuote /\ QuoteSoFar(x)
      BY <1>1, <3>1, <3>3, <3>4, Converted
    <3>7. QED
      BY <3>1, <3>5, <3>6, PricedQuoteMoves
  <2>3. QED
    BY <1>3, <2>1, <2>2 DEF QuoteRate
<1>4. QED
  BY <1>2, <1>3

LEMMA PricingInitInv ==
    ASSUME PricingInit
    PROVE  PricingInv
<1>1. NoQuote \in PricedQuote
  <2>1. [r \in RuleIds |-> NoRow] \in [RuleIds -> {NoRow} \union RuleRows]
    OBVIOUS
  <2>2. QED
    BY <2>1 DEF NoQuote, PricedQuote, QuoteStages
<1>2. QuoteSoFar(NoQuote)
  BY DEF NoQuote, QuoteSoFar
<1>3. DisplayRow.main \in {Base, Foreign}
  BY DEF PricingInit, DisplayRow
<1>4. QED
  BY <1>1, <1>2, <1>3 DEF PricingInit, PricingInv

LEMMA PricingNextInv ==
    ASSUME PricingInv, [PricingNext]_priceVars
    PROVE  PricingInv'
<1>1. CASE UNCHANGED priceVars
  <2>1. UNCHANGED <<priced, display, shipping, quote>>
    BY <1>1 DEF priceVars
  <2>2. UNCHANGED DisplayRow
    BY <2>1 DEF DisplayRow
  <2>3. QED
    BY <2>1, <2>2, PricedMoves DEF PricingInv
<1>2. CASE PricingNext
  <2>1. CASE \/ PromotionRequest \/ SegmentRequest \/ TaxRequest \/ RateRequest
             \/ DisplayRequest \/ SelectShipping \/ ClearShipping
    BY <2>1, AdministrationStep
  <2>2. CASE QuoteStart
    BY <2>2, QuoteStartStep
  <2>3. CASE QuoteCoupon
    BY <2>3, QuoteCouponStep
  <2>4. CASE QuoteRules
    BY <2>4, QuoteRulesStep
  <2>5. CASE QuoteEachRule
    BY <2>5, QuoteEachRuleStep
  <2>6. CASE QuoteTax
    BY <2>6, QuoteTaxStep
  <2>7. CASE QuoteGift \/ QuotePoints
    BY <2>7, QuoteTakes
  <2>8. CASE QuoteCurrency \/ QuoteRate
    BY <2>8, QuoteConverts
  <2>9. QED
    BY <1>2, <2>1, <2>2, <2>3, <2>4, <2>5, <2>6, <2>7, <2>8 DEF PricingNext
<1>3. QED
  BY <1>1, <1>2

(***************************************************************************)
(* Whatever is edited between the steps of a quote, the amounts            *)
(* CheckoutService.prepare answers with add up to its total, which is      *)
(* never negative, and the converted amounts explain the converted total   *)
(* up to half a unit for each amount convertTotals rounds, whatever the    *)
(* rate and the amounts are.                                               *)
(***************************************************************************)
THEOREM QuotesAreExplained == PricingSpec => []QuotesAddUp
<1>1. PricingInit => PricingInv
  BY PricingInitInv
<1>2. PricingInv /\ [PricingNext]_priceVars => PricingInv'
  BY PricingNextInv
<1>3. PricingInv => QuotesAddUp
  BY FinishedQuotesAddUp
<1>4. QED
  BY <1>1, <1>2, <1>3, PTL DEF PricingSpec
-----------------------------------------------------------------------------
(***************************************************************************)
(* Downloads, licences and gift cards                                      *)
(***************************************************************************)

GrantCallRow ==
    {IdleGrant} \union
    [at : {"next"}, left : SUBSET DigitalLines] \union
    [at : {"licences"}, left : SUBSET DigitalLines, line : DigitalLines,
     found : BOOLEAN] \union
    [at : {"tokens", "keys"}, left : SUBSET DigitalLines, line : DigitalLines] \union
    [at : {"card", "entry"}, card : GiftCards, order : GiftOrders]

\* Calls that have saved the tokens of line l and not yet its licences.
Owing(l) == {k \in GrantCalls : grantCall[k].at = "keys" /\ grantCall[k].line = l}

\* What is still owed keeps the licences behind the tokens.
LicencesOwed ==
    \A l \in DigitalLines :
        /\ IsFiniteSet(Owing(l))
        /\ licences[l] + UnitsOf[l] * Cardinality(Owing(l)) <= tokens[l]

\* While nobody has raced for line l, at most one call is issuing it, and the
\* tokens are there exactly if that call has saved them.
OneIssues ==
    \A l \in DigitalLines \ raced :
        /\ tokens[l] \in {0, UnitsOf[l]}
        /\ \A j, k \in Issuing(l) : j = k
        /\ \A k \in Issuing(l) : grantCall[k].at = "keys" <=> tokens[l] # 0

DigitalInv ==
    /\ tokens \in [DigitalLines -> Nat]
    /\ licences \in [DigitalLines -> Nat]
    /\ LicencesOwed
    /\ OneIssues

CardRow == [at : {"row"}, initial : Nat, balance : Nat, status : {"active", "redeemed"},
            order : GiftOrders \union {"none"}]
EntriesRow == [type : {"none", "issue", "purchase"}, order : GiftOrders \union {"none"},
               opening : Nat, redeemed : Nat]

Buying(k, g) == grantCall[k].at \in {"card", "entry"} /\ grantCall[k].card = g

\* A card is bought by one call, which has issued it and gives it its order first.
OneBuys ==
    \A g \in GiftCards :
        /\ \A j, k \in GrantCalls : Buying(j, g) /\ Buying(k, g) => j = k
        /\ \A k \in GrantCalls : Buying(k, g) =>
               /\ card[g] # NoCard
               /\ grantCall[k].at = "card" => ledger[g].type # "purchase"
               /\ grantCall[k].at = "entry" => card[g].order = grantCall[k].order

GiftInv ==
    /\ card \in [GiftCards -> {NoCard} \union CardRow]
    /\ ledger \in [GiftCards -> EntriesRow]
    /\ OneBuys
    /\ LedgerExplainsCards

GrantsInv ==
    /\ grantCall \in [GrantCalls -> GrantCallRow]
    /\ DigitalInv
    /\ GiftInv

LEMMA TimesFacts ==
    /\ \A u, n \in Nat : u * n \in Nat /\ u * (n + 1) = u * n + u
    /\ \A u, m, n \in Nat : m <= n => u * m <= u * n
<1>1. \A u, n \in Nat : u * n \in Nat /\ u * (n + 1) = u * n + u
  OBVIOUS
<1>2. ASSUME NEW u \in Nat, NEW m \in Nat, NEW n \in Nat, m <= n
      PROVE  u * m <= u * n
  <2>1. PICK d \in Nat : n = m + d
    <3>1. n - m \in Nat /\ n = m + (n - m)
      BY <1>2
    <3>2. QED
      BY <3>1
  <2>2. u * (m + d) = u * m + u * d /\ u * d \in Nat /\ u * m \in Nat
    OBVIOUS
  <2>3. QED
    BY <2>1, <2>2
<1>3. QED
  BY <1>1, <1>2

\* A call that is not idle has a card and an order, or a line and what is left.
LEMMA GrantCallFields ==
    ASSUME NEW x \in GrantCallRow
    PROVE  /\ x # IdleGrant => x.at \in {"next", "licences", "tokens", "keys", "card", "entry"}
           /\ x.at \in {"next", "licences", "tokens", "keys"} =>
                  x.left \in SUBSET DigitalLines
           /\ x.at \in {"licences", "tokens", "keys"} => x.line \in DigitalLines
           /\ x.at \in {"tokens", "keys"} =>
                  x = [at |-> x.at, left |-> x.left, line |-> x.line]
           /\ x.at = "licences" => x.found \in BOOLEAN
           /\ x.at \in {"card", "entry"} =>
                  /\ x.card \in GiftCards /\ x.order \in GiftOrders
                  /\ x = [at |-> x.at, card |-> x.card, order |-> x.order]
  BY DEF GrantCallRow, IdleGrant

IssuesIt(x, l) ==
    /\ x.at \in {"licences", "tokens", "keys"}
    /\ x.line = l /\ (x.at = "licences" => ~x.found)
OwesIt(x, l) == x.at = "keys" /\ x.line = l
BuysIt(x, g) == x.at \in {"card", "entry"} /\ x.card = g

LEMMA GrantCallMoves ==
    ASSUME GrantsInv, NEW k \in GrantCalls, NEW x \in GrantCallRow, GoGrant(k, x)
    PROVE  /\ grantCall' \in [GrantCalls -> GrantCallRow]
           /\ grantCall'[k] = x
           /\ \A j \in GrantCalls \ {k} : grantCall'[j] = grantCall[j]
           /\ \A l : /\ Issuing(l)' = {j \in Issuing(l) : j # k} \union
                                       {j \in {k} : IssuesIt(x, l)}
                     /\ Owing(l)' = {j \in Owing(l) : j # k} \union
                                     {j \in {k} : OwesIt(x, l)}
           /\ \A g : /\ \A j \in GrantCalls \ {k} : Buying(j, g)' <=> Buying(j, g)
                     /\ Buying(k, g)' <=> BuysIt(x, g)
<1>1. /\ grantCall' \in [GrantCalls -> GrantCallRow]
      /\ grantCall'[k] = x
      /\ \A j \in GrantCalls \ {k} : grantCall'[j] = grantCall[j]
  BY DEF GrantsInv, GoGrant
<1>2. ASSUME NEW l
      PROVE  /\ Issuing(l)' = {j \in Issuing(l) : j # k} \union
                               {j \in {k} : IssuesIt(x, l)}
             /\ Owing(l)' = {j \in Owing(l) : j # k} \union
                             {j \in {k} : OwesIt(x, l)}
  BY <1>1 DEF Issuing, Owing, IssuesIt, OwesIt
<1>3. ASSUME NEW g
      PROVE  /\ \A j \in GrantCalls \ {k} : Buying(j, g)' <=> Buying(j, g)
             /\ Buying(k, g)' <=> BuysIt(x, g)
  BY <1>1 DEF Buying, BuysIt
<1>4. QED
  BY <1>1, <1>2, <1>3

\* Fewer licences are owed for as many tokens.
LEMMA FewerOwing ==
    ASSUME GrantsInv, NEW l \in DigitalLines, Owing(l)' \subseteq Owing(l),
           licences'[l] = licences[l], tokens'[l] = tokens[l]
    PROVE  /\ IsFiniteSet(Owing(l)')
           /\ licences'[l] + UnitsOf[l] * Cardinality(Owing(l)') <= tokens'[l]
<1>1. /\ IsFiniteSet(Owing(l))
      /\ licences[l] + UnitsOf[l] * Cardinality(Owing(l)) <= tokens[l]
  BY DEF GrantsInv, DigitalInv, LicencesOwed
<1>2. PICK m, n : m = Cardinality(Owing(l)') /\ n = Cardinality(Owing(l))
  OBVIOUS
<1>3. IsFiniteSet(Owing(l)') /\ m \in Nat /\ n \in Nat /\ m <= n
  BY <1>1, <1>2, FS_Subset, FS_CardinalityType
<1>4. UnitsOf[l] \in Nat /\ licences[l] \in Nat /\ tokens[l] \in Nat
  BY GrantsAssumption DEF GrantsInv, DigitalInv
<1>5. PICK a, b \in Nat : a = UnitsOf[l] * m /\ b = UnitsOf[l] * n /\ a <= b
  BY <1>3, <1>4, TimesFacts
<1>6. licences[l] + a <= tokens[l]
  BY <1>1, <1>2, <1>4, <1>5
<1>7. QED
  BY <1>2, <1>3, <1>5, <1>6

LEMMA OwedStill ==
    ASSUME GrantsInv, \A l : Owing(l)' \subseteq Owing(l),
           UNCHANGED <<tokens, licences>>
    PROVE  LicencesOwed'
  BY FewerOwing DEF LicencesOwed

\* A call that goes where it issues nothing leaves the lines in order.
LEMMA DigitalQuiet ==
    ASSUME GrantsInv, NEW k \in GrantCalls, NEW x \in GrantCallRow, GoGrant(k, x),
           UNCHANGED <<tokens, licences>>, raced \subseteq raced',
           \A l : ~OwesIt(x, l),
           \A l \in DigitalLines \ raced' : ~IssuesIt(x, l)
    PROVE  DigitalInv'
<1>1. /\ \A j \in GrantCalls \ {k} : grantCall'[j] = grantCall[j]
      /\ \A l : Owing(l)' \subseteq Owing(l)
      /\ \A l \in DigitalLines \ raced' : Issuing(l)' \subseteq Issuing(l) \ {k}
  BY GrantCallMoves
<1>2. LicencesOwed'
  BY <1>1, OwedStill
<1>3. OneIssues'
  BY <1>1 DEF GrantsInv, DigitalInv, OneIssues, Issuing
<1>4. QED
  BY <1>2, <1>3 DEF GrantsInv, DigitalInv

\* A call that leaves the cards alone, and is buying none.
LEMMA GiftQuiet ==
    ASSUME GrantsInv, NEW k \in GrantCalls, NEW x \in GrantCallRow, GoGrant(k, x),
           UNCHANGED giftVars, x.at \notin {"card", "entry"}
    PROVE  GiftInv'
<1>1. UNCHANGED <<card, ledger>>
  BY DEF giftVars
<1>2. \A g : \A j \in GrantCalls : Buying(j, g)' => Buying(j, g) /\ j # k
  BY GrantCallMoves DEF BuysIt
<1>3. \A j \in GrantCalls \ {k} : grantCall'[j] = grantCall[j]
  BY GrantCallMoves
<1>4. OneBuys'
  BY <1>1, <1>2, <1>3 DEF GrantsInv, GiftInv, OneBuys
<1>5. LedgerExplainsCards'
  BY <1>1 DEF GrantsInv, GiftInv, LedgerExplainsCards
<1>6. QED
  BY <1>1, <1>4, <1>5 DEF GrantsInv, GiftInv

LEMMA FindTokensStep ==
    ASSUME GrantsInv, NEW k \in GrantCalls, FindTokens(k)
    PROVE  GrantsInv'
<1>1. PICK call \in GrantCallRow : call = grantCall[k]
  BY DEF GrantsInv
<1>2. call.at = "next" /\ call.left \in SUBSET DigitalLines
  BY <1>1, GrantCallFields DEF FindTokens
<1>3. CASE call.left = {} /\ GoGrant(k, IdleGrant) /\ UNCHANGED raced
  <2>1. PICK x \in GrantCallRow : x = IdleGrant
    BY DEF GrantCallRow
  <2>2. \A l : ~OwesIt(x, l) /\ ~IssuesIt(x, l)
    BY <2>1 DEF IdleGrant, OwesIt, IssuesIt
  <2>3. DigitalInv' /\ GiftInv'
    BY <1>3, <2>1, <2>2, DigitalQuiet, GiftQuiet DEF FindTokens, IdleGrant
  <2>4. QED
    BY <1>3, <2>1, <2>3, GrantCallMoves DEF GrantsInv
<1>4. ASSUME NEW l \in call.left,
             GoGrant(k, [at |-> "licences", left |-> call.left \ {l}, line |-> l,
                         found |-> tokens[l] > 0]),
             raced' = IF tokens[l] = 0 /\ Issuing(l) # {} THEN raced \cup {l} ELSE raced
      PROVE  GrantsInv'
  <2>1. PICK x : x = [at |-> "licences", left |-> call.left \ {l}, line |-> l,
                      found |-> tokens[l] > 0]
    OBVIOUS
  <2>2. l \in DigitalLines /\ x \in GrantCallRow /\ GoGrant(k, x)
    BY <1>2, <1>4, <2>1 DEF GrantCallRow
  <2>3. /\ UNCHANGED <<tokens, licences, giftVars>>
        /\ x.at = "licences" /\ x.line = l
        /\ (tokens[l] > 0 => x.found)
    BY <2>1 DEF FindTokens
  <2>4. tokens[l] \in Nat /\ \A m : ~OwesIt(x, m)
    BY <2>2, <2>3 DEF GrantsInv, DigitalInv, OwesIt
  <2>5. GiftInv'
    BY <2>2, <2>3, GiftQuiet
  <2>6. DigitalInv'
    <3>1. CASE tokens[l] # 0 \/ Issuing(l) # {}
      <4>1. \A m \in DigitalLines \ raced' : ~IssuesIt(x, m)
        <5>1. tokens[l] = 0 => l \in raced'
          BY <1>4, <3>1
        <5>2. tokens[l] # 0 => x.found
          BY <2>3, <2>4
        <5>3. QED
          BY <2>3, <5>1, <5>2 DEF IssuesIt
      <4>2. QED
        BY <1>4, <2>2, <2>3, <2>4, <4>1, DigitalQuiet
    <3>2. CASE tokens[l] = 0 /\ Issuing(l) = {}
      <4>1. \A m : Owing(m)' \subseteq Owing(m)
        BY <2>2, <2>4, GrantCallMoves
      <4>2. /\ \A m \in DigitalLines \ {l} : Issuing(m)' \subseteq Issuing(m) \ {k}
            /\ Issuing(l)' \subseteq {k}
            /\ \A j \in GrantCalls \ {k} : grantCall'[j] = grantCall[j]
            /\ grantCall'[k] = x
        BY <2>2, <2>3, <3>2, GrantCallMoves DEF IssuesIt
      <4>3. OneIssues'
        BY <1>4, <2>3, <3>2, <4>2 DEF GrantsInv, DigitalInv, OneIssues, Issuing
      <4>4. LicencesOwed'
        BY <2>2, <2>3, <4>1, OwedStill
      <4>5. QED
        BY <2>3, <4>3, <4>4 DEF GrantsInv, DigitalInv
    <3>3. QED
      BY <3>1, <3>2
  <2>7. QED
    BY <2>2, <2>5, <2>6, GrantCallMoves DEF GrantsInv
<1>5. QED
  BY <1>1, <1>3, <1>4 DEF FindTokens

LEMMA FindLicencesStep ==
    ASSUME GrantsInv, NEW k \in GrantCalls, FindLicences(k)
    PROVE  GrantsInv'
<1>1. PICK call \in GrantCallRow : call = grantCall[k]
  BY DEF GrantsInv
<1>2. /\ call.at = "licences" /\ call.left \in SUBSET DigitalLines
      /\ call.line \in DigitalLines
      /\ UNCHANGED <<tokens, licences, raced, giftVars>>
  BY <1>1, GrantCallFields DEF FindLicences, digitalVars
<1>3. CASE call.found \/ licences[call.line] > 0
  <2>1. PICK x : x = [at |-> "next", left |-> call.left]
    OBVIOUS
  <2>2. x \in GrantCallRow /\ GoGrant(k, x)
    BY <1>1, <1>2, <1>3, <2>1 DEF GrantCallRow, FindLicences
  <2>3. \A l : ~OwesIt(x, l) /\ ~IssuesIt(x, l)
    BY <2>1 DEF OwesIt, IssuesIt
  <2>4. DigitalInv' /\ GiftInv'
    BY <1>2, <2>1, <2>2, <2>3, DigitalQuiet, GiftQuiet
  <2>5. QED
    BY <2>2, <2>4, GrantCallMoves DEF GrantsInv
<1>4. CASE ~(call.found \/ licences[call.line] > 0)
  <2>1. PICK x : x = [at |-> "tokens", left |-> call.left, line |-> call.line]
    OBVIOUS
  <2>2. x \in GrantCallRow /\ GoGrant(k, x)
    BY <1>1, <1>2, <1>4, <2>1 DEF GrantCallRow, FindLicences
  <2>3. \A l : ~OwesIt(x, l) /\ (IssuesIt(x, l) => k \in Issuing(l))
    BY <1>1, <1>2, <1>4, <2>1 DEF OwesIt, IssuesIt, Issuing
  <2>4. /\ \A l : Issuing(l)' \subseteq Issuing(l) /\ Owing(l)' \subseteq Owing(l)
        /\ \A j \in GrantCalls \ {k} : grantCall'[j] = grantCall[j]
        /\ grantCall'[k] = x
    BY <2>2, <2>3, GrantCallMoves
  <2>5. \A j \in GrantCalls : grantCall'[j].at = "keys" <=> grantCall[j].at = "keys"
    BY <1>1, <1>2, <2>1, <2>4
  <2>6. OneIssues'
    BY <1>2, <2>4, <2>5 DEF GrantsInv, DigitalInv, OneIssues, Issuing
  <2>7. LicencesOwed'
    BY <1>2, <2>2, <2>4, OwedStill
  <2>8. DigitalInv' /\ GiftInv'
    BY <1>2, <2>1, <2>2, <2>6, <2>7, GiftQuiet DEF GrantsInv, DigitalInv
  <2>9. QED
    BY <2>2, <2>8, GrantCallMoves DEF GrantsInv
<1>5. QED
  BY <1>3, <1>4

LEMMA SaveTokensStep ==
    ASSUME GrantsInv, NEW k \in GrantCalls, SaveTokens(k)
    PROVE  GrantsInv'
<1>1. PICK call \in GrantCallRow : call = grantCall[k]
  BY DEF GrantsInv
<1>2. PICK l \in DigitalLines : l = call.line
  BY <1>1, GrantCallFields DEF SaveTokens
<1>3. PICK x : x = [at |-> "keys", left |-> call.left, line |-> l]
  OBVIOUS
<1>4. call.at = "tokens" /\ call.left \in SUBSET DigitalLines
  BY <1>1, GrantCallFields DEF SaveTokens
<1>5. x = [call EXCEPT !.at = "keys"] /\ x \in GrantCallRow
  BY <1>2, <1>3, <1>4, GrantCallFields DEF GrantCallRow
<1>6. PICK u \in Nat \ {0} : u = UnitsOf[l]
  BY GrantsAssumption
<1>7. /\ GoGrant(k, x)
      /\ tokens' = [tokens EXCEPT ![l] = tokens[l] + u]
      /\ UNCHANGED <<licences, raced, giftVars>>
  BY <1>1, <1>2, <1>5, <1>6 DEF SaveTokens
<1>8. /\ tokens \in [DigitalLines -> Nat] /\ licences \in [DigitalLines -> Nat]
      /\ tokens' \in [DigitalLines -> Nat]
      /\ tokens'[l] = tokens[l] + u
      /\ \A m \in DigitalLines \ {l} : tokens'[m] = tokens[m]
  BY <1>6, <1>7 DEF GrantsInv, DigitalInv
<1>9. \A m : (OwesIt(x, m) <=> m = l) /\ (IssuesIt(x, m) <=> m = l)
  BY <1>3 DEF OwesIt, IssuesIt
<1>10. k \in Issuing(l) /\ k \notin Owing(l)
  BY <1>1, <1>2, <1>4 DEF Issuing, Owing
<1>11. /\ Owing(l)' = Owing(l) \union {k}
       /\ \A m \in DigitalLines \ {l} : Owing(m)' \subseteq Owing(m)
       /\ \A m : Issuing(m)' \subseteq Issuing(m)
       /\ \A m \in DigitalLines \ {l} : k \notin Issuing(m)'
       /\ \A j \in GrantCalls \ {k} : grantCall'[j] = grantCall[j]
       /\ grantCall'[k] = x
  BY <1>5, <1>7, <1>9, <1>10, GrantCallMoves
<1>12. LicencesOwed'
  <2>1. IsFiniteSet(Owing(l)) /\ licences[l] + u * Cardinality(Owing(l)) <= tokens[l]
    BY <1>6 DEF GrantsInv, DigitalInv, LicencesOwed
  <2>2. PICK n \in Nat : n = Cardinality(Owing(l))
    BY <2>1, FS_CardinalityType
  <2>3. IsFiniteSet(Owing(l)') /\ Cardinality(Owing(l)') = n + 1
    BY <1>10, <1>11, <2>1, <2>2, FS_AddElement
  <2>4. u * n \in Nat /\ u * (n + 1) = u * n + u
    BY TimesFacts
  <2>5. licences'[l] + u * (n + 1) <= tokens'[l]
    BY <1>7, <1>8, <2>1, <2>2, <2>4
  <2>6. ASSUME NEW m \in DigitalLines \ {l}
        PROVE  /\ IsFiniteSet(Owing(m)')
               /\ licences'[m] + UnitsOf[m] * Cardinality(Owing(m)') <= tokens'[m]
    BY <1>7, <1>8, <1>11, FewerOwing
  <2>7. QED
    BY <1>6, <2>3, <2>5, <2>6 DEF LicencesOwed
<1>13. OneIssues'
  <2> SUFFICES ASSUME NEW m \in DigitalLines \ raced
               PROVE  /\ tokens'[m] \in {0, UnitsOf[m]}
                      /\ \A i, j \in Issuing(m)' : i = j
                      /\ \A j \in Issuing(m)' : grantCall'[j].at = "keys" <=> tokens'[m] # 0
    BY <1>7 DEF OneIssues
  <2>1. /\ tokens[m] \in {0, UnitsOf[m]}
        /\ \A i, j \in Issuing(m) : i = j
        /\ \A j \in Issuing(m) : grantCall[j].at = "keys" <=> tokens[m] # 0
    BY DEF GrantsInv, DigitalInv, OneIssues
  <2>2. CASE m = l
    <3>1. tokens[l] = 0
      BY <1>1, <1>4, <1>10, <2>1, <2>2
    <3>2. tokens'[l] = u
      BY <1>6, <1>8, <3>1
    <3>3. \A j \in Issuing(l)' : j = k
      BY <1>10, <1>11, <2>1, <2>2
    <3>4. QED
      BY <1>3, <1>6, <1>11, <2>2, <3>2, <3>3
  <2>3. CASE m # l
    <3>1. tokens'[m] = tokens[m] /\ Issuing(m)' \subseteq Issuing(m) \ {k}
      BY <1>8, <1>11, <2>3
    <3>2. QED
      BY <1>11, <2>1, <3>1 DEF Issuing
  <2>4. QED
    BY <2>2, <2>3
<1>14. GiftInv'
  BY <1>3, <1>5, <1>7, GiftQuiet
<1>15. QED
  BY <1>5, <1>7, <1>8, <1>12, <1>13, <1>14, GrantCallMoves DEF GrantsInv, DigitalInv

LEMMA SaveLicencesStep ==
    ASSUME GrantsInv, NEW k \in GrantCalls, SaveLicences(k)
    PROVE  GrantsInv'
<1>1. PICK call \in GrantCallRow : call = grantCall[k]
  BY DEF GrantsInv
<1>2. PICK l \in DigitalLines : l = call.line
  BY <1>1, GrantCallFields DEF SaveLicences
<1>3. PICK x : x = [at |-> "next", left |-> call.left]
  OBVIOUS
<1>4. call.at = "keys" /\ call.left \in SUBSET DigitalLines
  BY <1>1, GrantCallFields DEF SaveLicences
<1>5. x \in GrantCallRow
  BY <1>3, <1>4 DEF GrantCallRow
<1>6. PICK u \in Nat \ {0} : u = UnitsOf[l]
  BY GrantsAssumption
<1>7. /\ GoGrant(k, x)
      /\ licences' = [licences EXCEPT ![l] = licences[l] + u]
      /\ UNCHANGED <<tokens, raced, giftVars>>
  BY <1>1, <1>2, <1>3, <1>6 DEF SaveLicences
<1>8. /\ tokens \in [DigitalLines -> Nat] /\ licences \in [DigitalLines -> Nat]
      /\ licences' \in [DigitalLines -> Nat]
      /\ licences'[l] = licences[l] + u
      /\ \A m \in DigitalLines \ {l} : licences'[m] = licences[m]
  BY <1>6, <1>7 DEF GrantsInv, DigitalInv
<1>9. \A m : ~OwesIt(x, m) /\ ~IssuesIt(x, m)
  BY <1>3 DEF OwesIt, IssuesIt
<1>10. k \in Owing(l)
  BY <1>1, <1>2, <1>4 DEF Owing
<1>11. /\ Owing(l)' = Owing(l) \ {k}
       /\ \A m \in DigitalLines \ {l} : Owing(m)' \subseteq Owing(m)
       /\ \A m : Issuing(m)' \subseteq Issuing(m) \ {k}
       /\ \A j \in GrantCalls \ {k} : grantCall'[j] = grantCall[j]
  BY <1>5, <1>7, <1>9, GrantCallMoves
<1>12. LicencesOwed'
  <2>1. IsFiniteSet(Owing(l)) /\ licences[l] + u * Cardinality(Owing(l)) <= tokens[l]
    BY <1>6 DEF GrantsInv, DigitalInv, LicencesOwed
  <2>2. /\ IsFiniteSet(Owing(l)')
        /\ Cardinality(Owing(l)') = Cardinality(Owing(l)) - 1
    BY <1>10, <1>11, <2>1, FS_RemoveElement
  <2>3. PICK n \in Nat : n = Cardinality(Owing(l)') /\ Cardinality(Owing(l)) = n + 1
    BY <2>1, <2>2, FS_CardinalityType
  <2>4. u * n \in Nat /\ u * (n + 1) = u * n + u
    BY TimesFacts
  <2>5. licences[l] + (u * n + u) <= tokens[l]
    BY <2>1, <2>3, <2>4
  <2>6. licences'[l] + u * n <= tokens'[l]
    BY <1>7, <1>8, <2>4, <2>5
  <2>7. ASSUME NEW m \in DigitalLines \ {l}
        PROVE  /\ IsFiniteSet(Owing(m)')
               /\ licences'[m] + UnitsOf[m] * Cardinality(Owing(m)') <= tokens'[m]
    BY <1>7, <1>8, <1>11, FewerOwing
  <2>8. QED
    BY <1>6, <2>2, <2>3, <2>6, <2>7 DEF LicencesOwed
<1>13. OneIssues'
  BY <1>7, <1>11 DEF GrantsInv, DigitalInv, OneIssues, Issuing
<1>14. GiftInv'
  BY <1>3, <1>5, <1>7, GiftQuiet
<1>15. QED
  BY <1>5, <1>7, <1>8, <1>12, <1>13, <1>14, GrantCallMoves DEF GrantsInv, DigitalInv

\* A call that begins on the lines, or dies.
LEMMA IssueForOrderStep ==
    ASSUME GrantsInv, NEW k \in GrantCalls, IssueForOrder(k) \/ GrantDies(k)
    PROVE  GrantsInv'
<1>1. PICK x : x = IF IssueForOrder(k) THEN [at |-> "next", left |-> DigitalLines]
                                       ELSE IdleGrant
  OBVIOUS
<1>2. /\ GoGrant(k, x) /\ x \in GrantCallRow
      /\ UNCHANGED <<tokens, licences, raced, giftVars>>
  BY <1>1 DEF IssueForOrder, GrantDies, BeginGrant, GrantCallRow, digitalVars
<1>3. /\ x.at \notin {"card", "entry"}
      /\ \A m : ~OwesIt(x, m) /\ ~IssuesIt(x, m)
  BY <1>1 DEF OwesIt, IssuesIt, IdleGrant
<1>4. DigitalInv' /\ GiftInv'
  BY <1>2, <1>3, DigitalQuiet, GiftQuiet
<1>5. QED
  BY <1>2, <1>4, GrantCallMoves DEF GrantsInv

\* An issued card is new: nobody is buying it.
LEMMA IssueFacts ==
    ASSUME GrantsInv, NEW g \in GiftCards, NEW amount \in 1 .. MaxBalance, Issue(g, amount)
    PROVE  /\ card' \in [GiftCards -> {NoCard} \union CardRow]
           /\ ledger' \in [GiftCards -> EntriesRow]
           /\ card'[g] # NoCard /\ ledger'[g].type # "purchase"
           /\ card'[g].balance = ledger'[g].opening - ledger'[g].redeemed
           /\ card'[g].status = StatusForBalance(card'[g].balance)
           /\ \A h \in GiftCards \ {g} : card'[h] = card[h] /\ ledger'[h] = ledger[h]
           /\ \A j \in GrantCalls : ~Buying(j, g)
<1>1. PICK row, entries :
          /\ row = [at |-> "row", initial |-> amount, balance |-> amount,
                    status |-> "active", order |-> "none"]
          /\ entries = [type |-> "issue", order |-> "none", opening |-> amount,
                        redeemed |-> 0]
  OBVIOUS
<1>2. row \in CardRow /\ entries \in EntriesRow
  BY <1>1 DEF CardRow, EntriesRow
<1>3. card' = [card EXCEPT ![g] = row] /\ ledger' = [ledger EXCEPT ![g] = entries]
  BY <1>1 DEF Issue
<1>4. amount \in Nat /\ amount # 0 /\ row # NoCard
  BY <1>1, GrantsAssumption DEF NoCard
<1>5. /\ card' \in [GiftCards -> {NoCard} \union CardRow]
      /\ ledger' \in [GiftCards -> EntriesRow]
      /\ card'[g] = row /\ ledger'[g] = entries
      /\ \A h \in GiftCards \ {g} : card'[h] = card[h] /\ ledger'[h] = ledger[h]
  BY <1>2, <1>3 DEF GrantsInv, GiftInv
<1>6. row.balance = entries.opening - entries.redeemed
  BY <1>1, <1>4
<1>7. row.status = StatusForBalance(row.balance) /\ entries.type # "purchase"
  BY <1>1, <1>4 DEF StatusForBalance
<1>8. \A j \in GrantCalls : ~Buying(j, g)
  BY DEF GrantsInv, GiftInv, OneBuys, Issue
<1>9. QED
  BY <1>4, <1>5, <1>6, <1>7, <1>8

\* issue and purchase.
LEMMA IssueStep ==
    ASSUME GrantsInv, NEW k \in GrantCalls, IssueCard(k) \/ Purchase(k)
    PROVE  GrantsInv'
<1>1. PICK g \in GiftCards, amount \in 1 .. MaxBalance, x \in GrantCallRow :
          /\ Issue(g, amount) /\ grantCall[k] = IdleGrant
          /\ GoGrant(k, x)
          /\ x = IdleGrant \/ \E o \in GiftOrders : x = [at |-> "card", card |-> g, order |-> o]
  BY DEF IssueCard, Purchase, BeginGrant, GrantCallRow
<1>2. UNCHANGED <<tokens, licences, raced>>
  BY DEF IssueCard, Purchase, digitalVars
<1>3. /\ \A l : ~OwesIt(x, l) /\ ~IssuesIt(x, l)
      /\ \A h : BuysIt(x, h) => h = g
      /\ x.at # "entry"
  BY <1>1 DEF OwesIt, IssuesIt, BuysIt, IdleGrant
<1>4. DigitalInv'
  BY <1>1, <1>2, <1>3, DigitalQuiet
<1>5. /\ card' \in [GiftCards -> {NoCard} \union CardRow]
      /\ ledger' \in [GiftCards -> EntriesRow]
      /\ card'[g] # NoCard /\ ledger'[g].type # "purchase"
      /\ card'[g].balance = ledger'[g].opening - ledger'[g].redeemed
      /\ card'[g].status = StatusForBalance(card'[g].balance)
      /\ \A h \in GiftCards \ {g} : card'[h] = card[h] /\ ledger'[h] = ledger[h]
      /\ \A j \in GrantCalls : ~Buying(j, g)
  BY <1>1, IssueFacts
<1>6. /\ \A h : \A j \in GrantCalls \ {k} : Buying(j, h)' <=> Buying(j, h)
      /\ \A h : Buying(k, h)' => h = g
      /\ \A j \in GrantCalls \ {k} : grantCall'[j] = grantCall[j]
      /\ grantCall'[k] = x
  BY <1>1, <1>3, GrantCallMoves
<1>7. OneBuys'
  <2> SUFFICES ASSUME NEW h \in GiftCards
               PROVE  /\ \A i, j \in GrantCalls : Buying(i, h)' /\ Buying(j, h)' => i = j
                      /\ \A j \in GrantCalls : Buying(j, h)' =>
                             /\ card'[h] # NoCard
                             /\ grantCall'[j].at = "card" => ledger'[h].type # "purchase"
                             /\ grantCall'[j].at = "entry" =>
                                    card'[h].order = grantCall'[j].order
    BY DEF OneBuys
  <2>1. CASE h = g
    <3>1. \A j \in GrantCalls : Buying(j, g)' => j = k
      BY <1>5, <1>6
    <3>2. QED
      BY <1>3, <1>5, <1>6, <2>1, <3>1
  <2>2. CASE h # g
    BY <1>5, <1>6, <2>2 DEF GrantsInv, GiftInv, OneBuys
  <2>3. QED
    BY <2>1, <2>2
<1>8. LedgerExplainsCards'
  BY <1>5 DEF GrantsInv, GiftInv, LedgerExplainsCards, StatusForBalance
<1>9. QED
  BY <1>1, <1>4, <1>5, <1>7, <1>8, GrantCallMoves DEF GrantsInv, GiftInv

\* A step that changes nothing of a card that is bought or of its entries but
\* what the call that buys it says.
LEMMA PurchaseCardStep ==
    ASSUME GrantsInv, NEW k \in GrantCalls, PurchaseCard(k)
    PROVE  GrantsInv'
<1>1. PICK call \in GrantCallRow : call = grantCall[k]
  BY DEF GrantsInv
<1>2. PICK g \in GiftCards, o \in GiftOrders : g = call.card /\ o = call.order
  BY <1>1, GrantCallFields DEF PurchaseCard
<1>3. PICK x : x = [at |-> "entry", card |-> g, order |-> o]
  OBVIOUS
<1>4. call.at = "card" /\ x = [call EXCEPT !.at = "entry"] /\ x \in GrantCallRow
  BY <1>1, <1>2, <1>3, GrantCallFields DEF PurchaseCard, GrantCallRow
<1>5. Buying(k, g)
  BY <1>1, <1>2, <1>4 DEF Buying
<1>6. /\ card[g] \in CardRow /\ ledger[g].type # "purchase"
      /\ \A j \in GrantCalls : Buying(j, g) => j = k
  BY <1>1, <1>4, <1>5 DEF GrantsInv, GiftInv, OneBuys
<1>7. PICK row \in CardRow : row = [card[g] EXCEPT !.order = o]
  BY <1>6 DEF CardRow
<1>8. /\ GoGrant(k, x) /\ card' = [card EXCEPT ![g] = row]
      /\ UNCHANGED <<tokens, licences, raced, ledger>>
  BY <1>1, <1>2, <1>4, <1>7 DEF PurchaseCard, digitalVars
<1>9. /\ card' \in [GiftCards -> {NoCard} \union CardRow]
      /\ card'[g] = row
      /\ \A h \in GiftCards \ {g} : card'[h] = card[h]
  BY <1>8 DEF GrantsInv, GiftInv
<1>10. /\ row.balance = card[g].balance /\ row.status = card[g].status
       /\ row.order = o /\ row # NoCard /\ card[g] # NoCard
  BY <1>6, <1>7 DEF CardRow, NoCard
<1>11. \A l : ~OwesIt(x, l) /\ ~IssuesIt(x, l)
  BY <1>3 DEF OwesIt, IssuesIt
<1>12. DigitalInv'
  BY <1>4, <1>8, <1>11, DigitalQuiet
<1>13. /\ \A h : \A j \in GrantCalls \ {k} : Buying(j, h)' <=> Buying(j, h)
       /\ \A h : Buying(k, h)' <=> h = g
       /\ \A j \in GrantCalls \ {k} : grantCall'[j] = grantCall[j]
       /\ grantCall'[k] = x
  BY <1>3, <1>4, <1>8, GrantCallMoves DEF BuysIt
<1>14. OneBuys'
  <2> SUFFICES ASSUME NEW h \in GiftCards
               PROVE  /\ \A i, j \in GrantCalls : Buying(i, h)' /\ Buying(j, h)' => i = j
                      /\ \A j \in GrantCalls : Buying(j, h)' =>
                             /\ card'[h] # NoCard
                             /\ grantCall'[j].at = "card" => ledger'[h].type # "purchase"
                             /\ grantCall'[j].at = "entry" =>
                                    card'[h].order = grantCall'[j].order
    BY DEF OneBuys
  <2>1. CASE h = g
    <3>1. \A j \in GrantCalls : Buying(j, g)' => j = k
      BY <1>6, <1>13
    <3>2. QED
      BY <1>3, <1>9, <1>10, <1>13, <2>1, <3>1
  <2>2. CASE h # g
    BY <1>8, <1>9, <1>13, <2>2 DEF GrantsInv, GiftInv, OneBuys
  <2>3. QED
    BY <2>1, <2>2
<1>15. LedgerExplainsCards'
  <2> SUFFICES ASSUME NEW h \in GiftCards, card'[h] # NoCard
               PROVE  /\ card'[h].balance = ledger[h].opening - ledger[h].redeemed
                      /\ card'[h].status = StatusForBalance(card'[h].balance)
                      /\ ledger[h].type = "purchase" => ledger[h].order = card'[h].order
    BY <1>8 DEF LedgerExplainsCards, StatusForBalance
  <2>1. CASE h = g
    BY <1>6, <1>9, <1>10, <2>1 DEF GrantsInv, GiftInv, LedgerExplainsCards
  <2>2. CASE h # g
    BY <1>9, <2>2 DEF GrantsInv, GiftInv, LedgerExplainsCards
  <2>3. QED
    BY <2>1, <2>2
<1>16. QED
  BY <1>4, <1>8, <1>9, <1>12, <1>14, <1>15, GrantCallMoves DEF GrantsInv, GiftInv

LEMMA PurchaseEntryStep ==
    ASSUME GrantsInv, NEW k \in GrantCalls, PurchaseEntry(k)
    PROVE  GrantsInv'
<1>1. PICK call \in GrantCallRow : call = grantCall[k]
  BY DEF GrantsInv
<1>2. PICK g \in GiftCards, o \in GiftOrders : g = call.card /\ o = call.order
  BY <1>1, GrantCallFields DEF PurchaseEntry
<1>3. PICK x \in GrantCallRow : x = IdleGrant
  BY DEF GrantCallRow
<1>4. Buying(k, g) /\ call.at = "entry"
  BY <1>1, <1>2 DEF Buying, PurchaseEntry
<1>5. card[g].order = o /\ \A j \in GrantCalls : Buying(j, g) => j = k
  BY <1>1, <1>2, <1>4 DEF GrantsInv, GiftInv, OneBuys
<1>6. PICK entries \in EntriesRow :
          entries = [ledger[g] EXCEPT !.type = "purchase", !.order = o]
  BY DEF GrantsInv, GiftInv, EntriesRow
<1>7. /\ GoGrant(k, x) /\ ledger' = [ledger EXCEPT ![g] = entries]
      /\ UNCHANGED <<tokens, licences, raced, card>>
  BY <1>1, <1>2, <1>3, <1>6 DEF PurchaseEntry, digitalVars, GrantsInv, GiftInv
<1>8. /\ ledger' \in [GiftCards -> EntriesRow]
      /\ ledger'[g] = entries
      /\ \A h \in GiftCards \ {g} : ledger'[h] = ledger[h]
  BY <1>7 DEF GrantsInv, GiftInv
<1>9. /\ entries.opening = ledger[g].opening /\ entries.redeemed = ledger[g].redeemed
      /\ entries.order = o
  BY <1>6 DEF GrantsInv, GiftInv, EntriesRow
<1>10. \A l : ~OwesIt(x, l) /\ ~IssuesIt(x, l) /\ ~BuysIt(x, l)
  BY <1>3 DEF OwesIt, IssuesIt, BuysIt, IdleGrant
<1>11. DigitalInv'
  BY <1>7, <1>10, DigitalQuiet
<1>12. /\ \A h : \A j \in GrantCalls : Buying(j, h)' => Buying(j, h) /\ j # k
       /\ \A j \in GrantCalls \ {k} : grantCall'[j] = grantCall[j]
  BY <1>7, <1>10, GrantCallMoves
<1>13. OneBuys'
  <2>1. \A j \in GrantCalls : ~Buying(j, g)'
    BY <1>5, <1>12
  <2>2. QED
    BY <1>7, <1>8, <1>12, <2>1 DEF GrantsInv, GiftInv, OneBuys
<1>14. LedgerExplainsCards'
  <2> SUFFICES ASSUME NEW h \in GiftCards, card[h] # NoCard
               PROVE  /\ card[h].balance = ledger'[h].opening - ledger'[h].redeemed
                      /\ card[h].status = StatusForBalance(card[h].balance)
                      /\ ledger'[h].type = "purchase" => ledger'[h].order = card[h].order
    BY <1>7 DEF LedgerExplainsCards, StatusForBalance
  <2>1. CASE h = g
    BY <1>5, <1>8, <1>9, <2>1 DEF GrantsInv, GiftInv, LedgerExplainsCards
  <2>2. CASE h # g
    BY <1>8, <2>2 DEF GrantsInv, GiftInv, LedgerExplainsCards
  <2>3. QED
    BY <2>1, <2>2
<1>15. QED
  BY <1>7, <1>8, <1>11, <1>13, <1>14, GrantCallMoves DEF GrantsInv, GiftInv

LEMMA RedeemCardStep ==
    ASSUME GrantsInv, NEW k \in GrantCalls, RedeemCard(k)
    PROVE  GrantsInv'
<1>1. PICK g \in GiftCards, amount \in Nat \ {0} :
          /\ card[g] # NoCard /\ amount <= card[g].balance
          /\ card' = [card EXCEPT ![g].balance = card[g].balance - amount,
                                  ![g].status = StatusForBalance(card[g].balance - amount)]
          /\ ledger' = [ledger EXCEPT ![g].redeemed = @ + amount]
  <2>1. PICK g \in GiftCards :
            /\ card[g] # NoCard
            /\ \E amount \in 1 .. card[g].balance :
                   /\ card' = [card EXCEPT
                          ![g].balance = card[g].balance - amount,
                          ![g].status = StatusForBalance(card[g].balance - amount)]
                   /\ ledger' = [ledger EXCEPT ![g].redeemed = @ + amount]
    BY DEF RedeemCard
  <2>2. card[g].balance \in Nat
    BY <2>1 DEF GrantsInv, GiftInv, CardRow
  <2>3. \A amount \in 1 .. card[g].balance :
            amount \in Nat \ {0} /\ amount <= card[g].balance
    BY <2>2
  <2>4. QED
    BY <2>1, <2>3
<1>2. card[g] \in CardRow /\ ledger[g] \in EntriesRow
  BY <1>1 DEF GrantsInv, GiftInv
<1>3. PICK next \in Nat, paid \in Nat :
          next = card[g].balance - amount /\ paid = ledger[g].redeemed + amount
  BY <1>1, <1>2 DEF CardRow, EntriesRow
<1>4. StatusForBalance(next) \in {"active", "redeemed"}
  BY DEF StatusForBalance
<1>5. PICK row \in CardRow :
          row = [card[g] EXCEPT !.balance = next, !.status = StatusForBalance(next)]
  BY <1>2, <1>4 DEF CardRow
<1>6. PICK entries \in EntriesRow : entries = [ledger[g] EXCEPT !.redeemed = paid]
  BY <1>2 DEF EntriesRow
<1>7. card' = [card EXCEPT ![g] = row]
  <2>1. card \in [GiftCards -> {NoCard} \union CardRow]
    BY DEF GrantsInv, GiftInv
  <2>2. QED
    BY <1>1, <1>3, <1>5, <2>1
<1>8. ledger' = [ledger EXCEPT ![g] = entries]
  BY <1>1, <1>3, <1>6 DEF GrantsInv, GiftInv
<1>9. /\ card' \in [GiftCards -> {NoCard} \union CardRow]
      /\ ledger' \in [GiftCards -> EntriesRow]
      /\ card'[g] = row /\ ledger'[g] = entries
      /\ \A h \in GiftCards \ {g} : card'[h] = card[h] /\ ledger'[h] = ledger[h]
  BY <1>7, <1>8 DEF GrantsInv, GiftInv
<1>10. /\ row.balance = next /\ row.status = StatusForBalance(next)
       /\ row.order = card[g].order /\ row # NoCard
       /\ entries.redeemed = paid /\ entries.opening = ledger[g].opening
       /\ entries.type = ledger[g].type /\ entries.order = ledger[g].order
  BY <1>2, <1>5, <1>6 DEF CardRow, EntriesRow, NoCard
<1>11. PICK x \in GrantCallRow : x = IdleGrant
  BY DEF GrantCallRow
<1>12. GoGrant(k, x) /\ UNCHANGED <<tokens, licences, raced>>
  BY <1>11 DEF RedeemCard, BeginGrant, digitalVars
<1>13. \A l : ~OwesIt(x, l) /\ ~IssuesIt(x, l) /\ ~BuysIt(x, l)
  BY <1>11 DEF OwesIt, IssuesIt, BuysIt, IdleGrant
<1>14. DigitalInv'
  BY <1>12, <1>13, DigitalQuiet
<1>15. /\ \A h : \A j \in GrantCalls : Buying(j, h)' => Buying(j, h) /\ j # k
       /\ \A j \in GrantCalls \ {k} : grantCall'[j] = grantCall[j]
  BY <1>12, <1>13, GrantCallMoves
<1>16. OneBuys'
  <2>1. \A h \in GiftCards :
            /\ card[h] # NoCard => card'[h] # NoCard
            /\ card'[h].order = card[h].order
            /\ ledger'[h].type = ledger[h].type
    BY <1>9, <1>10
  <2>2. QED
    BY <1>15, <2>1 DEF GrantsInv, GiftInv, OneBuys
<1>17. LedgerExplainsCards'
  <2> SUFFICES ASSUME NEW h \in GiftCards, card'[h] # NoCard
               PROVE  /\ card'[h].balance = ledger'[h].opening - ledger'[h].redeemed
                      /\ card'[h].status = StatusForBalance(card'[h].balance)
                      /\ ledger'[h].type = "purchase" => ledger'[h].order = card'[h].order
    BY DEF LedgerExplainsCards, StatusForBalance
  <2>1. CASE h = g
    <3>1. /\ card[g].balance = ledger[g].opening - ledger[g].redeemed
          /\ ledger[g].type = "purchase" => ledger[g].order = card[g].order
      BY <1>1 DEF GrantsInv, GiftInv, LedgerExplainsCards
    <3>2. next = ledger[g].opening - paid
      BY <1>1, <1>2, <1>3, <3>1 DEF CardRow, EntriesRow
    <3>3. QED
      BY <1>9, <1>10, <2>1, <3>1, <3>2
  <2>2. CASE h # g
    BY <1>9, <2>2 DEF GrantsInv, GiftInv, LedgerExplainsCards
  <2>3. QED
    BY <2>1, <2>2
<1>18. QED
  BY <1>9, <1>12, <1>14, <1>16, <1>17, GrantCallMoves DEF GrantsInv, GiftInv

LEMMA GrantsInvInit == GrantsInit => GrantsInv
<1> SUFFICES ASSUME GrantsInit PROVE GrantsInv
  OBVIOUS
<1>1. grantCall \in [GrantCalls -> GrantCallRow]
  BY DEF GrantsInit, GrantCallRow
<1>2. \A k \in GrantCalls : grantCall[k].at = "idle"
  BY DEF GrantsInit, IdleGrant
<1>3. LicencesOwed
  <2>1. ASSUME NEW l \in DigitalLines
        PROVE  /\ IsFiniteSet(Owing(l))
               /\ licences[l] + UnitsOf[l] * Cardinality(Owing(l)) <= tokens[l]
    <3>1. Owing(l) = {} /\ IsFiniteSet({}) /\ Cardinality({}) = 0
      BY <1>2, FS_EmptySet DEF Owing
    <3>2. UnitsOf[l] * 0 = 0
      BY GrantsAssumption
    <3>3. licences[l] = 0 /\ tokens[l] = 0
      BY DEF GrantsInit
    <3>4. QED
      BY <3>1, <3>2, <3>3
  <2>2. QED
    BY <2>1 DEF LicencesOwed
<1>4. OneIssues
  BY <1>2 DEF GrantsInit, OneIssues, Issuing
<1>5. card \in [GiftCards -> {NoCard} \union CardRow] /\ LedgerExplainsCards
  BY DEF GrantsInit, LedgerExplainsCards
<1>6. ledger \in [GiftCards -> EntriesRow]
  BY DEF GrantsInit, EntriesRow, NoEntries
<1>7. OneBuys
  BY <1>2 DEF OneBuys, Buying
<1>8. tokens \in [DigitalLines -> Nat] /\ licences \in [DigitalLines -> Nat]
  BY DEF GrantsInit
<1>9. QED
  BY <1>1, <1>3, <1>4, <1>5, <1>6, <1>7, <1>8 DEF GrantsInv, DigitalInv, GiftInv

LEMMA GrantsInvNext == GrantsInv /\ [GrantsNext]_grantVars => GrantsInv'
<1> SUFFICES ASSUME GrantsInv, [GrantsNext]_grantVars PROVE GrantsInv'
  OBVIOUS
<1>1. CASE GrantsNext
  BY <1>1, IssueForOrderStep, FindTokensStep, FindLicencesStep, SaveTokensStep,
     SaveLicencesStep, IssueStep, PurchaseCardStep, PurchaseEntryStep, RedeemCardStep
     DEF GrantsNext
<1>2. CASE UNCHANGED grantVars
  <2>1. UNCHANGED <<tokens, licences, card, ledger, grantCall, raced>>
    BY <1>2 DEF grantVars
  <2>2. DigitalInv'
    <3>1. \A l : Owing(l)' = Owing(l) /\ Issuing(l)' = Issuing(l)
      BY <2>1 DEF Owing, Issuing
    <3>2. LicencesOwed'
      BY <2>1, <3>1, OwedStill
    <3>3. OneIssues'
      BY <2>1, <3>1 DEF GrantsInv, DigitalInv, OneIssues
    <3>4. QED
      BY <2>1, <3>2, <3>3 DEF GrantsInv, DigitalInv
  <2>3. GiftInv'
    BY <2>1 DEF GrantsInv, GiftInv, OneBuys, Buying, LedgerExplainsCards, StatusForBalance
  <2>4. QED
    BY <2>1, <2>2, <2>3 DEF GrantsInv
<1>3. QED
  BY <1>1, <1>2

\* Wherever an issue or a purchase is cut off, and however calls overlap, a licence has
\* its token, a line that was not looked up twice at once is issued once, and a gift
\* card's balance is what its ledger says.
THEOREM GrantsAddUp == GrantsSpec => []GrantsAreExplained
<1>1. GrantsInv => GrantsAreExplained
  <2> SUFFICES ASSUME GrantsInv PROVE GrantsAreExplained
    OBVIOUS
  <2>1. ASSUME NEW l \in DigitalLines PROVE licences[l] <= tokens[l]
    <3>1. /\ IsFiniteSet(Owing(l))
          /\ licences[l] + UnitsOf[l] * Cardinality(Owing(l)) <= tokens[l]
      BY DEF GrantsInv, DigitalInv, LicencesOwed
    <3>2. UnitsOf[l] \in Nat /\ Cardinality(Owing(l)) \in Nat
      BY <3>1, GrantsAssumption, FS_CardinalityType
    <3>3. UnitsOf[l] * Cardinality(Owing(l)) \in Nat
      BY <3>2, TimesFacts
    <3>4. QED
      BY <3>1, <3>3 DEF GrantsInv, DigitalInv
  <2>2. IssuedOnce
    BY DEF GrantsInv, DigitalInv, OneIssues, IssuedOnce
  <2>3. QED
    BY <2>1, <2>2 DEF GrantsAreExplained, LicencesFollowTokens, GrantsInv, GiftInv
<1>2. QED
  BY <1>1, GrantsInvInit, GrantsInvNext, PTL DEF GrantsSpec
=============================================================================
