--------------------------- MODULE ReturnsProofs ---------------------------
(***************************************************************************)
(* The properties of Returns, and of the fulfillments it composes, for     *)
(* every order, every set of documents and every number of requests.       *)
(*                                                                         *)
(* A request looks at a document and acts on what it saw later, so the     *)
(* properties need what stays true of the document in between: nobody else *)
(* inserts it, a line that is yet to be restocked has not been, a refund   *)
(* that is about to be saved was paid.  An order all of whose lines are    *)
(* shipped has a request under way that will look at it, or had one that   *)
(* a crash cut off.                                                        *)
(*                                                                         *)
(* The invariant has two halves, one for fulfillments and one for returns: *)
(* a step of one leaves the other alone.                                   *)
(***************************************************************************)
EXTENDS Returns, FiniteSetTheorems, TLAPS

CreateCall ==
    [at : {"shipped", "open", "insert"}, op : {"create"}, id : FulfillmentIds,
     lines : Quantities, read : [Lines -> Nat]]

ShipCall ==
    [at : {"label", "ship", "maybe", "sum"}, op : {"ship"}, id : FulfillmentIds,
     lines : Quantities, read : [Lines -> Nat]]

StatusCall ==
    [at : {"transition", "save"}, op : {"status"}, id : {"order"},
     to : {"fulfilled", "cancelled"}]

ReturnCall ==
    [at : {"prior", "request"}, op : {"return"}, id : ReturnIds, lines : Quantities,
     resolution : {"refund", "exchange"}]

ReceiveCall ==
    [at : {"restock"}, op : {"receive"}, id : ReturnIds, todo : SUBSET Lines]

RefundCall ==
    [at : {"engine", "ask", "refunded", "not_refunded", "complete"},
     op : {"refund"}, id : ReturnIds]

ExchangeCall == [at : {"exchange"}, op : {"exchange"}, id : ReturnIds]

FulfillmentCall == CreateCall \cup ShipCall \cup StatusCall

CallOfReturn == ReturnCall \cup ReceiveCall \cup RefundCall \cup ExchangeCall

Call == {Idle} \cup FulfillmentCall \cup CallOfReturn

ReturnsTypeOK ==
    /\ order \in OrderStatuses
    /\ fulfillments \in [FulfillmentIds -> FulfillmentRow]
    /\ returns \in [ReturnIds -> ReturnRow]
    /\ restocked \in [ReturnIds -> [Lines -> Nat]]
    /\ replacements \in [ReturnIds -> Nat]
    /\ payment \in {"captured", "refunded"}
    /\ paidBack \in Nat
    /\ call \in [Calls -> Call]

-----------------------------------------------------------------------------
\* A request that will look at the order once more, or change its status.
Watches(c) ==
    \/ call[c] \in ShipCall /\ call[c].at \in {"maybe", "sum"}
    \/ call[c] \in StatusCall

\* The order will be marked fulfilled, unless something else became of it.
Watched ==
    \/ order # "confirmed"
    \/ "order" \in lost
    \/ \E c \in Calls : Watches(c)

CreateOK(c) ==
    call[c] \in CreateCall => fulfillments[call[c].id].status = "none"

\* No two requests create the same fulfillment.
CreatesApart(c, d) ==
    call[c] \in CreateCall /\ call[d] \in CreateCall => call[c].id # call[d].id

FulfillmentInv ==
    /\ \A c \in Calls : CreateOK(c)
    /\ \A c \in Calls : \A d \in Calls \ {c} : CreatesApart(c, d)
    /\ FullyShipped(Shipped) => Watched

-----------------------------------------------------------------------------
After == {"received", "refunded", "exchanged"}

RowOK(r) ==
    /\ returns[r].status # "none" => returns[r].lines # Nothing
    /\ \A l \in Lines :
           /\ restocked[r][l] \in {0, returns[r].lines[l]}
           /\ restocked[r][l] > 0 => returns[r].status \in After
    /\ replacements[r] = IF returns[r].status = "exchanged" THEN 1 ELSE 0

PaidOK ==
    (\E r \in ReturnIds : returns[r].status = "refunded") \/ payment = "refunded" =>
        paidBack > 0

\* What a request knows of its return.
CallOK(c) ==
    /\ call[c] \in ReturnCall =>
           returns[call[c].id].status = "none" /\ call[c].lines # Nothing
    /\ call[c] \in ReceiveCall =>
           /\ returns[call[c].id].status \in After
           /\ \A l \in call[c].todo : restocked[call[c].id][l] = 0
    /\ call[c] \in RefundCall =>
           /\ returns[call[c].id].status \in After
           /\ call[c].at \in {"refunded", "complete"} => paidBack > 0

\* No two requests insert the same return, and no two restock it.
CallsApart(c, d) ==
    \/ call[c] \in ReturnCall /\ call[d] \in ReturnCall
    \/ call[c] \in ReceiveCall /\ call[d] \in ReceiveCall
    => call[c].id # call[d].id

ReturnInv ==
    /\ \A r \in ReturnIds : RowOK(r)
    /\ PaidOK
    /\ \A c \in Calls : CallOK(c)
    /\ \A c \in Calls : \A d \in Calls \ {c} : CallsApart(c, d)

Inv == ReturnsTypeOK /\ FulfillmentInv /\ ReturnInv
-----------------------------------------------------------------------------
(***************************************************************************)
(* Quantities and units                                                    *)
(***************************************************************************)

LEMMA QuantitiesAreNat ==
    /\ Quantities \subseteq [Lines -> Nat]
    /\ Nothing \in Quantities
<1>1. UNION {0..Ordered[l] : l \in Lines} \subseteq Nat
  BY OrderedAssumption
<1>2. ASSUME NEW q \in Quantities PROVE q \in [Lines -> Nat]
  BY <1>1 DEF Quantities
<1>3. \A l \in Lines : 0 \in 0..Ordered[l]
  BY OrderedAssumption
<1>4. Nothing \in [Lines -> UNION {0..Ordered[l] : l \in Lines}]
  BY <1>3 DEF Nothing
<1>5. Nothing \in Quantities
  BY <1>4, OrderedAssumption DEF Quantities, Nothing
<1>6. QED
  BY <1>2, <1>5

LEMMA UnitsAreFinite ==
    ASSUME NEW q \in Quantities
    PROVE  IsFiniteSet(Units(q))
<1> DEFINE boxes == {{l} \X (1..q[l]) : l \in Lines}
<1>1. q \in [Lines -> Nat]
  BY QuantitiesAreNat
<1>2. IsFiniteSet(boxes)
  <2>1. IsFiniteSet(Lines)
    BY LinesAssumption
  <2> DEFINE box == [l \in Lines |-> {l} \X (1..q[l])]
  <2>2. box \in Surjection(Lines, boxes)
    BY DEF Surjection
  <2> HIDE DEF box, boxes
  <2>3. QED
    BY <2>1, <2>2, FS_Surjection
<1>3. ASSUME NEW l \in Lines PROVE IsFiniteSet({l} \X (1..q[l]))
  <2>1. IsFiniteSet({l})
    BY FS_Singleton
  <2>2. 1 \in Int /\ q[l] \in Int
    BY <1>1
  <2>3. IsFiniteSet(1..q[l])
    BY <2>2, FS_Interval
  <2>4. QED
    BY <2>1, <2>3, FS_Product
<1>4. \A b \in boxes : IsFiniteSet(b)
  BY <1>3
<1>5. IsFiniteSet(UNION boxes)
  BY <1>2, <1>4, FS_UNION
<1>6. QED
  BY <1>5 DEF Units

\* What a return with lines costs is at least 1.
LEMMA AmountIsPositive ==
    ASSUME NEW q \in Quantities
    PROVE  /\ Amount(q) \in Nat
           /\ q # Nothing => Amount(q) > 0
<1>1. IsFiniteSet(Units(q)) /\ Cardinality(Units(q)) \in Nat
  BY UnitsAreFinite, FS_CardinalityType
<1>2. ASSUME q # Nothing PROVE Units(q) # {}
  <2>1. q \in [Lines -> Nat]
    BY QuantitiesAreNat
  <2>2. PICK l \in Lines : q[l] # 0
    BY <1>2, <2>1 DEF Nothing
  <2>3. 1 \in 1..q[l]
    BY <2>1, <2>2
  <2>4. <<l, 1>> \in {l} \X (1..q[l])
    BY <2>3
  <2>5. <<l, 1>> \in Units(q)
    BY <2>4 DEF Units
  <2>6. QED
    BY <2>5
<1>3. q # Nothing => Cardinality(Units(q)) # 0
  BY <1>1, <1>2, FS_EmptySet
<1>4. QED
  BY <1>1, <1>3 DEF Amount

LEMMA ShippedIsNat == Shipped \in [Lines -> Nat]
<1>1. ASSUME NEW l \in Lines PROVE InStatus({"shipped"}, l) \in Nat
  <2>1. IsFiniteSet(FulfillmentIds \X (1..Ordered[l]))
    <3>1. 1 \in Int /\ Ordered[l] \in Int
      BY OrderedAssumption
    <3>2. IsFiniteSet(1..Ordered[l])
      BY <3>1, FS_Interval
    <3>3. QED
      BY <3>2, DocumentsAssumption, FS_Product
  <2> DEFINE units == {u \in FulfillmentIds \X (1..Ordered[l]) :
                          /\ fulfillments[u[1]].status \in {"shipped"}
                          /\ u[2] <= fulfillments[u[1]].lines[l]}
  <2>2. units \subseteq FulfillmentIds \X (1..Ordered[l])
    OBVIOUS
  <2>3. Cardinality(units) \in Nat
    BY <2>1, <2>2, FS_Subset, FS_CardinalityType
  <2>4. QED
    BY <2>3 DEF InStatus
<1>2. QED
  BY <1>1 DEF Shipped

\* As long as no fulfillment starts or ceases to be shipped, what has been
\* shipped of the order is the same.
LEMMA ShippedStays ==
    ASSUME \A f \in FulfillmentIds :
               \/ fulfillments'[f] = fulfillments[f]
               \/ /\ fulfillments[f].status # "shipped"
                  /\ fulfillments'[f].status # "shipped"
    PROVE  Shipped' = Shipped
<1>1. ASSUME NEW l \in Lines PROVE InStatus({"shipped"}, l)' = InStatus({"shipped"}, l)
  <2> DEFINE all == FulfillmentIds \X (1..Ordered[l])
             units == {u \in all : /\ fulfillments[u[1]].status \in {"shipped"}
                                   /\ u[2] <= fulfillments[u[1]].lines[l]}
             after == {u \in all : /\ fulfillments'[u[1]].status \in {"shipped"}
                                   /\ u[2] <= fulfillments'[u[1]].lines[l]}
  <2>1. \A u \in all : u \in units <=> u \in after
    <3>1. \A u \in all : u[1] \in FulfillmentIds
      OBVIOUS
    <3>2. QED
      BY <3>1
  <2>2. units = after
    BY <2>1
  <2>3. QED
    BY <2>2 DEF InStatus
<1>2. QED
  BY <1>1 DEF Shipped

LEMMA NothingIsShipped ==
    ASSUME \A f \in FulfillmentIds : fulfillments[f].status # "shipped"
    PROVE  ~FullyShipped(Shipped)
<1>1. PICK l \in Lines : TRUE
  BY LinesAssumption
<1>2. {u \in FulfillmentIds \X (1..Ordered[l]) :
          /\ fulfillments[u[1]].status \in {"shipped"}
          /\ u[2] <= fulfillments[u[1]].lines[l]} = {}
  OBVIOUS
<1>3. Shipped[l] = 0
  BY <1>2, FS_EmptySet DEF Shipped, InStatus
<1>4. Ordered[l] > 0
  BY OrderedAssumption
<1>5. QED
  BY <1>3, <1>4, OrderedAssumption DEF FullyShipped

-----------------------------------------------------------------------------
(***************************************************************************)
(* Requests                                                                *)
(***************************************************************************)

\* A request's kind is read off its place.
LEMMA KindOfFulfillmentCall ==
    ASSUME NEW x \in Call
    PROVE  /\ x.at \in {"shipped", "open", "insert"} => x \in CreateCall
           /\ x.at \in {"label", "ship", "maybe", "sum"} => x \in ShipCall
           /\ x.at \in {"transition", "save"} => x \in StatusCall
  BY DEF Call, Idle, FulfillmentCall, CallOfReturn, CreateCall, ShipCall, StatusCall,
     ReturnCall, ReceiveCall, RefundCall, ExchangeCall

LEMMA KindOfReturnCall ==
    ASSUME NEW x \in Call
    PROVE  /\ x.at \in {"prior", "request"} => x \in ReturnCall
           /\ x.at = "restock" => x \in ReceiveCall
           /\ x.at \in {"engine", "ask", "refunded", "not_refunded", "complete"} =>
                  x \in RefundCall
           /\ x.at = "exchange" => x \in ExchangeCall
  BY DEF Call, Idle, FulfillmentCall, CallOfReturn, CreateCall, ShipCall, StatusCall,
     ReturnCall, ReceiveCall, RefundCall, ExchangeCall

LEMMA KindsAreApart ==
    ASSUME NEW x
    PROVE  /\ x = Idle => x \notin FulfillmentCall /\ x \notin CallOfReturn
           /\ x \in CreateCall => x \notin ShipCall /\ x \notin StatusCall
           /\ x \in ShipCall => x \notin StatusCall
           /\ x \in FulfillmentCall => x \notin CallOfReturn
           /\ x \in ReturnCall => x \notin ReceiveCall /\ x \notin RefundCall
                                     /\ x \notin ExchangeCall
           /\ x \in ReceiveCall => x \notin RefundCall /\ x \notin ExchangeCall
           /\ x \in RefundCall => x \notin ExchangeCall
  BY DEF Idle, FulfillmentCall, CallOfReturn, CreateCall, ShipCall, StatusCall,
     ReturnCall, ReceiveCall, RefundCall, ExchangeCall
-----------------------------------------------------------------------------
(***************************************************************************)
(* What a step of one half means for the other                             *)
(***************************************************************************)

\* Orders and fulfillments stay, requests that create one go on with it, and
\* the order stays watched.
LEMMA FulfillmentsStay ==
    ASSUME FulfillmentInv, UNCHANGED <<order, fulfillments>>, lost \subseteq lost',
           \A c \in Calls : call'[c] \in CreateCall =>
               call[c] \in CreateCall /\ call'[c].id = call[c].id,
           \A c \in Calls : Watches(c) =>
               \/ Watches(c)'
               \/ "order" \in lost'
               \/ order # "confirmed"
               \/ ~FullyShipped(Shipped)
    PROVE  FulfillmentInv'
<1>1. ASSUME NEW c \in Calls PROVE CreateOK(c)'
  BY DEF FulfillmentInv, CreateOK
<1>2. ASSUME NEW c \in Calls, NEW d \in Calls \ {c} PROVE CreatesApart(c, d)'
  BY DEF FulfillmentInv, CreatesApart
<1>3. Shipped' = Shipped
  BY DEF Shipped, InStatus
<1>4. ASSUME FullyShipped(Shipped)' PROVE Watched'
  <2>1. FullyShipped(Shipped)
    BY <1>3, <1>4 DEF FullyShipped
  <2>2. Watched
    BY <2>1 DEF FulfillmentInv
  <2>3. CASE order # "confirmed" \/ "order" \in lost
    BY <2>3 DEF Watched
  <2>4. CASE \E c \in Calls : Watches(c)
    <3>1. PICK c \in Calls : Watches(c)
      BY <2>4
    <3>2. Watches(c)' \/ "order" \in lost' \/ order # "confirmed"
      BY <2>1, <3>1
    <3>3. QED
      BY <3>2 DEF Watched
  <2>5. QED
    BY <2>2, <2>3, <2>4 DEF Watched
<1>5. QED
  BY <1>1, <1>2, <1>4 DEF FulfillmentInv

\* A step of a request about a return leaves fulfillments alone.
LEMMA ReturnsAside ==
    ASSUME Inv, UNCHANGED <<order, fulfillments, lost>>,
           NEW c \in Calls, call[c] \notin FulfillmentCall,
           NEW x, x \notin FulfillmentCall, call' = [call EXCEPT ![c] = x]
    PROVE  FulfillmentInv'
<1>1. /\ call'[c] = x
      /\ \A d \in Calls \ {c} : call'[d] = call[d]
  BY DEF Inv, ReturnsTypeOK
<1>2. \A d \in Calls : call'[d] \in CreateCall =>
          call[d] \in CreateCall /\ call'[d].id = call[d].id
  BY <1>1 DEF FulfillmentCall
<1>3. \A d \in Calls : Watches(d) => Watches(d)'
  BY <1>1 DEF FulfillmentCall, Watches
<1>4. QED
  BY <1>2, <1>3, FulfillmentsStay DEF Inv

\* Returns stay, and no request about one starts or moves.
LEMMA ReturnsStay ==
    ASSUME ReturnInv, UNCHANGED returnVars,
           \A c \in Calls : call'[c] \in CallOfReturn => call'[c] = call[c]
    PROVE  ReturnInv'
<1>1. UNCHANGED <<returns, restocked, replacements, payment, paidBack>>
  BY DEF returnVars
<1>2. ASSUME NEW r \in ReturnIds PROVE RowOK(r)'
  BY <1>1 DEF ReturnInv, RowOK
<1>3. PaidOK'
  BY <1>1 DEF ReturnInv, PaidOK
<1>4. ASSUME NEW c \in Calls PROVE CallOK(c)'
  BY <1>1 DEF ReturnInv, CallOK, CallOfReturn
<1>5. ASSUME NEW c \in Calls, NEW d \in Calls \ {c} PROVE CallsApart(c, d)'
  BY DEF ReturnInv, CallsApart, CallOfReturn
<1>6. QED
  BY <1>2, <1>3, <1>4, <1>5 DEF ReturnInv

\* A step of a request about a fulfillment leaves returns alone.
LEMMA FulfillmentsAside ==
    ASSUME Inv, UNCHANGED returnVars, NEW c \in Calls,
           NEW x, x \notin CallOfReturn, call' = [call EXCEPT ![c] = x]
    PROVE  ReturnInv'
<1>1. \A d \in Calls : call'[d] = x \/ call'[d] = call[d]
  BY DEF Inv, ReturnsTypeOK
<1>2. QED
  BY <1>1, ReturnsStay DEF Inv

LEMMA InitInv == Init => Inv
<1> SUFFICES ASSUME Init PROVE Inv
  OBVIOUS
<1>1. /\ order = "confirmed"
      /\ fulfillments = [f \in FulfillmentIds |-> [status |-> "none", lines |-> Nothing]]
      /\ call = [c \in Calls |-> Idle]
  BY DEF Init, FulfillmentInit
<1>2. /\ returns = [r \in ReturnIds |->
             [status |-> "none", resolution |-> "refund", lines |-> Nothing]]
      /\ restocked = [r \in ReturnIds |-> Nothing]
      /\ replacements = [r \in ReturnIds |-> 0]
      /\ payment = "captured"
      /\ paidBack = 0
  BY DEF Init
<1>3. ReturnsTypeOK
  <2>1. fulfillments \in [FulfillmentIds -> FulfillmentRow]
    BY <1>1, QuantitiesAreNat DEF FulfillmentRow, FulfillmentStatuses
  <2>2. returns \in [ReturnIds -> ReturnRow]
    BY <1>2, QuantitiesAreNat DEF ReturnRow, ReturnStatuses
  <2>3. restocked \in [ReturnIds -> [Lines -> Nat]]
    BY <1>2 DEF Nothing
  <2>4. call \in [Calls -> Call]
    BY <1>1 DEF Call
  <2>5. QED
    BY <1>1, <1>2, <2>1, <2>2, <2>3, <2>4 DEF ReturnsTypeOK, OrderStatuses
<1>4. FulfillmentInv
  <2>1. \A c \in Calls : call[c] \notin CreateCall
    BY <1>1, KindsAreApart DEF FulfillmentCall
  <2>2. ~FullyShipped(Shipped)
    BY <1>1, NothingIsShipped
  <2>3. QED
    BY <2>1, <2>2 DEF FulfillmentInv, CreateOK, CreatesApart
<1>5. ReturnInv
  <2>1. \A c \in Calls : call[c] \notin CallOfReturn
    BY <1>1, KindsAreApart
  <2>2. \A r \in ReturnIds : RowOK(r)
    BY <1>2 DEF RowOK, Nothing
  <2>3. PaidOK
    BY <1>2 DEF PaidOK
  <2>4. QED
    BY <2>1, <2>2, <2>3 DEF ReturnInv, CallOK, CallsApart, CallOfReturn
<1>6. QED
  BY <1>3, <1>4, <1>5 DEF Inv
-----------------------------------------------------------------------------
(***************************************************************************)
(* Steps of fulfillments                                                   *)
(***************************************************************************)

\* Whatever a step of a fulfillment's request does, its half is what is left
\* to show.
LEMMA FulfillmentStepKeepsInv ==
    ASSUME Inv, UNCHANGED returnVars, order' \in OrderStatuses,
           fulfillments' \in [FulfillmentIds -> FulfillmentRow],
           NEW c \in Calls, NEW x \in Call, x \notin CallOfReturn,
           call' = [call EXCEPT ![c] = x],
           FulfillmentInv'
    PROVE  Inv'
<1>1. ReturnInv'
  BY FulfillmentsAside
<1>2. ReturnsTypeOK'
  BY DEF Inv, ReturnsTypeOK, returnVars
<1>3. QED
  BY <1>1, <1>2 DEF Inv

\* A request that writes nothing goes on to x.
LEMMA RequestGoesOn ==
    ASSUME Inv, UNCHANGED <<returnVars, fulfillmentVars, lost>>,
           NEW c \in Calls, NEW x \in Call, x \notin CallOfReturn,
           call' = [call EXCEPT ![c] = x],
           x \in CreateCall => call[c] \in CreateCall /\ x.id = call[c].id,
           Watches(c) =>
               \/ x \in ShipCall /\ x.at \in {"maybe", "sum"}
               \/ x \in StatusCall
               \/ order # "confirmed"
               \/ ~FullyShipped(Shipped)
    PROVE  Inv'
<1>1. /\ call'[c] = x
      /\ \A d \in Calls \ {c} : call'[d] = call[d]
  BY DEF Inv, ReturnsTypeOK
<1>2. UNCHANGED <<returnVars, order, fulfillments, lost>>
  BY DEF fulfillmentVars
<1>3. \A d \in Calls : call'[d] \in CreateCall =>
          call[d] \in CreateCall /\ call'[d].id = call[d].id
  BY <1>1
<1>4. ASSUME NEW d \in Calls, Watches(d)
      PROVE  \/ Watches(d)'
             \/ "order" \in lost'
             \/ order # "confirmed"
             \/ ~FullyShipped(Shipped)
  BY <1>1, <1>4 DEF Watches
<1>5. FulfillmentInv'
  BY <1>2, <1>3, <1>4, FulfillmentsStay DEF Inv
<1>6. order' \in OrderStatuses /\ fulfillments' \in [FulfillmentIds -> FulfillmentRow]
  BY <1>2 DEF Inv, ReturnsTypeOK
<1>7. QED
  BY <1>2, <1>5, <1>6, FulfillmentStepKeepsInv

LEMMA IdleIsCall == Idle \in Call /\ Idle \notin CallOfReturn /\ Idle \notin FulfillmentCall
  BY KindsAreApart DEF Call

LEMMA CallIsTyped ==
    ASSUME Inv, NEW c \in Calls
    PROVE  call[c] \in Call
  BY DEF Inv, ReturnsTypeOK

\* The request ends, having watched nothing or nothing that is left to do.
LEMMA RequestEnds ==
    ASSUME Inv, UNCHANGED <<returnVars, fulfillmentVars, lost>>,
           NEW c \in Calls, End(c),
           Watches(c) => order # "confirmed" \/ ~FullyShipped(Shipped)
    PROVE  Inv'
<1>1. Idle \notin CreateCall
  BY IdleIsCall DEF FulfillmentCall
<1>2. call' = [call EXCEPT ![c] = Idle]
  BY DEF End
<1>3. QED
  BY <1>1, <1>2, IdleIsCall, RequestGoesOn

LEMMA CreateReadKeepsInv ==
    ASSUME Inv, UNCHANGED <<returnVars, lost>>,
           NEW c \in Calls, NEW f \in FulfillmentIds, NEW lines \in Quantities,
           CreateRead(c, f, lines)
    PROVE  Inv'
<1> DEFINE x == [at |-> "shipped", op |-> "create", id |-> f, lines |-> lines,
                 read |-> Nothing]
<1>1. x \in CreateCall
  BY QuantitiesAreNat DEF CreateCall
<1>2. call' = [call EXCEPT ![c] = x] /\ UNCHANGED fulfillmentVars
  BY DEF CreateRead
<1>3. /\ call[c] = Idle
      /\ fulfillments[f].status = "none"
      /\ \A d \in Calls \ {c} : call[d] # Idle => call[d].id # f
  BY DEF CreateRead, Fresh
<1>4. x \in Call /\ x \notin CallOfReturn /\ x.id = f
  BY <1>1, KindsAreApart DEF Call, FulfillmentCall
<1> HIDE DEF x
<1>5. /\ call'[c] = x
      /\ \A d \in Calls \ {c} : call'[d] = call[d]
  BY <1>2 DEF Inv, ReturnsTypeOK
<1>6. UNCHANGED <<order, fulfillments, lost>>
  BY <1>2 DEF fulfillmentVars
<1>7. FulfillmentInv'
  <2>1. ASSUME NEW d \in Calls PROVE CreateOK(d)'
    BY <1>3, <1>4, <1>5, <1>6 DEF Inv, FulfillmentInv, CreateOK
  <2>2. \A d \in Calls : call[d] \in CreateCall => call[d] # Idle
    BY KindsAreApart DEF FulfillmentCall
  <2>3. ASSUME NEW d \in Calls, NEW e \in Calls \ {d} PROVE CreatesApart(d, e)'
    <3>1. CASE d = c
      BY <1>3, <1>4, <1>5, <2>2, <3>1 DEF CreatesApart
    <3>2. CASE e = c
      BY <1>3, <1>4, <1>5, <2>2, <3>2 DEF CreatesApart
    <3>3. CASE d # c /\ e # c
      BY <1>5, <3>3 DEF Inv, FulfillmentInv, CreatesApart
    <3>4. QED
      BY <3>1, <3>2, <3>3
  <2>4. ASSUME FullyShipped(Shipped)' PROVE Watched'
    <3>1. FullyShipped(Shipped)
      BY <1>6, <2>4 DEF FullyShipped, Shipped, InStatus
    <3>2. ~Watches(c)
      BY <1>3, KindsAreApart DEF Watches, FulfillmentCall
    <3>3. \A d \in Calls \ {c} : Watches(d) => Watches(d)'
      BY <1>5 DEF Watches
    <3>4. QED
      BY <1>6, <3>1, <3>2, <3>3 DEF Inv, FulfillmentInv, Watched
  <2>5. QED
    BY <2>1, <2>3, <2>4 DEF FulfillmentInv
<1>8. order' \in OrderStatuses /\ fulfillments' \in [FulfillmentIds -> FulfillmentRow]
  BY <1>6 DEF Inv, ReturnsTypeOK
<1>9. QED
  BY <1>2, <1>4, <1>7, <1>8, FulfillmentStepKeepsInv

LEMMA CreateReadShippedKeepsInv ==
    ASSUME Inv, UNCHANGED <<returnVars, lost>>, NEW c \in Calls, CreateReadShipped(c)
    PROVE  Inv'
<1> DEFINE x == [call[c] EXCEPT !.at = "open", !.read = Shipped]
<1>1. call[c] \in CreateCall
  BY CallIsTyped, KindOfFulfillmentCall DEF CreateReadShipped, At
<1>2. x \in CreateCall /\ x.id = call[c].id
  BY <1>1, ShippedIsNat DEF CreateCall
<1>3. call' = [call EXCEPT ![c] = x] /\ UNCHANGED fulfillmentVars
  BY DEF CreateReadShipped
<1> HIDE DEF x
<1>4. x \in Call /\ x \notin CallOfReturn
  BY <1>2, KindsAreApart DEF Call, FulfillmentCall
<1>5. ~Watches(c)
  BY <1>1, KindsAreApart DEF Watches
<1>6. QED
  BY <1>1, <1>2, <1>3, <1>4, <1>5, RequestGoesOn

LEMMA CreateReadOpenKeepsInv ==
    ASSUME Inv, UNCHANGED <<returnVars, lost>>, NEW c \in Calls, CreateReadOpen(c)
    PROVE  Inv'
<1> DEFINE x == [call[c] EXCEPT !.at = "insert"]
<1>1. call[c] \in CreateCall
  BY CallIsTyped, KindOfFulfillmentCall DEF CreateReadOpen, At
<1>2. x \in CreateCall /\ x.id = call[c].id
  BY <1>1 DEF CreateCall
<1>3. UNCHANGED fulfillmentVars /\ (call' = [call EXCEPT ![c] = x] \/ End(c))
  BY DEF CreateReadOpen, Goto
<1> HIDE DEF x
<1>4. x \in Call /\ x \notin CallOfReturn
  BY <1>2, KindsAreApart DEF Call, FulfillmentCall
<1>5. ~Watches(c)
  BY <1>1, KindsAreApart DEF Watches
<1>6. QED
  BY <1>1, <1>2, <1>3, <1>4, <1>5, RequestGoesOn, RequestEnds

\* A step that writes a fulfillment without shipping it, and ends no request
\* that watches the order.
LEMMA WriteKeepsInv ==
    ASSUME Inv, UNCHANGED <<order, lost>>,
           NEW f \in FulfillmentIds, NEW row \in FulfillmentRow,
           fulfillments' = [fulfillments EXCEPT ![f] = row],
           fulfillments[f].status # "shipped", row.status # "shipped",
           \A c \in Calls : call'[c] \in CreateCall =>
               call'[c] = call[c] /\ call[c].id # f,
           \A c \in Calls : Watches(c) => Watches(c)'
    PROVE  FulfillmentInv'
<1>1. /\ fulfillments'[f] = row
      /\ \A g \in FulfillmentIds \ {f} : fulfillments'[g] = fulfillments[g]
  BY DEF Inv, ReturnsTypeOK
<1>2. Shipped' = Shipped
  BY <1>1, ShippedStays
<1>3. ASSUME NEW c \in Calls PROVE CreateOK(c)'
  BY <1>1 DEF Inv, FulfillmentInv, CreateOK, CreateCall
<1>4. ASSUME NEW c \in Calls, NEW d \in Calls \ {c} PROVE CreatesApart(c, d)'
  BY DEF Inv, FulfillmentInv, CreatesApart
<1>5. ASSUME FullyShipped(Shipped)' PROVE Watched'
  BY <1>2, <1>5 DEF FullyShipped, Inv, FulfillmentInv, Watched
<1>6. QED
  BY <1>3, <1>4, <1>5 DEF FulfillmentInv
LEMMA CreateInsertKeepsInv ==
    ASSUME Inv, UNCHANGED <<returnVars, lost>>, NEW c \in Calls, CreateInsert(c)
    PROVE  Inv'
<1> DEFINE f == call[c].id
           row == [status |-> "pending", lines |-> call[c].lines]
<1>1. call[c] \in CreateCall
  BY CallIsTyped, KindOfFulfillmentCall DEF CreateInsert, At
<1>2. f \in FulfillmentIds /\ row \in FulfillmentRow /\ row.status = "pending"
  BY <1>1 DEF CreateCall, FulfillmentRow, FulfillmentStatuses
<1>3. /\ fulfillments' = [fulfillments EXCEPT ![f] = row]
      /\ call' = [call EXCEPT ![c] = Idle]
      /\ UNCHANGED order
  BY DEF CreateInsert, End
<1>4. fulfillments[f].status = "none"
  BY <1>1 DEF Inv, FulfillmentInv, CreateOK
<1>5. /\ call'[c] = Idle
      /\ \A d \in Calls \ {c} : call'[d] = call[d]
  BY <1>3 DEF Inv, ReturnsTypeOK
<1>6. \A d \in Calls \ {c} : call[d] \in CreateCall => call[d].id # f
  BY <1>1 DEF Inv, FulfillmentInv, CreatesApart
<1>7. Idle \notin CreateCall /\ ~Watches(c)
  BY <1>1, KindsAreApart DEF FulfillmentCall, Watches
<1>8. \A d \in Calls : Watches(d) => Watches(d)'
  BY <1>5, <1>7 DEF Watches
<1>9. FulfillmentInv'
  <2>1. \A d \in Calls : call'[d] \in CreateCall =>
            call'[d] = call[d] /\ call[d].id # f
    BY <1>5, <1>6, <1>7
  <2>2. fulfillments[f].status # "shipped" /\ row.status # "shipped"
    BY <1>2, <1>4
  <2>3. UNCHANGED <<order, lost>>
    BY <1>3
  <2> HIDE DEF row, f
  <2>4. QED
    BY <1>2, <1>3, <1>8, <2>1, <2>2, <2>3, WriteKeepsInv
<1> HIDE DEF row, f
<1>10. order' \in OrderStatuses /\ fulfillments' \in [FulfillmentIds -> FulfillmentRow]
  BY <1>2, <1>3 DEF Inv, ReturnsTypeOK
<1>11. QED
  BY <1>3, <1>9, <1>10, IdleIsCall, FulfillmentStepKeepsInv

LEMMA LockedKeepsInv ==
    ASSUME Inv, UNCHANGED <<returnVars, lost>>, NEW f \in FulfillmentIds,
           NEW from, NEW to \in FulfillmentStatuses, Locked(f, from, to),
           "none" \notin from, "shipped" \notin from, to # "shipped"
    PROVE  Inv'
<1> DEFINE row == [fulfillments[f] EXCEPT !.status = to]
<1>1. row \in FulfillmentRow /\ row.status = to
  BY DEF Inv, ReturnsTypeOK, FulfillmentRow
<1>2. /\ fulfillments' = [fulfillments EXCEPT ![f] = row]
      /\ fulfillments[f].status \in from
      /\ UNCHANGED <<order, call>>
  BY DEF Locked
<1> HIDE DEF row
<1>3. \A c \in Calls : call[c] \in CreateCall => call[c].id # f
  BY <1>2 DEF Inv, FulfillmentInv, CreateOK
<1>4. \A c \in Calls : Watches(c) => Watches(c)'
  BY <1>2 DEF Watches
<1>5. FulfillmentInv'
  BY <1>1, <1>2, <1>3, <1>4, WriteKeepsInv
<1>6. ReturnInv'
  BY <1>2, ReturnsStay DEF Inv
<1>7. ReturnsTypeOK'
  BY <1>1, <1>2 DEF Inv, ReturnsTypeOK, returnVars
<1>8. QED
  BY <1>5, <1>6, <1>7 DEF Inv

LEMMA ShipPreviewKeepsInv ==
    ASSUME Inv, UNCHANGED <<returnVars, lost>>,
           NEW c \in Calls, NEW f \in FulfillmentIds, ShipPreview(c, f)
    PROVE  Inv'
<1> DEFINE x == [at |-> "label", op |-> "ship", id |-> f, lines |-> Nothing,
                 read |-> Nothing]
<1>1. x \in ShipCall
  BY QuantitiesAreNat DEF ShipCall
<1>2. call' = [call EXCEPT ![c] = x] /\ UNCHANGED fulfillmentVars /\ call[c] = Idle
  BY DEF ShipPreview
<1> HIDE DEF x
<1>3. x \in Call /\ x \notin CallOfReturn /\ x \notin CreateCall
  BY <1>1, KindsAreApart DEF Call, FulfillmentCall
<1>4. ~Watches(c)
  BY <1>2, IdleIsCall DEF Watches, FulfillmentCall
<1>5. QED
  BY <1>2, <1>3, <1>4, RequestGoesOn

\* Where a request that ships goes on to.
LEMMA ShipGoesOn ==
    ASSUME NEW x \in ShipCall, NEW label \in {"label", "ship", "maybe", "sum"}
    PROVE  LET y == [x EXCEPT !.at = label]
           IN  /\ y \in ShipCall /\ y.at = label
               /\ y \in Call /\ y \notin CallOfReturn /\ y \notin CreateCall
<1> DEFINE y == [x EXCEPT !.at = label]
<1>1. y \in ShipCall /\ y.at = label
  BY DEF ShipCall
<1> HIDE DEF y
<1>2. y \in Call /\ y \notin CallOfReturn /\ y \notin CreateCall
  BY <1>1, KindsAreApart DEF Call, FulfillmentCall
<1>3. QED
  BY <1>1, <1>2 DEF y

LEMMA ShipLabelKeepsInv ==
    ASSUME Inv, UNCHANGED <<returnVars, lost>>, NEW c \in Calls, ShipLabel(c)
    PROVE  Inv'
<1>1. call[c] \in ShipCall /\ call[c].at = "label"
  BY CallIsTyped, KindOfFulfillmentCall DEF ShipLabel, At
<1>2. PICK x \in Call : /\ call' = [call EXCEPT ![c] = x]
                        /\ x \notin CallOfReturn /\ x \notin CreateCall
  <2>1. CASE Goto(c, "ship")
    BY <1>1, <2>1, ShipGoesOn DEF Goto
  <2>2. CASE End(c)
    BY <2>2, IdleIsCall DEF End, FulfillmentCall
  <2>3. QED
    BY <2>1, <2>2 DEF ShipLabel
<1>3. UNCHANGED <<order, fulfillments>>
  BY DEF ShipLabel
<1>4. ~Watches(c)
  BY <1>1, KindsAreApart DEF Watches
<1>5. /\ call'[c] = x
      /\ \A d \in Calls \ {c} : call'[d] = call[d]
  BY <1>2 DEF Inv, ReturnsTypeOK
<1>6. \A d \in Calls : call'[d] \in CreateCall =>
          call[d] \in CreateCall /\ call'[d].id = call[d].id
  BY <1>2, <1>5
<1>7. \A d \in Calls : Watches(d) => Watches(d)'
  BY <1>4, <1>5 DEF Watches
<1>8. FulfillmentInv'
  BY <1>3, <1>6, <1>7, FulfillmentsStay DEF Inv
<1>9. order' \in OrderStatuses /\ fulfillments' \in [FulfillmentIds -> FulfillmentRow]
  BY <1>3 DEF Inv, ReturnsTypeOK
<1>10. QED
  BY <1>2, <1>8, <1>9, FulfillmentStepKeepsInv

\* The transaction of ship: from now on the request watches the order.
LEMMA ShipCommitKeepsInv ==
    ASSUME Inv, UNCHANGED <<returnVars, lost>>, NEW c \in Calls, ShipCommit(c)
    PROVE  Inv'
<1> DEFINE f == call[c].id
           row == [fulfillments[f] EXCEPT !.status = "shipped"]
           x == [call[c] EXCEPT !.at = "maybe"]
<1>1. call[c] \in ShipCall /\ call[c].at = "ship"
  BY CallIsTyped, KindOfFulfillmentCall DEF ShipCommit, At
<1>2. ~Watches(c)
  BY <1>1, KindsAreApart DEF Watches
<1>3. UNCHANGED <<order, labels>>
  BY DEF ShipCommit
<1>4. CASE End(c) /\ UNCHANGED fulfillments
  BY <1>2, <1>3, <1>4, RequestEnds DEF fulfillmentVars
<1>5. ASSUME fulfillments[f].status = "packed",
             fulfillments' = [fulfillments EXCEPT ![f] = row],
             call' = [call EXCEPT ![c] = x]
      PROVE  Inv'
  <2>1. f \in FulfillmentIds
    BY <1>1 DEF ShipCall
  <2>2. row \in FulfillmentRow
    BY <2>1 DEF Inv, ReturnsTypeOK, FulfillmentRow, FulfillmentStatuses
  <2>3. /\ x \in ShipCall /\ x.at = "maybe"
        /\ x \in Call /\ x \notin CallOfReturn /\ x \notin CreateCall
    BY <1>1, ShipGoesOn
  <2> HIDE DEF row, f, x
  <2>4. /\ call'[c] = x
        /\ \A d \in Calls \ {c} : call'[d] = call[d]
    BY <1>5 DEF Inv, ReturnsTypeOK
  <2>5. \A g \in FulfillmentIds \ {f} : fulfillments'[g] = fulfillments[g]
    BY <1>5 DEF Inv, ReturnsTypeOK
  <2>6. ASSUME NEW d \in Calls PROVE CreateOK(d)'
    <3>1. call'[d] \in CreateCall => call'[d] = call[d] /\ call[d].id \in FulfillmentIds
      BY <2>3, <2>4 DEF CreateCall
    <3>2. QED
      BY <1>5, <2>5, <3>1 DEF Inv, FulfillmentInv, CreateOK
  <2>7. ASSUME NEW d \in Calls, NEW e \in Calls \ {d} PROVE CreatesApart(d, e)'
    BY <2>3, <2>4 DEF Inv, FulfillmentInv, CreatesApart
  <2>8. Watches(c)'
    BY <2>3, <2>4 DEF Watches
  <2>9. FulfillmentInv'
    BY <2>6, <2>7, <2>8 DEF FulfillmentInv, Watched
  <2>10. order' \in OrderStatuses /\ fulfillments' \in [FulfillmentIds -> FulfillmentRow]
    BY <1>3, <1>5, <2>1, <2>2 DEF Inv, ReturnsTypeOK
  <2>11. QED
    BY <1>5, <2>3, <2>9, <2>10, FulfillmentStepKeepsInv
<1>6. QED
  BY <1>4, <1>5 DEF ShipCommit, Goto

LEMMA ShipReadOrderKeepsInv ==
    ASSUME Inv, UNCHANGED <<returnVars, lost>>, NEW c \in Calls, ShipReadOrder(c)
    PROVE  Inv'
<1> DEFINE x == [call[c] EXCEPT !.at = "sum"]
<1>1. call[c] \in ShipCall
  BY CallIsTyped, KindOfFulfillmentCall DEF ShipReadOrder, At
<1>2. UNCHANGED fulfillmentVars
  BY DEF ShipReadOrder
<1>3. /\ x \in ShipCall /\ x.at = "sum"
      /\ x \in Call /\ x \notin CallOfReturn /\ x \notin CreateCall
  BY <1>1, ShipGoesOn
<1>4. CASE order = "confirmed" /\ Goto(c, "sum")
  <2>1. call' = [call EXCEPT ![c] = x]
    BY <1>4 DEF Goto
  <2> HIDE DEF x
  <2>2. QED
    BY <1>2, <1>3, <2>1, RequestGoesOn
<1>5. CASE order # "confirmed" /\ End(c)
  BY <1>2, <1>5, RequestEnds
<1>6. QED
  BY <1>4, <1>5 DEF ShipReadOrder

\* A request to change the status of the order.
LEMMA StatusCallIs ==
    ASSUME NEW at \in {"transition", "save"}, NEW to \in {"fulfilled", "cancelled"}
    PROVE  LET x == [at |-> at, op |-> "status", id |-> "order", to |-> to]
           IN  x \in StatusCall /\ x \in Call /\ x \notin CallOfReturn
                   /\ x \notin CreateCall
<1> DEFINE x == [at |-> at, op |-> "status", id |-> "order", to |-> to]
<1>1. x \in StatusCall
  BY DEF StatusCall
<1> HIDE DEF x
<1>2. x \in Call /\ x \notin CallOfReturn /\ x \notin CreateCall
  BY <1>1, KindsAreApart DEF Call, FulfillmentCall
<1>3. QED
  BY <1>1, <1>2 DEF x

LEMMA ShipReadShippedKeepsInv ==
    ASSUME Inv, UNCHANGED <<returnVars, lost>>, NEW c \in Calls, ShipReadShipped(c)
    PROVE  Inv'
<1> DEFINE x == [at |-> "transition", op |-> "status", id |-> "order",
                 to |-> "fulfilled"]
<1>1. UNCHANGED fulfillmentVars
  BY DEF ShipReadShipped
<1>2. x \in StatusCall /\ x \in Call /\ x \notin CallOfReturn /\ x \notin CreateCall
  BY StatusCallIs
<1>3. CASE FullyShipped(Shipped) /\ call' = [call EXCEPT ![c] = x]
  <2> HIDE DEF x
  <2>1. QED
    BY <1>1, <1>2, <1>3, RequestGoesOn
<1>4. CASE ~FullyShipped(Shipped) /\ End(c)
  BY <1>1, <1>4, RequestEnds
<1>5. QED
  BY <1>3, <1>4 DEF ShipReadShipped

LEMMA UpdateStatusKeepsInv ==
    ASSUME Inv, UNCHANGED <<returnVars, lost>>, NEW c \in Calls,
           UpdateStatus(c, "cancelled")
    PROVE  Inv'
<1> DEFINE x == [at |-> "transition", op |-> "status", id |-> "order",
                 to |-> "cancelled"]
<1>1. UNCHANGED fulfillmentVars /\ call' = [call EXCEPT ![c] = x]
  BY DEF UpdateStatus
<1>2. x \in StatusCall /\ x \in Call /\ x \notin CallOfReturn /\ x \notin CreateCall
  BY StatusCallIs
<1> HIDE DEF x
<1>3. QED
  BY <1>1, <1>2, RequestGoesOn

LEMMA TransitionReadKeepsInv ==
    ASSUME Inv, UNCHANGED <<returnVars, lost>>, NEW c \in Calls, TransitionRead(c)
    PROVE  Inv'
<1> DEFINE x == [call[c] EXCEPT !.at = "save"]
<1>1. call[c] \in StatusCall
  BY CallIsTyped, KindOfFulfillmentCall DEF TransitionRead, At
<1>2. UNCHANGED fulfillmentVars
  BY DEF TransitionRead
<1>3. x \in StatusCall
  BY <1>1 DEF StatusCall
<1>4. CASE Goto(c, "save")
  <2>1. call' = [call EXCEPT ![c] = x]
    BY <1>4 DEF Goto
  <2> HIDE DEF x
  <2>2. x \in Call /\ x \notin CallOfReturn /\ x \notin CreateCall
    BY <1>3, KindsAreApart DEF Call, FulfillmentCall
  <2>3. QED
    BY <1>2, <1>3, <2>1, <2>2, RequestGoesOn
<1>5. CASE ~CanTransition(order, call[c].to) /\ End(c)
  <2>1. order # "confirmed"
    BY <1>1, <1>5 DEF StatusCall, CanTransition
  <2>2. QED
    BY <1>2, <1>5, <2>1, RequestEnds
<1>6. QED
  BY <1>4, <1>5 DEF TransitionRead

\* Whatever is saved, the order is not left confirmed.
LEMMA TransitionSaveKeepsInv ==
    ASSUME Inv, UNCHANGED <<returnVars, lost>>, NEW c \in Calls, TransitionSave(c)
    PROVE  Inv'
<1>1. call[c] \in StatusCall
  BY CallIsTyped, KindOfFulfillmentCall DEF TransitionSave, At
<1>2. order' \in {"fulfilled", "cancelled"}
  BY <1>1 DEF TransitionSave, StatusCall
<1>3. UNCHANGED fulfillments /\ call' = [call EXCEPT ![c] = Idle]
  BY DEF TransitionSave, End
<1>4. \A d \in Calls : call'[d] \in CreateCall => call'[d] = call[d]
  BY <1>3, IdleIsCall DEF FulfillmentCall, Inv, ReturnsTypeOK
<1>5. ASSUME NEW d \in Calls PROVE CreateOK(d)'
  BY <1>3, <1>4 DEF Inv, FulfillmentInv, CreateOK
<1>6. ASSUME NEW d \in Calls, NEW e \in Calls \ {d} PROVE CreatesApart(d, e)'
  BY <1>4 DEF Inv, FulfillmentInv, CreatesApart
<1>7. Watched'
  BY <1>2 DEF Watched
<1>8. FulfillmentInv'
  BY <1>5, <1>6, <1>7 DEF FulfillmentInv
<1>9. order' \in OrderStatuses /\ fulfillments' \in [FulfillmentIds -> FulfillmentRow]
  BY <1>2, <1>3 DEF OrderStatuses, Inv, ReturnsTypeOK
<1>10. QED
  BY <1>3, <1>8, <1>9, IdleIsCall, FulfillmentStepKeepsInv
-----------------------------------------------------------------------------
(***************************************************************************)
(* Steps of returns                                                        *)
(***************************************************************************)

\* Where a request about a return goes on to.
LEMMA ReturnsGoOn ==
    ASSUME NEW x \in {Idle} \cup CallOfReturn
    PROVE  x \in Call /\ x \notin FulfillmentCall
  BY KindsAreApart DEF Call

\* A request about a return moves on to x: what its half says of the rows, of
\* x and of the other requests is left to show.
LEMMA ReturnStepKeepsInv ==
    ASSUME Inv, UNCHANGED <<fulfillmentVars, lost>>,
           NEW c \in Calls, call[c] \notin FulfillmentCall,
           NEW x \in {Idle} \cup CallOfReturn, call' = [call EXCEPT ![c] = x],
           returns' \in [ReturnIds -> ReturnRow],
           restocked' \in [ReturnIds -> [Lines -> Nat]],
           replacements' \in [ReturnIds -> Nat],
           payment' \in {"captured", "refunded"},
           paidBack' \in Nat,
           \A r \in ReturnIds : RowOK(r)',
           PaidOK',
           \A d \in Calls : CallOK(d)',
           \A d \in Calls \ {c} :
               \/ x \in ReturnCall /\ call[d] \in ReturnCall
               \/ x \in ReceiveCall /\ call[d] \in ReceiveCall
               => x.id # call[d].id
    PROVE  Inv'
<1>1. UNCHANGED <<order, fulfillments, lost>>
  BY DEF fulfillmentVars
<1>2. FulfillmentInv'
  BY <1>1, ReturnsGoOn, ReturnsAside
<1>3. /\ call'[c] = x
      /\ \A d \in Calls \ {c} : call'[d] = call[d]
  BY DEF Inv, ReturnsTypeOK
<1>4. ReturnsTypeOK'
  BY <1>1, ReturnsGoOn DEF Inv, ReturnsTypeOK
<1>5. ASSUME NEW d \in Calls, NEW e \in Calls \ {d} PROVE CallsApart(d, e)'
  BY <1>3 DEF Inv, ReturnInv, CallsApart
<1>6. ReturnInv'
  BY <1>5 DEF ReturnInv
<1>7. QED
  BY <1>2, <1>4, <1>6 DEF Inv

\* The same when no row changes; the provider may have paid something.
LEMMA ReturnRequestGoesOn ==
    ASSUME Inv, UNCHANGED <<fulfillmentVars, lost, returns, restocked, replacements>>,
           NEW c \in Calls, call[c] \notin FulfillmentCall,
           NEW x \in {Idle} \cup CallOfReturn, call' = [call EXCEPT ![c] = x],
           payment' \in {"captured", "refunded"},
           payment' = "refunded" => payment = "refunded" \/ paidBack' > 0,
           paidBack' \in Nat, paidBack' >= paidBack,
           CallOK(c)',
           \A d \in Calls \ {c} : x \in ReturnCall /\ call[d] \in ReturnCall =>
               x.id # call[d].id,
           x \notin ReceiveCall
    PROVE  Inv'
<1>1. /\ call'[c] = x
      /\ \A d \in Calls \ {c} : call'[d] = call[d]
  BY DEF Inv, ReturnsTypeOK
<1>2. /\ returns' \in [ReturnIds -> ReturnRow]
      /\ restocked' \in [ReturnIds -> [Lines -> Nat]]
      /\ replacements' \in [ReturnIds -> Nat]
      /\ paidBack \in Nat
  BY DEF Inv, ReturnsTypeOK
<1>3. ASSUME NEW r \in ReturnIds PROVE RowOK(r)'
  BY DEF Inv, ReturnInv, RowOK
<1>4. PaidOK'
  BY <1>2 DEF Inv, ReturnInv, PaidOK
<1>5. ASSUME NEW d \in Calls PROVE CallOK(d)'
  <2>1. CASE d = c
    BY <2>1
  <2>2. CASE d # c
    <3>1. CallOK(d) /\ call'[d] = call[d]
      BY <1>1, <2>2 DEF Inv, ReturnInv
    <3>2. paidBack > 0 => paidBack' > 0
      BY <1>2
    <3>3. QED
      BY <3>1, <3>2 DEF CallOK
  <2>3. QED
    BY <2>1, <2>2
<1>6. QED
  BY <1>2, <1>3, <1>4, <1>5, ReturnStepKeepsInv

LEMMA ReturnEnds ==
    ASSUME Inv, UNCHANGED <<fulfillmentVars, lost, returns, restocked, replacements>>,
           NEW c \in Calls, call[c] \notin FulfillmentCall, End(c),
           payment' \in {"captured", "refunded"},
           payment' = "refunded" => payment = "refunded" \/ paidBack' > 0,
           paidBack' \in Nat, paidBack' >= paidBack
    PROVE  Inv'
<1>1. call' = [call EXCEPT ![c] = Idle] /\ call'[c] = Idle
  BY DEF End, Inv, ReturnsTypeOK
<1>2. Idle \notin ReturnCall /\ Idle \notin ReceiveCall /\ Idle \notin RefundCall
  BY IdleIsCall DEF CallOfReturn
<1>3. CallOK(c)'
  BY <1>1, <1>2 DEF CallOK
<1>4. QED
  BY <1>1, <1>2, <1>3, ReturnRequestGoesOn

LEMMA ReturnReadKeepsInv ==
    ASSUME Inv, UNCHANGED lost, NEW c \in Calls, NEW r \in ReturnIds,
           NEW lines \in Quantities, NEW resolution \in {"refund", "exchange"},
           ReturnRead(c, r, lines, resolution)
    PROVE  Inv'
<1> DEFINE x == [at |-> "prior", op |-> "return", id |-> r, lines |-> lines,
                 resolution |-> resolution]
<1>1. x \in ReturnCall /\ x.id = r /\ x.lines = lines
  BY DEF ReturnCall
<1>2. /\ call' = [call EXCEPT ![c] = x]
      /\ UNCHANGED <<fulfillmentVars, returnVars>>
      /\ call[c] = Idle
      /\ lines # Nothing
      /\ returns[r].status = "none"
      /\ \A d \in Calls \ {c} : call[d] # Idle => call[d].id # r
  BY DEF ReturnRead, Fresh
<1> HIDE DEF x
<1>3. call'[c] = x
  BY <1>2 DEF Inv, ReturnsTypeOK
<1>4. UNCHANGED <<returns, restocked, replacements, payment, paidBack>>
  BY <1>2 DEF returnVars
<1>5. CallOK(c)'
  BY <1>1, <1>2, <1>3, <1>4, KindsAreApart DEF CallOK
<1>6. \A d \in Calls \ {c} : call[d] \in ReturnCall => x.id # call[d].id
  <2>1. Idle \notin ReturnCall
    BY IdleIsCall DEF CallOfReturn
  <2>2. QED
    BY <1>1, <1>2, <2>1
<1>7. /\ payment' \in {"captured", "refunded"}
      /\ payment' = "refunded" => payment = "refunded"
      /\ paidBack' \in Nat /\ paidBack' >= paidBack
  BY <1>4 DEF Inv, ReturnsTypeOK
<1>8. x \in {Idle} \cup CallOfReturn /\ x \notin ReceiveCall /\ call[c] \notin FulfillmentCall
  BY <1>1, <1>2, KindsAreApart DEF CallOfReturn
<1>9. QED
  BY <1>2, <1>4, <1>5, <1>6, <1>7, <1>8, ReturnRequestGoesOn
LEMMA ReturnPriorKeepsInv ==
    ASSUME Inv, UNCHANGED lost, NEW c \in Calls, ReturnPrior(c)
    PROVE  Inv'
<1> DEFINE x == [call[c] EXCEPT !.at = "request"]
<1>1. call[c] \in ReturnCall /\ call[c] \notin FulfillmentCall
  BY CallIsTyped, KindOfReturnCall, KindsAreApart DEF ReturnPrior, At, CallOfReturn
<1>2. UNCHANGED <<fulfillmentVars, returns, restocked, replacements, payment, paidBack>>
  BY DEF ReturnPrior, returnVars
<1>3. /\ payment' \in {"captured", "refunded"}
      /\ payment' = "refunded" => payment = "refunded"
      /\ paidBack' \in Nat /\ paidBack' >= paidBack
  BY <1>2 DEF Inv, ReturnsTypeOK
<1>4. x \in ReturnCall /\ x.id = call[c].id /\ x.lines = call[c].lines
  BY <1>1 DEF ReturnCall
<1>5. CASE Goto(c, "request")
  <2>1. call' = [call EXCEPT ![c] = x]
    BY <1>5 DEF Goto
  <2> HIDE DEF x
  <2>2. call'[c] = x
    BY <2>1 DEF Inv, ReturnsTypeOK
  <2>3. CallOK(c)'
    BY <1>1, <1>2, <1>4, <2>2, KindsAreApart DEF Inv, ReturnInv, CallOK
  <2>4. \A d \in Calls \ {c} : call[d] \in ReturnCall => x.id # call[d].id
    BY <1>1, <1>4 DEF Inv, ReturnInv, CallsApart
  <2>5. x \in {Idle} \cup CallOfReturn /\ x \notin ReceiveCall
    BY <1>4, KindsAreApart DEF CallOfReturn
  <2>6. QED
    BY <1>1, <1>2, <1>3, <2>1, <2>3, <2>4, <2>5, ReturnRequestGoesOn
<1>6. CASE End(c)
  BY <1>1, <1>2, <1>3, <1>6, ReturnEnds
<1>7. QED
  BY <1>5, <1>6 DEF ReturnPrior

LEMMA ReturnInsertKeepsInv ==
    ASSUME Inv, UNCHANGED lost, NEW c \in Calls, ReturnInsert(c)
    PROVE  Inv'
<1>1. PICK r : r = call[c].id
  OBVIOUS
<1>2. PICK row : row = [status |-> "requested", resolution |-> call[c].resolution,
                        lines |-> call[c].lines]
  OBVIOUS
<1>3. call[c] \in ReturnCall /\ call[c] \notin FulfillmentCall
  BY CallIsTyped, KindOfReturnCall, KindsAreApart DEF ReturnInsert, At, CallOfReturn
<1>4. /\ returns' = [returns EXCEPT ![r] = row]
      /\ call' = [call EXCEPT ![c] = Idle]
      /\ UNCHANGED <<fulfillmentVars, restocked, replacements, payment, paidBack>>
  BY <1>1, <1>2 DEF ReturnInsert, End
<1>5. r \in ReturnIds /\ row \in ReturnRow
  BY <1>1, <1>2, <1>3 DEF ReturnCall, ReturnRow, ReturnStatuses
<1>6. returns[r].status = "none" /\ row.lines # Nothing /\ row.status = "requested"
  BY <1>1, <1>2, <1>3 DEF Inv, ReturnInv, CallOK
<1>7. /\ returns' \in [ReturnIds -> ReturnRow]
      /\ returns'[r] = row
      /\ \A q \in ReturnIds \ {r} : returns'[q] = returns[q]
  BY <1>4, <1>5 DEF Inv, ReturnsTypeOK
<1>8. ASSUME NEW q \in ReturnIds PROVE RowOK(q)'
  <2>1. RowOK(q)
    BY DEF Inv, ReturnInv
  <2>2. CASE q = r
    <3>1. \A l \in Lines : restocked[r][l] \in Nat /\ ~(restocked[r][l] > 0)
      BY <1>5, <1>6, <2>1, <2>2 DEF RowOK, After, Inv, ReturnsTypeOK
    <3>2. \A l \in Lines : restocked[r][l] = 0
      BY <3>1
    <3>3. QED
      BY <1>4, <1>6, <1>7, <2>1, <2>2, <3>2 DEF RowOK
  <2>3. CASE q # r
    BY <1>4, <1>7, <2>1, <2>3 DEF RowOK
  <2>4. QED
    BY <2>2, <2>3
<1>9. PaidOK'
  BY <1>4, <1>6, <1>7 DEF Inv, ReturnInv, PaidOK
<1>10. /\ call'[c] = Idle
       /\ \A d \in Calls \ {c} : call'[d] = call[d]
  BY <1>4 DEF Inv, ReturnsTypeOK
<1>11. Idle \notin ReturnCall /\ Idle \notin ReceiveCall /\ Idle \notin RefundCall
  BY IdleIsCall DEF CallOfReturn
<1>12. ASSUME NEW d \in Calls PROVE CallOK(d)'
  <2>1. CASE d = c
    BY <1>10, <1>11, <2>1 DEF CallOK
  <2>2. CASE d # c
    <3>1. CallOK(d) /\ call'[d] = call[d]
      BY <1>10, <2>2 DEF Inv, ReturnInv
    <3>2. call[d] \in ReturnCall => call[d].id \in ReturnIds \ {r}
      BY <1>1, <1>3, <2>2 DEF Inv, ReturnInv, CallsApart, ReturnCall
    <3>3. call[d] \in ReceiveCall => call[d].id \in ReturnIds \ {r}
      BY <1>6, <3>1 DEF CallOK, After, ReceiveCall
    <3>4. call[d] \in RefundCall => call[d].id \in ReturnIds \ {r}
      BY <1>6, <3>1 DEF CallOK, After, RefundCall
    <3>5. QED
      BY <1>4, <1>7, <3>1, <3>2, <3>3, <3>4 DEF CallOK
  <2>3. QED
    BY <2>1, <2>2
<1>13. /\ restocked' \in [ReturnIds -> [Lines -> Nat]]
       /\ replacements' \in [ReturnIds -> Nat]
       /\ payment' \in {"captured", "refunded"}
       /\ paidBack' \in Nat
  BY <1>4 DEF Inv, ReturnsTypeOK
<1>14. QED
  BY <1>3, <1>4, <1>7, <1>8, <1>9, <1>11, <1>12, <1>13, ReturnStepKeepsInv

\* What a return's transition means for the rows, and for requests that stay
\* where they are.
LEMMA TransitionKeeps ==
    ASSUME Inv, NEW r \in ReturnIds, NEW to, Transition(r, to),
           UNCHANGED <<restocked, payment, paidBack>>,
           replacements' = IF to = "exchanged" THEN [replacements EXCEPT ![r] = @ + 1]
                           ELSE replacements,
           to = "refunded" => paidBack > 0
    PROVE  /\ returns' \in [ReturnIds -> ReturnRow]
           /\ restocked' \in [ReturnIds -> [Lines -> Nat]]
           /\ replacements' \in [ReturnIds -> Nat]
           /\ payment' \in {"captured", "refunded"}
           /\ paidBack' \in Nat
           /\ \A q \in ReturnIds : RowOK(q)'
           /\ PaidOK'
           /\ \A d \in Calls : call'[d] = call[d] => CallOK(d)'
           /\ returns'[r].status = to
<1> DEFINE from == returns[r].status
           row == [returns[r] EXCEPT !.status = to]
<1>1. /\ from # "none"
      /\ from \in After => from = "received" /\ to \in After
      /\ to = "exchanged" <=> from = "received" /\ to # "refunded"
      /\ to \in ReturnStatuses \ {"none"}
  BY DEF Transition, CanTransitionReturn, After, ReturnStatuses
<1>2. /\ row \in ReturnRow /\ row.status = to
      /\ row.lines = returns[r].lines
  BY <1>1 DEF Inv, ReturnsTypeOK, ReturnRow
<1>3. /\ returns' \in [ReturnIds -> ReturnRow]
      /\ returns'[r].status = to /\ returns'[r].lines = returns[r].lines
      /\ \A q \in ReturnIds \ {r} : returns'[q] = returns[q]
  BY <1>2 DEF Transition, Inv, ReturnsTypeOK
<1>4. /\ replacements' \in [ReturnIds -> Nat]
      /\ replacements'[r] = IF to = "exchanged" THEN replacements[r] + 1
                            ELSE replacements[r]
      /\ \A q \in ReturnIds \ {r} : replacements'[q] = replacements[q]
  BY DEF Inv, ReturnsTypeOK
<1> HIDE DEF row
<1>5. ASSUME NEW q \in ReturnIds PROVE RowOK(q)'
  <2>1. RowOK(q)
    BY DEF Inv, ReturnInv
  <2>2. CASE q = r
    <3>1. replacements[r] = 0
      BY <1>1, <2>1, <2>2 DEF RowOK, After
    <3>2. replacements'[r] = IF to = "exchanged" THEN 1 ELSE 0
      BY <1>4, <3>1
    <3>3. ASSUME NEW l \in Lines
          PROVE  /\ restocked'[r][l] \in {0, returns'[r].lines[l]}
                 /\ restocked'[r][l] > 0 => to \in After
      BY <1>1, <1>3, <2>1, <2>2 DEF RowOK
    <3>4. QED
      BY <1>1, <1>3, <2>1, <2>2, <3>2, <3>3 DEF RowOK
  <2>3. CASE q # r
    BY <1>3, <1>4, <2>1, <2>3 DEF RowOK
  <2>4. QED
    BY <2>2, <2>3
<1>6. PaidOK'
  BY <1>3 DEF Inv, ReturnInv, PaidOK
<1>7. ASSUME NEW d \in Calls, call'[d] = call[d] PROVE CallOK(d)'
  <2>1. CallOK(d)
    BY DEF Inv, ReturnInv
  <2>2. call[d] \in ReturnCall \cup ReceiveCall \cup RefundCall => call[d].id \in ReturnIds
    BY DEF ReturnCall, ReceiveCall, RefundCall
  <2>3. ASSUME NEW q \in ReturnIds
        PROVE  /\ returns[q].status = "none" => returns'[q].status = "none"
               /\ returns[q].status \in After => returns'[q].status \in After
    BY <1>1, <1>3
  <2>4. QED
    BY <1>7, <2>1, <2>2, <2>3 DEF CallOK
<1>8. QED
  BY <1>3, <1>4, <1>5, <1>6, <1>7 DEF Inv, ReturnsTypeOK
LEMMA ApproveOrCancelKeepsInv ==
    ASSUME Inv, UNCHANGED lost, NEW r \in ReturnIds, NEW to \in {"approved", "cancelled"},
           Transition(r, to),
           UNCHANGED <<fulfillmentVars, restocked, replacements, payment, paidBack, call>>
    PROVE  Inv'
<1>1. UNCHANGED <<order, fulfillments>>
  BY DEF fulfillmentVars
<1>2. FulfillmentInv'
  BY <1>1, FulfillmentsStay DEF Inv, Watches
<1>3. /\ returns' \in [ReturnIds -> ReturnRow]
      /\ \A q \in ReturnIds : RowOK(q)'
      /\ PaidOK'
      /\ \A d \in Calls : CallOK(d)'
  BY TransitionKeeps
<1>4. ReturnsTypeOK'
  BY <1>1, <1>3 DEF Inv, ReturnsTypeOK
<1>5. ReturnInv'
  BY <1>3 DEF Inv, ReturnInv, CallsApart
<1>6. QED
  BY <1>2, <1>4, <1>5 DEF Inv

LEMMA ReceiveKeepsInv ==
    ASSUME Inv, UNCHANGED lost, NEW c \in Calls, NEW r \in ReturnIds, Receive(c, r)
    PROVE  Inv'
<1> DEFINE x == [at |-> "restock", op |-> "receive", id |-> r, todo |-> Lines]
<1>1. /\ x \in ReceiveCall /\ x.id = r
      /\ x \notin ReturnCall /\ x \notin RefundCall
      /\ x \in {Idle} \cup CallOfReturn
  BY KindsAreApart DEF ReceiveCall, CallOfReturn
<1>2. /\ Transition(r, "received")
      /\ call' = [call EXCEPT ![c] = x]
      /\ call[c] = Idle
      /\ UNCHANGED <<fulfillmentVars, restocked, replacements, payment, paidBack>>
  BY DEF Receive
<1> HIDE DEF x
<1>3. /\ call'[c] = x
      /\ \A d \in Calls \ {c} : call'[d] = call[d]
  BY <1>2 DEF Inv, ReturnsTypeOK
<1>4. returns[r].status \notin After
  BY <1>2 DEF Transition, CanTransitionReturn, After
<1>5. \A l \in Lines : restocked[r][l] = 0
  <2>1. \A l \in Lines : restocked[r][l] \in Nat /\ ~(restocked[r][l] > 0)
    BY <1>4 DEF Inv, ReturnsTypeOK, ReturnInv, RowOK
  <2>2. QED
    BY <2>1
<1>6. /\ returns' \in [ReturnIds -> ReturnRow]
      /\ restocked' \in [ReturnIds -> [Lines -> Nat]]
      /\ replacements' \in [ReturnIds -> Nat]
      /\ payment' \in {"captured", "refunded"}
      /\ paidBack' \in Nat
      /\ \A q \in ReturnIds : RowOK(q)'
      /\ PaidOK'
      /\ \A d \in Calls \ {c} : CallOK(d)'
      /\ returns'[r].status = "received"
  BY <1>2, <1>3, TransitionKeeps
<1>7. \A l \in x.todo : restocked'[r][l] = 0
  BY <1>1, <1>2, <1>5 DEF ReceiveCall
<1>8. CallOK(c)'
  BY <1>1, <1>3, <1>6, <1>7 DEF CallOK, After
<1>9. \A d \in Calls \ {c} : call[d] \in ReceiveCall => x.id # call[d].id
  BY <1>1, <1>4 DEF Inv, ReturnInv, CallOK
<1>10. call[c] \notin FulfillmentCall
  BY <1>2, IdleIsCall
<1>11. \A d \in Calls : CallOK(d)'
  BY <1>6, <1>8
<1>12. \A d \in Calls \ {c} :
           \/ x \in ReturnCall /\ call[d] \in ReturnCall
           \/ x \in ReceiveCall /\ call[d] \in ReceiveCall
           => x.id # call[d].id
  BY <1>1, <1>9
<1>13. UNCHANGED <<fulfillmentVars, lost>>
  BY <1>2
<1>14. x \in {Idle} \cup CallOfReturn
  BY <1>1
<1>15. QED
  BY <1>2, <1>6, <1>10, <1>11, <1>12, <1>13, <1>14, ReturnStepKeepsInv

\* What restocking one line leaves to show, whether or not it was the last.
LEMMA RestockLine ==
    ASSUME Inv, UNCHANGED lost, NEW c \in Calls, call[c] \in ReceiveCall,
           NEW l \in call[c].todo,
           restocked' = [restocked EXCEPT
               ![call[c].id][l] = @ + returns[call[c].id].lines[l]],
           UNCHANGED <<fulfillmentVars, returns, replacements, payment, paidBack>>,
           NEW x \in {Idle} \cup ReceiveCall, call' = [call EXCEPT ![c] = x],
           x \in ReceiveCall => x.id = call[c].id /\ x.todo = call[c].todo \ {l}
    PROVE  Inv'
<1>1. PICK r : r = call[c].id
  OBVIOUS
<1>2. /\ r \in ReturnIds /\ l \in Lines
      /\ returns[r].status \in After
      /\ \A k \in call[c].todo : restocked[r][k] = 0
  BY <1>1 DEF Inv, ReturnInv, CallOK, ReceiveCall
<1>3. returns[r].lines \in [Lines -> Nat]
  BY <1>2, QuantitiesAreNat DEF Inv, ReturnsTypeOK, ReturnRow
<1>4. restocked' = [restocked EXCEPT ![r] =
                        [restocked[r] EXCEPT ![l] = @ + returns[r].lines[l]]]
  BY <1>1
<1>5. restocked[r] \in [Lines -> Nat]
  BY <1>2 DEF Inv, ReturnsTypeOK
<1>6. /\ restocked'[r] \in [Lines -> Nat]
      /\ restocked'[r][l] = returns[r].lines[l]
      /\ \A k \in Lines \ {l} : restocked'[r][k] = restocked[r][k]
      /\ \A q \in ReturnIds \ {r} : restocked'[q] = restocked[q]
  <2>1. restocked'[r] = [restocked[r] EXCEPT ![l] = @ + returns[r].lines[l]]
    BY <1>2, <1>4 DEF Inv, ReturnsTypeOK
  <2>2. restocked[r][l] + returns[r].lines[l] = returns[r].lines[l]
    BY <1>2, <1>3
  <2>3. \A q \in ReturnIds \ {r} : restocked'[q] = restocked[q]
    BY <1>4 DEF Inv, ReturnsTypeOK
  <2>4. PICK old \in [Lines -> Nat] : old = restocked[r]
    BY <1>5
  <2>5. PICK n \in Nat : n = old[l] + returns[r].lines[l]
    BY <1>2, <1>3, <2>4
  <2>6. restocked'[r] = [old EXCEPT ![l] = n]
    BY <1>2, <2>1, <2>4, <2>5
  <2>7. PICK new : new = restocked'[r]
    OBVIOUS
  <2>8. /\ new \in [Lines -> Nat]
        /\ new[l] = n
        /\ \A k \in Lines \ {l} : new[k] = old[k]
    BY <1>2, <2>6, <2>7
  <2>9. QED
    BY <2>2, <2>3, <2>4, <2>5, <2>7, <2>8
<1>7. restocked' \in [ReturnIds -> [Lines -> Nat]]
  BY <1>2, <1>4, <1>6 DEF Inv, ReturnsTypeOK
<1>8. ASSUME NEW q \in ReturnIds PROVE RowOK(q)'
  <2>1. RowOK(q)
    BY DEF Inv, ReturnInv
  <2>2. CASE q = r
    <3>1. ASSUME NEW k \in Lines PROVE restocked'[r][k] \in {0, returns[r].lines[k]}
      BY <1>6, <2>1, <2>2 DEF RowOK
    <3>2. QED
      BY <1>2, <2>1, <2>2, <3>1 DEF RowOK
  <2>3. CASE q # r
    BY <1>6, <2>1, <2>3 DEF RowOK
  <2>4. QED
    BY <2>2, <2>3
<1>9. PaidOK'
  BY DEF Inv, ReturnInv, PaidOK
<1>10. /\ call'[c] = x
       /\ \A d \in Calls \ {c} : call'[d] = call[d]
  BY DEF Inv, ReturnsTypeOK
<1>11. Idle \notin ReturnCall /\ Idle \notin ReceiveCall /\ Idle \notin RefundCall
  BY IdleIsCall DEF CallOfReturn
<1>12. ASSUME NEW d \in Calls PROVE CallOK(d)'
  <2>1. CASE d = c /\ x = Idle
    BY <1>10, <1>11, <2>1 DEF CallOK
  <2>2. CASE d = c /\ x \in ReceiveCall
    <3>1. x \notin ReturnCall /\ x \notin RefundCall /\ x.id = r
      BY <1>1, <2>2, KindsAreApart
    <3>2. ASSUME NEW k \in x.todo PROVE restocked'[r][k] = 0
      BY <1>2, <1>6, <2>2 DEF ReceiveCall
    <3>3. QED
      BY <1>2, <1>10, <2>2, <3>1, <3>2 DEF CallOK
  <2>3. CASE d # c
    <3>1. CallOK(d) /\ call'[d] = call[d]
      BY <1>10, <2>3 DEF Inv, ReturnInv
    <3>2. call[d] \in ReceiveCall => call[d].id \in ReturnIds \ {r}
      BY <1>1, <2>3 DEF Inv, ReturnInv, CallsApart, ReceiveCall
    <3>3. QED
      BY <1>6, <3>1, <3>2 DEF CallOK
  <2>4. QED
    BY <2>1, <2>2, <2>3
<1>13. \A d \in Calls \ {c} :
           \/ x \in ReturnCall /\ call[d] \in ReturnCall
           \/ x \in ReceiveCall /\ call[d] \in ReceiveCall
           => x.id # call[d].id
  BY <1>11, KindsAreApart DEF Inv, ReturnInv, CallsApart
<1>14. /\ returns' \in [ReturnIds -> ReturnRow]
       /\ replacements' \in [ReturnIds -> Nat]
       /\ payment' \in {"captured", "refunded"}
       /\ paidBack' \in Nat
  BY DEF Inv, ReturnsTypeOK
<1>15. call[c] \notin FulfillmentCall /\ x \in {Idle} \cup CallOfReturn
  BY KindsAreApart DEF CallOfReturn
<1>16. UNCHANGED <<fulfillmentVars, lost>>
  OBVIOUS
<1>17. \A q \in ReturnIds : RowOK(q)'
  BY <1>8, Zenon
<1>18. \A d \in Calls : CallOK(d)'
  BY <1>12, Zenon
<1>19. QED
  BY <1>7, <1>9, <1>13, <1>14, <1>15, <1>16, <1>17, <1>18, ReturnStepKeepsInv,
     ZenonT(60)

LEMMA RestockKeepsInv ==
    ASSUME Inv, UNCHANGED lost, NEW c \in Calls, Restock(c)
    PROVE  Inv'
<1>1. call[c] \in ReceiveCall
  BY CallIsTyped, KindOfReturnCall DEF Restock, At
<1>2. PICK l \in call[c].todo :
          /\ restocked' = [restocked EXCEPT
                 ![call[c].id][l] = @ + returns[call[c].id].lines[l]]
          /\ \/ End(c)
             \/ call' = [call EXCEPT ![c].todo = @ \ {l}]
  BY DEF Restock
<1> DEFINE y == [call[c] EXCEPT !.todo = @ \ {l}]
<1>3. y \in ReceiveCall /\ y.id = call[c].id /\ y.todo = call[c].todo \ {l}
  BY <1>1 DEF ReceiveCall
<1>4. UNCHANGED <<fulfillmentVars, returns, replacements, payment, paidBack>>
  BY DEF Restock
<1>5. CASE End(c)
  <2>1. call' = [call EXCEPT ![c] = Idle] /\ Idle \notin ReceiveCall
    BY <1>5, IdleIsCall DEF End, CallOfReturn
  <2>2. QED
    BY <1>1, <1>2, <1>4, <2>1, RestockLine
<1>6. CASE call' = [call EXCEPT ![c].todo = @ \ {l}]
  <2>1. call' = [call EXCEPT ![c] = y]
    BY <1>6
  <2> HIDE DEF y
  <2>2. QED
    BY <1>1, <1>2, <1>3, <1>4, <2>1, RestockLine
<1>7. QED
  BY <1>2, <1>5, <1>6
\* A refund's request that writes no row goes to label; what was paid back may
\* have grown.
LEMMA RefundGoesOn ==
    ASSUME Inv, UNCHANGED <<fulfillmentVars, lost, returns, restocked, replacements>>,
           NEW c \in Calls, call[c] \notin FulfillmentCall,
           NEW x \in RefundCall, call' = [call EXCEPT ![c] = x],
           returns[x.id].status \in After,
           x.at \in {"refunded", "complete"} => paidBack' > 0,
           payment' \in {"captured", "refunded"},
           payment' = "refunded" => payment = "refunded" \/ paidBack' > 0,
           paidBack' \in Nat, paidBack' >= paidBack
    PROVE  Inv'
<1>1. call'[c] = x
  BY DEF Inv, ReturnsTypeOK
<1>2. x \notin ReturnCall /\ x \notin ReceiveCall
  BY KindsAreApart
<1>3. CallOK(c)'
  BY <1>1, <1>2 DEF CallOK
<1>4. x \in {Idle} \cup CallOfReturn
  BY DEF CallOfReturn
<1>5. \A d \in Calls \ {c} : x \in ReturnCall /\ call[d] \in ReturnCall => x.id # call[d].id
  BY <1>2
<1>6. UNCHANGED <<fulfillmentVars, lost, returns, restocked, replacements>>
  OBVIOUS
<1>7. QED
  BY <1>2, <1>3, <1>4, <1>5, <1>6, ReturnRequestGoesOn

LEMMA RefundReadKeepsInv ==
    ASSUME Inv, UNCHANGED lost, NEW c \in Calls, NEW r \in ReturnIds,
           NEW named \in BOOLEAN, RefundRead(c, r, named)
    PROVE  Inv'
<1> DEFINE x == [at |-> "engine", op |-> "refund", id |-> r]
<1>1. x \in RefundCall /\ x.id = r /\ x.at = "engine"
  BY DEF RefundCall
<1>2. /\ call' = [call EXCEPT ![c] = x] /\ call[c] = Idle
      /\ UNCHANGED <<fulfillmentVars, returns, restocked, replacements, payment, paidBack>>
  BY DEF RefundRead, returnVars
<1>3. returns[r].status \in After
  BY DEF RefundRead, CanTransitionReturn, After
<1> HIDE DEF x
<1>4. call[c] \notin FulfillmentCall
  BY <1>2, IdleIsCall
<1>5. /\ payment' \in {"captured", "refunded"}
      /\ payment' = "refunded" => payment = "refunded"
      /\ paidBack' \in Nat /\ paidBack' >= paidBack
  BY <1>2 DEF Inv, ReturnsTypeOK
<1>6. UNCHANGED <<fulfillmentVars, lost, returns, restocked, replacements>>
  BY <1>2
<1>7. QED
  BY <1>1, <1>2, <1>3, <1>4, <1>5, <1>6, RefundGoesOn

\* The request of a refund, wherever it is.
LEMMA RefundCallIs ==
    ASSUME Inv, NEW c \in Calls,
           call[c].at \in {"engine", "ask", "refunded", "not_refunded", "complete"}
    PROVE  /\ call[c] \in RefundCall /\ call[c] \notin FulfillmentCall
           /\ call[c].id \in ReturnIds
           /\ returns[call[c].id].status \in After
           /\ \A label \in {"engine", "ask", "refunded", "not_refunded", "complete"} :
                  LET y == [call[c] EXCEPT !.at = label]
                  IN  y \in RefundCall /\ y.id = call[c].id /\ y.at = label
<1>1. call[c] \in RefundCall /\ call[c] \notin FulfillmentCall
  BY CallIsTyped, KindOfReturnCall, KindsAreApart DEF CallOfReturn
<1>2. call[c].id \in ReturnIds /\ returns[call[c].id].status \in After
  BY <1>1 DEF Inv, ReturnInv, CallOK, RefundCall
<1>3. ASSUME NEW label \in {"engine", "ask", "refunded", "not_refunded", "complete"}
      PROVE  LET y == [call[c] EXCEPT !.at = label]
             IN  y \in RefundCall /\ y.id = call[c].id /\ y.at = label
  BY <1>1 DEF RefundCall
<1>4. QED
  BY <1>1, <1>2, <1>3

LEMMA EngineReadKeepsInv ==
    ASSUME Inv, UNCHANGED lost, NEW c \in Calls, EngineRead(c)
    PROVE  Inv'
<1>1. PICK label \in {"complete", "ask"} :
          Goto(c, label) /\ (label = "complete" => payment = "refunded")
  BY DEF EngineRead
<1>2. UNCHANGED <<fulfillmentVars, returns, restocked, replacements, payment, paidBack>>
  BY DEF EngineRead, returnVars
<1>3. PICK x : x = [call[c] EXCEPT !.at = label]
  OBVIOUS
<1>4. call[c].at = "engine"
  BY DEF EngineRead, At
<1>5. /\ x \in RefundCall /\ x.at = label /\ call[c] \notin FulfillmentCall
      /\ returns[x.id].status \in After
  BY <1>3, <1>4, RefundCallIs
<1>6. call' = [call EXCEPT ![c] = x]
  BY <1>1, <1>3 DEF Goto
<1>7. x.at \in {"refunded", "complete"} => paidBack' > 0
  BY <1>1, <1>2, <1>5 DEF Inv, ReturnInv, PaidOK
<1>8. /\ payment' \in {"captured", "refunded"}
      /\ payment' = "refunded" => payment = "refunded"
      /\ paidBack' \in Nat /\ paidBack' >= paidBack
  BY <1>2 DEF Inv, ReturnsTypeOK
<1>9. UNCHANGED <<fulfillmentVars, lost, returns, restocked, replacements>>
  BY <1>2
<1>10. QED
  BY <1>5, <1>6, <1>7, <1>8, <1>9, RefundGoesOn

\* What the provider pays back for a return is more than nothing.
LEMMA EngineAskKeepsInv ==
    ASSUME Inv, UNCHANGED lost, NEW c \in Calls, EngineAsk(c)
    PROVE  Inv'
<1>1. PICK amount : amount = Amount(returns[call[c].id].lines)
  OBVIOUS
<1>2. \/ /\ paidBack' = paidBack + amount
         /\ Goto(c, "refunded") \/ End(c)
      \/ /\ paidBack' = paidBack
         /\ Goto(c, "not_refunded") \/ End(c)
  BY <1>1 DEF EngineAsk
<1>3. UNCHANGED <<fulfillmentVars, returns, restocked, replacements, payment>>
  BY DEF EngineAsk
<1>4. call[c].at = "ask"
  BY DEF EngineAsk, At
<1>5. /\ call[c].id \in ReturnIds /\ call[c] \notin FulfillmentCall
      /\ returns[call[c].id].status \in After
  BY <1>4, RefundCallIs
<1>6. amount \in Nat /\ amount > 0
  <2>1. returns[call[c].id].lines \in Quantities
    BY <1>5 DEF Inv, ReturnsTypeOK, ReturnRow
  <2>2. returns[call[c].id].lines # Nothing
    BY <1>5 DEF Inv, ReturnInv, RowOK, After
  <2>3. QED
    BY <1>1, <2>1, <2>2, AmountIsPositive
<1>7. paidBack \in Nat
  BY DEF Inv, ReturnsTypeOK
<1>8. /\ payment' \in {"captured", "refunded"}
      /\ payment' = "refunded" => payment = "refunded"
      /\ paidBack' \in Nat /\ paidBack' >= paidBack
  BY <1>2, <1>3, <1>6, <1>7 DEF Inv, ReturnsTypeOK
<1>9. UNCHANGED <<fulfillmentVars, lost, returns, restocked, replacements>>
  BY <1>3
<1>10. CASE End(c)
  BY <1>5, <1>8, <1>9, <1>10, ReturnEnds
<1>11. ASSUME NEW label \in {"refunded", "not_refunded"}, Goto(c, label),
              label = "refunded" => paidBack' = paidBack + amount
       PROVE  Inv'
  <2>1. PICK x : x = [call[c] EXCEPT !.at = label]
    OBVIOUS
  <2>2. x \in RefundCall /\ x.at = label /\ returns[x.id].status \in After
    BY <1>4, <2>1, RefundCallIs
  <2>3. call' = [call EXCEPT ![c] = x]
    BY <1>11, <2>1 DEF Goto
  <2>4. x.at \in {"refunded", "complete"} => paidBack' > 0
    BY <1>6, <1>7, <1>11, <2>2
  <2>5. QED
    BY <1>5, <1>8, <1>9, <2>2, <2>3, <2>4, RefundGoesOn
<1>12. QED
  BY <1>2, <1>10, <1>11

LEMMA EngineSaveKeepsInv ==
    ASSUME Inv, UNCHANGED lost, NEW c \in Calls, EngineSave(c)
    PROVE  Inv'
<1>1. UNCHANGED <<fulfillmentVars, lost, returns, restocked, replacements, paidBack>>
  BY DEF EngineSave
<1>2. call[c].at \in {"refunded", "not_refunded"}
  BY DEF EngineSave, At
<1>3. call[c] \in RefundCall /\ call[c] \notin FulfillmentCall
  BY <1>2, RefundCallIs
<1>4. paidBack' \in Nat /\ paidBack' >= paidBack
  BY <1>1 DEF Inv, ReturnsTypeOK
<1>5. CASE At(c, "refunded") /\ payment' = "refunded" /\ Goto(c, "complete")
  <2>1. paidBack' > 0
    BY <1>1, <1>3, <1>5 DEF At, Inv, ReturnInv, CallOK
  <2>2. PICK x : x = [call[c] EXCEPT !.at = "complete"]
    OBVIOUS
  <2>3. x \in RefundCall /\ x.at = "complete" /\ returns[x.id].status \in After
    BY <1>2, <2>2, RefundCallIs
  <2>4. call' = [call EXCEPT ![c] = x]
    BY <1>5, <2>2 DEF Goto
  <2>5. QED
    BY <1>1, <1>3, <1>4, <1>5, <2>1, <2>3, <2>4, RefundGoesOn
<1>6. CASE payment' = "captured" /\ End(c)
  BY <1>1, <1>3, <1>4, <1>6, ReturnEnds
<1>7. QED
  BY <1>5, <1>6 DEF EngineSave

\* A request about a return that ends, with or without a transition of its row.
LEMMA CommitEnds ==
    ASSUME Inv, UNCHANGED <<fulfillmentVars, lost, restocked, payment, paidBack>>,
           NEW c \in Calls, call[c] \notin FulfillmentCall, End(c),
           NEW r \in ReturnIds, NEW to, to = "refunded" => paidBack > 0,
           \/ /\ Transition(r, to)
              /\ replacements' = IF to = "exchanged"
                                 THEN [replacements EXCEPT ![r] = @ + 1]
                                 ELSE replacements
           \/ UNCHANGED <<returns, replacements>>
    PROVE  Inv'
<1>1. CASE UNCHANGED <<returns, replacements>>
  <2>1. UNCHANGED <<fulfillmentVars, lost, returns, restocked, replacements>>
    BY <1>1
  <2>2. /\ payment' \in {"captured", "refunded"}
        /\ payment' = "refunded" => payment = "refunded"
        /\ paidBack' \in Nat /\ paidBack' >= paidBack
    BY DEF Inv, ReturnsTypeOK
  <2>3. QED
    BY <2>1, <2>2, ReturnEnds
<1>2. CASE /\ Transition(r, to)
           /\ replacements' = IF to = "exchanged"
                              THEN [replacements EXCEPT ![r] = @ + 1]
                              ELSE replacements
  <2>1. /\ returns' \in [ReturnIds -> ReturnRow]
        /\ restocked' \in [ReturnIds -> [Lines -> Nat]]
        /\ replacements' \in [ReturnIds -> Nat]
        /\ payment' \in {"captured", "refunded"}
        /\ paidBack' \in Nat
        /\ \A q \in ReturnIds : RowOK(q)'
        /\ PaidOK'
        /\ \A d \in Calls : call'[d] = call[d] => CallOK(d)'
    BY <1>2, TransitionKeeps
  <2>2. /\ call' = [call EXCEPT ![c] = Idle] /\ call'[c] = Idle
        /\ \A d \in Calls \ {c} : call'[d] = call[d]
    BY DEF End, Inv, ReturnsTypeOK
  <2>3. Idle \notin ReturnCall /\ Idle \notin ReceiveCall /\ Idle \notin RefundCall
    BY IdleIsCall DEF CallOfReturn
  <2>4. CallOK(c)'
    BY <2>2, <2>3 DEF CallOK
  <2>5. \A d \in Calls : CallOK(d)'
    BY <2>1, <2>2, <2>4
  <2>6. UNCHANGED <<fulfillmentVars, lost>> /\ Idle \in {Idle} \cup CallOfReturn
    OBVIOUS
  <2>7. QED
    BY <2>1, <2>2, <2>3, <2>5, <2>6, ReturnStepKeepsInv
<1>3. QED
  BY <1>1, <1>2

LEMMA RefundCommitKeepsInv ==
    ASSUME Inv, UNCHANGED lost, NEW c \in Calls, RefundCommit(c)
    PROVE  Inv'
<1>1. call[c].at = "complete"
  BY DEF RefundCommit, At
<1>2. call[c] \in RefundCall /\ call[c] \notin FulfillmentCall /\ call[c].id \in ReturnIds
  BY <1>1, RefundCallIs
<1>3. paidBack > 0
  BY <1>1, <1>2 DEF Inv, ReturnInv, CallOK
<1>4. /\ UNCHANGED <<fulfillmentVars, lost, restocked, replacements, payment, paidBack>>
      /\ End(c)
      /\ Transition(call[c].id, "refunded") \/ UNCHANGED returns
  BY DEF RefundCommit
<1>5. \/ /\ Transition(call[c].id, "refunded")
         /\ replacements' = IF "refunded" = "exchanged"
                            THEN [replacements EXCEPT ![call[c].id] = @ + 1]
                            ELSE replacements
      \/ UNCHANGED <<returns, replacements>>
  BY <1>4
<1>6. UNCHANGED <<fulfillmentVars, lost, restocked, payment, paidBack>>
  BY <1>4
<1>7. QED
  BY <1>2, <1>3, <1>4, <1>5, <1>6, CommitEnds

LEMMA ExchangeReadKeepsInv ==
    ASSUME Inv, UNCHANGED lost, NEW c \in Calls, NEW r \in ReturnIds, ExchangeRead(c, r)
    PROVE  Inv'
<1> DEFINE x == [at |-> "exchange", op |-> "exchange", id |-> r]
<1>1. /\ x \in ExchangeCall /\ x \in {Idle} \cup CallOfReturn
      /\ x \notin ReturnCall /\ x \notin ReceiveCall /\ x \notin RefundCall
  BY KindsAreApart DEF ExchangeCall, CallOfReturn
<1>2. /\ call' = [call EXCEPT ![c] = x] /\ call[c] = Idle
      /\ UNCHANGED <<fulfillmentVars, returns, restocked, replacements, payment, paidBack>>
  BY DEF ExchangeRead, returnVars
<1> HIDE DEF x
<1>3. call[c] \notin FulfillmentCall
  BY <1>2, IdleIsCall
<1>4. call'[c] = x
  BY <1>2 DEF Inv, ReturnsTypeOK
<1>5. CallOK(c)'
  BY <1>1, <1>4 DEF CallOK
<1>6. /\ payment' \in {"captured", "refunded"}
      /\ payment' = "refunded" => payment = "refunded"
      /\ paidBack' \in Nat /\ paidBack' >= paidBack
  BY <1>2 DEF Inv, ReturnsTypeOK
<1>7. /\ UNCHANGED <<fulfillmentVars, lost, returns, restocked, replacements>>
      /\ \A d \in Calls \ {c} : x \in ReturnCall /\ call[d] \in ReturnCall =>
             x.id # call[d].id
  BY <1>1, <1>2
<1>8. QED
  BY <1>1, <1>2, <1>3, <1>5, <1>6, <1>7, ReturnRequestGoesOn

LEMMA ExchangeCommitKeepsInv ==
    ASSUME Inv, UNCHANGED lost, NEW c \in Calls, ExchangeCommit(c)
    PROVE  Inv'
<1>1. call[c] \in ExchangeCall /\ call[c] \notin FulfillmentCall
  BY CallIsTyped, KindOfReturnCall, KindsAreApart DEF ExchangeCommit, At, CallOfReturn
<1>2. PICK r \in ReturnIds : r = call[c].id
  BY <1>1 DEF ExchangeCall
<1>3. PICK to : to = "exchanged"
  OBVIOUS
<1>4. UNCHANGED <<fulfillmentVars, lost, restocked, payment, paidBack>> /\ End(c)
  BY DEF ExchangeCommit
<1>5. \/ /\ Transition(r, to)
         /\ replacements' = IF to = "exchanged"
                            THEN [replacements EXCEPT ![r] = @ + 1]
                            ELSE replacements
      \/ UNCHANGED <<returns, replacements>>
  BY <1>2, <1>3 DEF ExchangeCommit
<1>6. to # "refunded"
  BY <1>3
<1>7. QED
  BY <1>1, <1>4, <1>5, <1>6, CommitEnds

\* A crash that cuts off a request watching the order leaves a note of it.
LEMMA DieKeepsInv ==
    ASSUME Inv, NEW c \in Calls, Die(c)
    PROVE  Inv'
<1>1. /\ call' = [call EXCEPT ![c] = Idle] /\ call'[c] = Idle
      /\ \A d \in Calls \ {c} : call'[d] = call[d]
  BY DEF Die, End, Inv, ReturnsTypeOK
<1>2. UNCHANGED <<order, fulfillments, returns, restocked, replacements, payment, paidBack>>
  BY DEF Die, fulfillmentVars, returnVars
<1>3. /\ lost \subseteq lost'
      /\ call[c].at \in {"maybe", "sum"} \/ call[c].op = "status" => "order" \in lost'
  BY DEF Die
<1>4. Watches(c) => "order" \in lost'
  BY <1>3 DEF Watches, StatusCall
<1>5. FulfillmentInv'
  <2>1. \A d \in Calls : call'[d] \in CreateCall =>
            call[d] \in CreateCall /\ call'[d].id = call[d].id
    BY <1>1, IdleIsCall DEF FulfillmentCall
  <2>2. ASSUME NEW d \in Calls, Watches(d) PROVE Watches(d)' \/ "order" \in lost'
    BY <1>1, <1>4, <2>2 DEF Watches
  <2>3. UNCHANGED <<order, fulfillments>>
    BY <1>2
  <2>4. QED
    BY <1>3, <2>1, <2>2, <2>3, FulfillmentsStay DEF Inv
<1>6. ReturnInv'
  <2>1. UNCHANGED returnVars
    BY <1>2 DEF returnVars
  <2>2. QED
    BY <1>1, <2>1, IdleIsCall, ReturnsStay DEF Inv
<1>7. ReturnsTypeOK'
  BY <1>1, <1>2, IdleIsCall DEF Inv, ReturnsTypeOK
<1>8. QED
  BY <1>5, <1>6, <1>7 DEF Inv
-----------------------------------------------------------------------------
(***************************************************************************)
(* The invariant and what it is for                                        *)
(***************************************************************************)

LEMMA FulfillmentRequestKeepsInv == Inv /\ FulfillmentRequest => Inv'
<1> SUFFICES ASSUME Inv, FulfillmentRequest PROVE Inv'
  OBVIOUS
<1>1. UNCHANGED <<returnVars, lost>>
  BY DEF FulfillmentRequest
<1>2. CASE \E c \in Calls, f \in FulfillmentIds, lines \in Quantities :
               CreateRead(c, f, lines)
  BY <1>1, <1>2, CreateReadKeepsInv
<1>3. CASE \E c \in Calls, f \in FulfillmentIds : ShipPreview(c, f)
  BY <1>1, <1>3, ShipPreviewKeepsInv
<1>4. CASE \E f \in FulfillmentIds : Pick(f) \/ Pack(f) \/ Cancel(f)
  <2>1. PICK f \in FulfillmentIds :
            \/ Locked(f, {"pending"}, "picked")
            \/ Locked(f, {"picked"}, "packed")
            \/ Locked(f, {"pending", "picked"}, "cancelled")
    BY <1>4 DEF Pick, Pack, Cancel
  <2>2. {"picked", "packed", "cancelled"} \subseteq FulfillmentStatuses
    BY DEF FulfillmentStatuses
  <2>3. CASE Locked(f, {"pending"}, "picked")
    BY <1>1, <2>2, <2>3, LockedKeepsInv
  <2>4. CASE Locked(f, {"picked"}, "packed")
    BY <1>1, <2>2, <2>4, LockedKeepsInv
  <2>5. CASE Locked(f, {"pending", "picked"}, "cancelled")
    BY <1>1, <2>2, <2>5, LockedKeepsInv
  <2>6. QED
    BY <2>1, <2>3, <2>4, <2>5
<1>5. CASE \E c \in Calls : UpdateStatus(c, "cancelled")
  BY <1>1, <1>5, UpdateStatusKeepsInv
<1>6. QED
  BY <1>2, <1>3, <1>4, <1>5 DEF FulfillmentRequest

LEMMA ReturnRequestKeepsInv == Inv /\ ReturnRequest => Inv'
<1> SUFFICES ASSUME Inv, ReturnRequest PROVE Inv'
  OBVIOUS
<1>1. UNCHANGED lost
  BY DEF ReturnRequest
<1>2. ASSUME NEW c \in Calls, NEW r \in ReturnIds, NEW lines \in Quantities,
             NEW resolution \in {"refund", "exchange"},
             ReturnRead(c, r, lines, resolution)
      PROVE  Inv'
  BY <1>1, <1>2, ReturnReadKeepsInv
<1>3. ASSUME NEW c \in Calls, NEW r \in ReturnIds, Receive(c, r) PROVE Inv'
  BY <1>1, <1>3, ReceiveKeepsInv
<1>4. ASSUME NEW c \in Calls, NEW r \in ReturnIds, NEW named \in BOOLEAN,
             RefundRead(c, r, named)
      PROVE  Inv'
  BY <1>1, <1>4, RefundReadKeepsInv
<1>5. ASSUME NEW c \in Calls, NEW r \in ReturnIds, ExchangeRead(c, r) PROVE Inv'
  BY <1>1, <1>5, ExchangeReadKeepsInv
<1>6. ASSUME NEW r \in ReturnIds, Approve(r) PROVE Inv'
  BY <1>1, <1>6, ApproveOrCancelKeepsInv DEF Approve
<1>7. ASSUME NEW r \in ReturnIds, CancelReturn(r) PROVE Inv'
  BY <1>1, <1>7, ApproveOrCancelKeepsInv DEF CancelReturn
<1>8. QED
  BY <1>2, <1>3, <1>4, <1>5, <1>6, <1>7 DEF ReturnRequest

LEMMA StepKeepsInv == ASSUME Inv, NEW c \in Calls, Step(c) PROVE Inv'
<1>1. UNCHANGED lost
  BY DEF Step
<1>2. CASE FulfillmentStep(c) /\ UNCHANGED returnVars
  <2>1. UNCHANGED <<returnVars, lost>>
    BY <1>1, <1>2
  <2>2. QED
    BY <1>2, <2>1, CreateReadShippedKeepsInv, CreateReadOpenKeepsInv,
       CreateInsertKeepsInv, ShipLabelKeepsInv, ShipCommitKeepsInv,
       ShipReadOrderKeepsInv, ShipReadShippedKeepsInv, TransitionReadKeepsInv,
       TransitionSaveKeepsInv DEF FulfillmentStep
<1>3. CASE ReturnStep(c)
  BY <1>1, <1>3, ReturnPriorKeepsInv, ReturnInsertKeepsInv, RestockKeepsInv,
     EngineReadKeepsInv, EngineAskKeepsInv, EngineSaveKeepsInv,
     RefundCommitKeepsInv, ExchangeCommitKeepsInv DEF ReturnStep
<1>4. QED
  BY <1>2, <1>3 DEF Step

LEMMA NextKeepsInv == Inv /\ [Next]_vars => Inv'
<1> SUFFICES ASSUME Inv, [Next]_vars PROVE Inv'
  OBVIOUS
<1>1. CASE UNCHANGED vars
  <2>1. UNCHANGED <<order, fulfillments, returns, restocked, replacements, payment,
                    paidBack, call, lost>>
    BY <1>1 DEF vars, fulfillmentVars, returnVars
  <2>2. ReturnsTypeOK'
    BY <2>1 DEF Inv, ReturnsTypeOK
  <2>3. FulfillmentInv'
    BY <2>1, FulfillmentsStay DEF Inv, Watches
  <2>4. UNCHANGED returnVars
    BY <2>1 DEF returnVars
  <2>5. ReturnInv'
    BY <2>1, <2>4, ReturnsStay DEF Inv
  <2>6. QED
    BY <2>2, <2>3, <2>5 DEF Inv
<1>2. CASE Next
  BY <1>2, FulfillmentRequestKeepsInv, ReturnRequestKeepsInv, StepKeepsInv,
     DieKeepsInv DEF Next
<1>3. QED
  BY <1>1, <1>2

LEMMA InvHolds == Spec => []Inv
  BY InitInv, NextKeepsInv, PTL DEF Spec

\* ReturnsService.receive locks the return and marks it received before its
\* loop over the lines, so two receives, a retry or a crash in the middle of
\* the loop never put a line back into stock twice, nor a line of a return
\* that was not received.
THEOREM GoodsAreRestockedOnce == Spec => []RestockedOnce
<1>1. Inv => RestockedOnce
  BY DEF Inv, ReturnInv, RowOK, After, RestockedOnce
<1>2. QED
  BY <1>1, InvHolds, PTL

\* completeExchange checks the return again under its lock: however many
\* requests saw it received, one of them inserts a replacement order.
THEOREM OneReplacementIsSent == Spec => []ExchangedOnce
<1>1. Inv => ExchangedOnce
  BY DEF Inv, ReturnInv, RowOK, ExchangedOnce
<1>2. QED
  BY <1>1, InvHolds, PTL

\* completeRefund goes on only if PaymentEngine.refund returned a refunded
\* payment, and the engine saves one as refunded only after the provider paid:
\* no return is marked refunded for nothing.
THEOREM RefundsAreNotForNothing == Spec => []RefundedMeansPaidBack
<1>1. Inv => RefundedMeansPaidBack
  BY DEF Inv, ReturnInv, PaidOK, RefundedMeansPaidBack
<1>2. QED
  BY <1>1, InvHolds, PTL

\* ship looks at the order after its transaction: of any number of shipments
\* that together complete the order, one sees them all and marks it fulfilled,
\* unless a crash cuts it off.
THEOREM CompleteShipmentsFulfilTheOrder == Spec => []ShippedOrdersAreFulfilled
<1>1. Inv => ShippedOrdersAreFulfilled
  <2> SUFFICES ASSUME Inv, FullyShipped(Shipped), \A c \in Calls : call[c] = Idle
               PROVE  order # "confirmed" \/ "order" \in lost
    BY DEF ShippedOrdersAreFulfilled
  <2>1. Watched
    BY DEF Inv, FulfillmentInv
  <2>2. \A c \in Calls : ~Watches(c)
    BY IdleIsCall DEF Watches, FulfillmentCall
  <2>3. QED
    BY <2>1, <2>2 DEF Watched
<1>2. QED
  BY <1>1, InvHolds, PTL
=============================================================================
