------------------------------ MODULE Returns ------------------------------
(***************************************************************************)
(* Returns of the same order: ReturnsService, with the refund it asks of   *)
(* PaymentEngine and the stock it puts back through InventoryService.      *)
(*                                                                         *)
(* approve, cancel, and the first part of receive are transactions that    *)
(* lock the return's row.  receive then adjusts the stock one line at a    *)
(* time; completeRefund asks for the refund first and locks the return     *)
(* afterwards.  A unit costs 1.                                            *)
(***************************************************************************)
EXTENDS Fulfillment

CONSTANT ReturnIds

VARIABLES
    returns,            \* the rows of returns with their lines
    restocked,          \* what was put back into stock for each return
    replacements,       \* replacement orders inserted for each return
    payment,            \* the status of the order's payment in the books
    paidBack,           \* external: what the provider has paid back
    lost                \* work cut off by a crash after its commit

returnVars == <<returns, restocked, replacements, payment, paidBack>>
vars == <<fulfillmentVars, returnVars, call, lost>>

ReturnStatuses ==
    {"none", "requested", "approved", "received", "refunded", "exchanged",
     "cancelled"}

ReturnRow ==
    [status : ReturnStatuses, resolution : {"refund", "exchange"},
     lines : Quantities]

\* canTransitionReturnStatus.
CanTransitionReturn(from, to) ==
    <<from, to>> \in
        {<<"requested", "approved">>, <<"requested", "cancelled">>,
         <<"approved", "received">>, <<"approved", "cancelled">>,
         <<"received", "refunded">>, <<"received", "exchanged">>}

Units(lines) == UNION {{l} \X (1..lines[l]) : l \in Lines}
Amount(lines) == Cardinality(Units(lines))
Paid == Amount(Ordered)

\* openReturnedQuantityByOrderLine: everything not cancelled.
Returned(l) ==
    Cardinality({u \in ReturnIds \X (1..Ordered[l]) :
                    /\ returns[u[1]].status \notin {"none", "cancelled"}
                    /\ u[2] <= returns[u[1]].lines[l]})

Init ==
    /\ FulfillmentInit
    /\ returns = [r \in ReturnIds |->
           [status |-> "none", resolution |-> "refund", lines |-> Nothing]]
    /\ restocked = [r \in ReturnIds |-> Nothing]
    /\ replacements = [r \in ReturnIds |-> 0]
    /\ payment = "captured"
    /\ paidBack = 0
    /\ lost = {}

-----------------------------------------------------------------------------

\* create: the order is read and must be confirmed or fulfilled.
ReturnRead(c, r, lines, resolution) ==
    /\ call[c] = Idle
    /\ Fresh(returns[r], c, r)
    /\ lines # Nothing
    /\ order \in {"confirmed", "fulfilled"}
    /\ call' = [call EXCEPT ![c] =
           [at |-> "prior", op |-> "return", id |-> r, lines |-> lines,
            resolution |-> resolution]]
    /\ UNCHANGED <<fulfillmentVars, returnVars>>

\* The quantities on other returns, and the check.
ReturnPrior(c) ==
    /\ At(c, "prior")
    /\ IF \A l \in Lines : Returned(l) + call[c].lines[l] <= Ordered[l]
       THEN Goto(c, "request") ELSE End(c)
    /\ UNCHANGED <<fulfillmentVars, returnVars>>

\* Header and lines are inserted in one transaction.
ReturnInsert(c) ==
    /\ At(c, "request")
    /\ returns' = [returns EXCEPT ![call[c].id] =
           [status |-> "requested", resolution |-> call[c].resolution,
            lines |-> call[c].lines]]
    /\ End(c)
    /\ UNCHANGED <<fulfillmentVars, restocked, replacements, payment, paidBack>>

\* A transaction that locks the return, checks the transition and writes it.
Transition(r, to) ==
    /\ CanTransitionReturn(returns[r].status, to)
    /\ returns' = [returns EXCEPT ![r].status = to]

Approve(r) ==
    /\ Transition(r, "approved")
    /\ UNCHANGED <<fulfillmentVars, restocked, replacements, payment, paidBack,
                   call>>

CancelReturn(r) ==
    /\ Transition(r, "cancelled")
    /\ UNCHANGED <<fulfillmentVars, restocked, replacements, payment, paidBack,
                   call>>

\* Wrong on purpose: receive does not check the status.
ReceiveAgain(c, r) ==
    /\ call[c] = Idle
    /\ returns[r].status \in {"approved", "received"}
    /\ returns' = [returns EXCEPT ![r].status = "received"]
    /\ call' = [call EXCEPT ![c] =
           [at |-> "restock", op |-> "receive", id |-> r, todo |-> Lines]]
    /\ UNCHANGED <<fulfillmentVars, restocked, replacements, payment, paidBack>>

\* receive: the return is marked received and committed.
Receive(c, r) ==
    /\ call[c] = Idle
    /\ Transition(r, "received")
    /\ call' = [call EXCEPT ![c] =
           [at |-> "restock", op |-> "receive", id |-> r, todo |-> Lines]]
    /\ UNCHANGED <<fulfillmentVars, restocked, replacements, payment, paidBack>>

\* Then each line is restocked, in a transaction of its own.
Restock(c) ==
    /\ At(c, "restock")
    /\ \E l \in call[c].todo :
           /\ restocked' = [restocked EXCEPT
                  ![call[c].id][l] = @ + returns[call[c].id].lines[l]]
           /\ IF call[c].todo = {l} THEN End(c)
              ELSE call' = [call EXCEPT ![c].todo = @ \ {l}]
    /\ UNCHANGED <<fulfillmentVars, returns, replacements, payment, paidBack>>

\* completeRefund: the return is read and checked, and the payment found: the
\* captured one of the order, or the one the client names.
RefundRead(c, r, named) ==
    /\ call[c] = Idle
    /\ returns[r].resolution = "refund"
    /\ CanTransitionReturn(returns[r].status, "refunded")
    /\ named \/ payment = "captured"
    /\ call' = [call EXCEPT ![c] = [at |-> "engine", op |-> "refund", id |-> r]]
    /\ UNCHANGED <<fulfillmentVars, returnVars>>

\* PaymentEngine.refund reads the payment: one that is refunded is returned as
\* it is, only a captured one is brought to the provider.
EngineRead(c) ==
    /\ At(c, "engine")
    /\ Goto(c, IF payment = "refunded" THEN "complete" ELSE "ask")
    /\ UNCHANGED <<fulfillmentVars, returnVars>>

\* The provider (external) pays the amount back, unless it exceeds what is left
\* of the charge; or leaves it pending; or fails; or its answer is lost.
EngineAsk(c) ==
    /\ At(c, "ask")
    /\ LET amount == Amount(returns[call[c].id].lines)
       IN  \/ /\ paidBack + amount <= Paid
              /\ paidBack' = paidBack + amount
              /\ Goto(c, "refunded") \/ End(c)
           \/ /\ UNCHANGED paidBack
              /\ Goto(c, "not_refunded") \/ End(c)
    /\ UNCHANGED <<fulfillmentVars, returns, restocked, replacements, payment>>

\* Wrong on purpose: completeRefund does not look at the status of the payment
\* it gets back.
EngineSaveUnchecked(c) ==
    /\ call[c].at \in {"refunded", "not_refunded"}
    /\ payment' = IF At(c, "refunded") THEN "refunded" ELSE "captured"
    /\ Goto(c, "complete")
    /\ UNCHANGED <<fulfillmentVars, returns, restocked, replacements, paidBack>>

\* The payment is saved: refunded, or as it was read.  completeRefund goes on
\* only if it is refunded.
EngineSave(c) ==
    /\ \/ /\ At(c, "refunded")
          /\ payment' = "refunded"
          /\ Goto(c, "complete")
       \/ /\ At(c, "not_refunded")
          /\ payment' = "captured"
          /\ End(c)
    /\ UNCHANGED <<fulfillmentVars, returns, restocked, replacements, paidBack>>

\* The return is locked, checked again and completed.
RefundCommit(c) ==
    /\ At(c, "complete")
    /\ IF CanTransitionReturn(returns[call[c].id].status, "refunded")
       THEN Transition(call[c].id, "refunded")
       ELSE UNCHANGED returns
    /\ End(c)
    /\ UNCHANGED <<fulfillmentVars, restocked, replacements, payment, paidBack>>

\* completeExchange checks the return before its transaction.
ExchangeRead(c, r) ==
    /\ call[c] = Idle
    /\ returns[r].resolution = "exchange"
    /\ CanTransitionReturn(returns[r].status, "exchanged")
    /\ call' = [call EXCEPT ![c] =
           [at |-> "exchange", op |-> "exchange", id |-> r]]
    /\ UNCHANGED <<fulfillmentVars, returnVars>>

\* Wrong on purpose: the transaction relies on the check made before it.
ExchangeCommitUnchecked(c) ==
    /\ At(c, "exchange")
    /\ returns' = [returns EXCEPT ![call[c].id].status = "exchanged"]
    /\ replacements' = [replacements EXCEPT ![call[c].id] = @ + 1]
    /\ End(c)
    /\ UNCHANGED <<fulfillmentVars, restocked, payment, paidBack>>

\* The return is locked and checked again; the replacement order and its lines
\* are inserted with the new status.
ExchangeCommit(c) ==
    /\ At(c, "exchange")
    /\ IF CanTransitionReturn(returns[call[c].id].status, "exchanged")
       THEN /\ Transition(call[c].id, "exchanged")
            /\ replacements' = [replacements EXCEPT ![call[c].id] = @ + 1]
       ELSE UNCHANGED <<returns, replacements>>
    /\ End(c)
    /\ UNCHANGED <<fulfillmentVars, restocked, payment, paidBack>>

\* The process dies in the middle of a call.  What it had yet to do after a
\* commit is lost: nothing takes it up again.
Die(c) ==
    /\ call[c] # Idle
    /\ lost' = lost \union
           IF call[c].at \in {"maybe", "sum"} \/ call[c].op = "status"
           THEN {"order"}
           ELSE IF At(c, "restock") THEN {call[c].id} ELSE {}
    /\ End(c)
    /\ UNCHANGED <<fulfillmentVars, returnVars>>

ReturnStep(c) ==
    \/ ReturnPrior(c) \/ ReturnInsert(c) \/ Restock(c)
    \/ EngineRead(c) \/ EngineAsk(c) \/ EngineSave(c) \/ RefundCommit(c)
    \/ ExchangeCommit(c)

\* A request in progress goes on.
Step(c) ==
    /\ \/ FulfillmentStep(c) /\ UNCHANGED returnVars
       \/ ReturnStep(c)
    /\ UNCHANGED lost

FulfillmentRequest ==
    /\ \/ \E c \in Calls, f \in FulfillmentIds :
              \/ \E lines \in Quantities : CreateRead(c, f, lines)
              \/ ShipPreview(c, f)
       \/ \E f \in FulfillmentIds : Pick(f) \/ Pack(f) \/ Cancel(f)
       \/ \E c \in Calls : UpdateStatus(c, "cancelled")
    /\ UNCHANGED <<returnVars, lost>>

ReturnRequest ==
    /\ \/ \E c \in Calls, r \in ReturnIds :
              \/ \E lines \in Quantities, resolution \in {"refund", "exchange"} :
                     ReturnRead(c, r, lines, resolution)
              \/ Receive(c, r)
              \/ \E named \in BOOLEAN : RefundRead(c, r, named)
              \/ ExchangeRead(c, r)
       \/ \E r \in ReturnIds : Approve(r) \/ CancelReturn(r)
    /\ UNCHANGED lost

Next ==
    \/ FulfillmentRequest
    \/ ReturnRequest
    \/ \E c \in Calls : Step(c) \/ Die(c)

Spec == Init /\ [][Next]_vars

-----------------------------------------------------------------------------
(***************************************************************************)
(* Properties                                                              *)
(***************************************************************************)

\* Goods are put back into stock for returns that were received, each line
\* once and as many units as were returned.
RestockedOnce ==
    \A r \in ReturnIds, l \in Lines :
        /\ restocked[r][l] \in {0, returns[r].lines[l]}
        /\ restocked[r][l] > 0 =>
               returns[r].status \in {"received", "refunded", "exchanged"}

\* An exchange sends one replacement order, however often and from wherever it
\* is completed.
ExchangedOnce ==
    \A r \in ReturnIds :
        replacements[r] = IF returns[r].status = "exchanged" THEN 1 ELSE 0

\* No return is marked refunded unless the provider has paid something back on
\* the order's payment.
RefundedMeansPaidBack ==
    (\E r \in ReturnIds : returns[r].status = "refunded") => paidBack > 0

\* Once all its lines are shipped and no request is in progress the order is
\* not left confirmed, whichever of several shipments was the last: the one
\* that commits last sees them all.  Only a crash between its commit and that
\* look leaves it so.
ShippedOrdersAreFulfilled ==
    (FullyShipped(Shipped) /\ \A c \in Calls : call[c] = Idle) =>
        order # "confirmed" \/ "order" \in lost

\* The provider has paid back at least what the refunded returns add up to.
RefundsReachTheCustomer ==
    Cardinality(UNION {{r} \X Units(returns[r].lines) :
                          r \in {s \in ReturnIds : returns[s].status = "refunded"}})
        <= paidBack
=============================================================================
