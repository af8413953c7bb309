---------------------------- MODULE Fulfillment ----------------------------
(***************************************************************************)
(* One order being fulfilled: FulfillmentService, and the part of          *)
(* OrdersService that moves the order's status.                            *)
(*                                                                         *)
(* pick, pack and cancel are transactions that lock the fulfillment's row: *)
(* each is one step.  create reads what has been shipped and what is open  *)
(* in two queries, and inserts later; ship looks at the fulfillment, buys  *)
(* a label from the carrier, and only then opens its transaction.          *)
(***************************************************************************)
EXTENDS Integers, FiniteSets

CONSTANTS
    Lines,              \* the physical lines of the order
    Ordered,            \* the quantity of each line
    FulfillmentIds,
    MaxLabels,          \* bound: labels bought for one fulfillment
    Calls               \* requests in progress at a time

ASSUME OrderedAssumption == Ordered \in [Lines -> Nat \ {0}]

\* An order has finitely many lines.  One without physical lines is not modelled:
\* there is nothing to create a fulfillment or a return of.
ASSUME LinesAssumption == IsFiniteSet(Lines) /\ Lines # {}

\* Finitely many rows are ever inserted; only the sums over rows need it.
ASSUME DocumentsAssumption == IsFiniteSet(FulfillmentIds)

VARIABLES
    order,              \* the order's status
    fulfillments,       \* the rows of fulfillments with their lines
    labels,             \* external: labels the carrier has sold
    call                \* requests in progress and what they have read

fulfillmentVars == <<order, fulfillments, labels>>

OrderStatuses == {"pending", "confirmed", "fulfilled", "cancelled"}

\* canTransitionOrderStatus, without the statuses of company orders.
CanTransition(from, to) ==
    <<from, to>> \in {<<"pending", "confirmed">>, <<"pending", "cancelled">>,
                      <<"confirmed", "fulfilled">>, <<"confirmed", "cancelled">>}

FulfillmentStatuses ==
    {"none", "pending", "picked", "packed", "shipped", "cancelled"}

\* A quantity for each line; zero stands for a line the document leaves out.
Quantities ==
    {q \in [Lines -> UNION {0..Ordered[l] : l \in Lines}] :
        \A l \in Lines : q[l] <= Ordered[l]}
Nothing == [l \in Lines |-> 0]

FulfillmentRow == [status : FulfillmentStatuses, lines : Quantities]

\* The quantity of a line on the fulfillments in one of the statuses: sums over
\* rows are counted unit by unit.
InStatus(statuses, l) ==
    Cardinality({u \in FulfillmentIds \X (1..Ordered[l]) :
                    /\ fulfillments[u[1]].status \in statuses
                    /\ u[2] <= fulfillments[u[1]].lines[l]})

\* shippedQuantityByOrderLine and openAllocatedQuantityByOrderLine.
Shipped == [l \in Lines |-> InStatus({"shipped"}, l)]
OpenAllocated == [l \in Lines |-> InStatus({"pending", "picked", "packed"}, l)]

FullyShipped(shipped) == \A l \in Lines : shipped[l] >= Ordered[l]

Idle == [at |-> "idle"]

FulfillmentInit ==
    /\ order = "confirmed"
    /\ fulfillments = [f \in FulfillmentIds |->
                          [status |-> "none", lines |-> Nothing]]
    /\ labels = [f \in FulfillmentIds |-> 0]
    /\ call = [c \in Calls |-> Idle]

-----------------------------------------------------------------------------

At(c, label) == call[c].at = label
Goto(c, label) == call' = [call EXCEPT ![c].at = label]

\* The call returns or throws.
End(c) == call' = [call EXCEPT ![c] = Idle]

\* Documents get fresh ids: two creates never insert the same one.
Fresh(row, c, id) ==
    /\ row.status = "none"
    /\ \A d \in Calls \ {c} : call[d] # Idle => call[d].id # id

\* create: the order is read; it must be confirmed.
CreateRead(c, f, lines) ==
    /\ call[c] = Idle
    /\ Fresh(fulfillments[f], c, f)
    /\ lines # Nothing
    /\ order = "confirmed"
    /\ call' = [call EXCEPT ![c] =
           [at |-> "shipped", op |-> "create", id |-> f, lines |-> lines,
            read |-> Nothing]]
    /\ UNCHANGED fulfillmentVars

\* What has been shipped of the order.
CreateReadShipped(c) ==
    /\ At(c, "shipped")
    /\ call' = [call EXCEPT ![c].at = "open", ![c].read = Shipped]
    /\ UNCHANGED fulfillmentVars

\* What the open fulfillments hold of it, and the check.
CreateReadOpen(c) ==
    /\ At(c, "open")
    /\ IF \A l \in Lines :
              call[c].lines[l] <= Ordered[l] - call[c].read[l] - OpenAllocated[l]
       THEN Goto(c, "insert")
       ELSE End(c)
    /\ UNCHANGED fulfillmentVars

\* The header and its lines are inserted in one transaction.
CreateInsert(c) ==
    /\ At(c, "insert")
    /\ fulfillments' = [fulfillments EXCEPT ![call[c].id] =
           [status |-> "pending", lines |-> call[c].lines]]
    /\ End(c)
    /\ UNCHANGED <<order, labels>>

Locked(f, from, to) ==
    /\ fulfillments[f].status \in from
    /\ fulfillments' = [fulfillments EXCEPT ![f].status = to]
    /\ UNCHANGED <<order, labels, call>>

Pick(f) == Locked(f, {"pending"}, "picked")
Pack(f) == Locked(f, {"picked"}, "packed")

Cancel(f) == Locked(f, {"pending", "picked"}, "cancelled")

\* ship: the preview, outside any transaction.
ShipPreview(c, f) ==
    /\ call[c] = Idle
    /\ fulfillments[f].status = "packed"
    /\ call' = [call EXCEPT ![c] =
           [at |-> "label", op |-> "ship", id |-> f, lines |-> Nothing,
            read |-> Nothing]]
    /\ UNCHANGED fulfillmentVars

\* orchestrateLabel: the carrier sells a label or fails the call; or there is
\* none to buy.
ShipLabel(c) ==
    /\ At(c, "label")
    /\ \/ /\ labels[call[c].id] < MaxLabels
          /\ labels' = [labels EXCEPT ![call[c].id] = @ + 1]
          /\ Goto(c, "ship") \/ End(c)
       \/ /\ UNCHANGED labels
          /\ Goto(c, "ship") \/ End(c)
    /\ UNCHANGED <<order, fulfillments>>

\* The transaction: the row is locked and its status checked again.  It is
\* refused if that has changed, or if a line has no stock row at the warehouse.
ShipCommit(c) ==
    /\ At(c, "ship")
    /\ \/ /\ fulfillments[call[c].id].status = "packed"
          /\ fulfillments' = [fulfillments EXCEPT ![call[c].id].status = "shipped"]
          /\ Goto(c, "maybe")
       \/ /\ End(c)
          /\ UNCHANGED fulfillments
    /\ UNCHANGED <<order, labels>>

\* maybeMarkOrderFulfilled reads the order, then what has been shipped.
ShipReadOrder(c) ==
    /\ At(c, "maybe")
    /\ IF order = "confirmed" THEN Goto(c, "sum") ELSE End(c)
    /\ UNCHANGED fulfillmentVars

\* Wrong on purpose: the last shipment counts only those before it.
ShipReadShippedOthers(c) ==
    /\ At(c, "sum")
    /\ IF \A l \in Lines :
              Shipped[l] - fulfillments[call[c].id].lines[l] >= Ordered[l]
       THEN call' = [call EXCEPT ![c] =
                [at |-> "transition", op |-> "status", id |-> "order",
                 to |-> "fulfilled"]]
       ELSE End(c)
    /\ UNCHANGED fulfillmentVars

ShipReadShipped(c) ==
    /\ At(c, "sum")
    /\ IF FullyShipped(Shipped)
       THEN call' = [call EXCEPT ![c] =
                [at |-> "transition", op |-> "status", id |-> "order",
                 to |-> "fulfilled"]]
       ELSE End(c)
    /\ UNCHANGED fulfillmentVars

\* updateStatus, by a client.
UpdateStatus(c, to) ==
    /\ call[c] = Idle
    /\ call' = [call EXCEPT ![c] =
           [at |-> "transition", op |-> "status", id |-> "order", to |-> to]]
    /\ UNCHANGED fulfillmentVars

\* transitionStatus reads the status and checks the transition.
TransitionRead(c) ==
    /\ At(c, "transition")
    /\ IF CanTransition(order, call[c].to) THEN Goto(c, "save") ELSE End(c)
    /\ UNCHANGED fulfillmentVars

\* It saves the status later, whatever the order's status is by then.
TransitionSave(c) ==
    /\ At(c, "save")
    /\ order' = call[c].to
    /\ End(c)
    /\ UNCHANGED <<fulfillments, labels>>

FulfillmentStep(c) ==
    \/ CreateReadShipped(c) \/ CreateReadOpen(c) \/ CreateInsert(c)
    \/ ShipLabel(c) \/ ShipCommit(c) \/ ShipReadOrder(c) \/ ShipReadShipped(c)
    \/ TransitionRead(c) \/ TransitionSave(c)
=============================================================================
