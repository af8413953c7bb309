------------------------------ MODULE Payments ------------------------------
(***************************************************************************)
(* PaymentEngine: authorize, capture, refund and processWebhook, statement *)
(* by statement, with the payment provider they call and the loyalty       *)
(* accrual that follows a capture.                                         *)
(*                                                                         *)
(* A request reads the payment's row, calls the provider, and saves the    *)
(* row with what it has read and what it was told: between the three, other*)
(* requests and webhooks about the same payment do the same.  The provider *)
(* reports each thing it does in a webhook, which may come before the      *)
(* answer to the call that caused it, late, twice, or never.               *)
(*                                                                         *)
(* A payment is identified by its idempotency key; an authorization        *)
(* without a key is one whose key nobody else uses.                        *)
(***************************************************************************)
EXTENDS Loyalty

CONSTANTS
    Payments,           \* payments by their idempotency key
    OrderOf,            \* the order each payment is for
    Calls,              \* requests and webhook deliveries
    Requests            \* what a call may be

ASSUME OrderOfAssumption == OrderOf \in [Payments -> Orders]

VARIABLES
    payment,            \* the rows of payments
    events,             \* the rows of payment_webhook_events
    call,               \* the calls in progress and what they have read
    charge,             \* external: each charge at the provider
    notices             \* external: the webhooks the provider sends

paymentVars == <<payment, events, call, charge, notices>>
vars == <<paymentVars, loyaltyVars>>

Statuses == {"pending", "authorized", "captured", "refunded", "failed"}

\* "none": there is no row yet.
PaymentRow == [status : Statuses \union {"none"}, externalId : BOOLEAN]

\* The provider reports what it has done to a charge.
Actions == {"authorize", "capture", "refund", "fail"}
Notice == [payment : Payments, action : Actions]

\* An event's row: it was applied, matched no payment, or its handling threw.
EventStatuses == {"none", "processed", "failed"}

\* The states of a charge: the settled ones and those in which the provider
\* has yet to decide.  happened collects what it ever did.
ChargeRow ==
    [state : {"none", "pending", "authorized", "capturing", "captured",
              "refunding", "refunded", "failed"},
     happened : SUBSET {"authorized", "captured", "refunded", "failed"},
     asked : Nat]

RequestType ==
    [op : {"authorize", "capture", "refund"}, payment : Payments] \union
    [op : {"webhook"}, payment : Payments, action : Actions]

ASSUME RequestsAssumption == Requests \subseteq RequestType

Idle == [at |-> "idle"]
Done == [at |-> "done"]

PaymentsInit ==
    /\ LoyaltyInit
    /\ payment = [p \in Payments |-> [status |-> "none", externalId |-> FALSE]]
    /\ events = [n \in Notice |-> "none"]
    /\ call = [c \in Calls |-> Idle]
    /\ charge = [p \in Payments |->
                    [state |-> "none", happened |-> {}, asked |-> 0]]
    /\ notices = {}

-----------------------------------------------------------------------------
(***************************************************************************)
(* The provider (external)                                                 *)
(***************************************************************************)

NoticeOf(p, fact) ==
    [payment |-> p,
     action |-> CASE fact = "authorized" -> "authorize"
                  [] fact = "captured" -> "capture"
                  [] fact = "refunded" -> "refund"
                  [] fact = "failed" -> "fail"]

\* Something happens to a charge; the provider sends a webhook about it.
Move(p, state, facts, asks) ==
    /\ charge' = [charge EXCEPT
           ![p] = [state |-> state, happened |-> @.happened \union facts,
                   asked |-> @.asked + asks]]
    /\ notices' = notices \union {NoticeOf(p, fact) : fact \in facts}

\* What the provider may do when it is asked to authorize, capture or refund:
\* the answer, and the state it leaves the charge in.
Outcomes(op, state) ==
    CASE op = "authorize" ->
             {<<"authorized", "authorized">>, <<"captured", "captured">>,
              <<"pending", "pending">>, <<"failed", "failed">>}
      [] op = "capture" /\ state \in {"authorized", "pending"} ->
             {<<"captured", "captured">>, <<"pending", "capturing">>,
              <<"failed", state>>}
      [] op = "capture" /\ state = "captured" ->
             {<<"captured", state>>, <<"failed", state>>}
      [] op = "refund" /\ state = "captured" ->
             {<<"refunded", "refunded">>, <<"pending", "refunding">>,
              <<"failed", state>>}
      [] op = "refund" /\ state = "refunded" ->
             {<<"refunded", state>>, <<"failed", state>>}
      [] OTHER -> {<<"failed", state>>}

\* What the provider may decide later about a charge left undecided: the fact,
\* and the new state.
Decisions(state) ==
    CASE state = "pending" -> {<<"authorized", "authorized">>,
                               <<"captured", "captured">>, <<"failed", "failed">>}
      [] state = "capturing" -> {<<"captured", "captured">>,
                                 <<"failed", "authorized">>}
      [] state = "refunding" -> {<<"refunded", "refunded">>,
                                 <<"failed", "captured">>}
      [] OTHER -> {}

Settle(p) ==
    /\ \E d \in Decisions(charge[p].state) : Move(p, d[2], {d[1]}, 0)
    /\ UNCHANGED <<payment, events, call, loyaltyVars>>

-----------------------------------------------------------------------------
(***************************************************************************)
(* Calls                                                                   *)
(***************************************************************************)

Goto(c, label) == call' = [call EXCEPT ![c].at = label]

\* A call continues with what it has read or been told.
GotoWith(c, label, row, answer) ==
    call' = [call EXCEPT ![c].at = label, ![c].row = row, ![c].answer = answer]

IsWebhook(c) == call[c].request.op = "webhook"

Finish(c) == call' = [call EXCEPT ![c] = Done]

\* The engine's method returns to processWebhook or to the client.
Return(c) == IF IsWebhook(c) THEN Goto(c, "record") ELSE Finish(c)

\* An exception: processWebhook catches it and records a failed event.
Throw(c) ==
    IF IsWebhook(c)
    THEN call' = [call EXCEPT ![c].at = "record", ![c].failed = TRUE]
    ELSE Finish(c)

Start(c, req) ==
    /\ call[c] = Idle
    /\ req.op = "webhook" =>
           [payment |-> req.payment, action |-> req.action] \in notices
    /\ call' = [call EXCEPT ![c] =
           [at |-> CASE req.op = "authorize" -> "lookup"
                     [] req.op = "webhook" -> "event"
                     [] OTHER -> "read",
            request |-> req, method |-> req.op, failed |-> FALSE,
            row |-> [status |-> "none", externalId |-> FALSE],
            answer |-> "none"]]
    /\ UNCHANGED <<payment, events, charge, notices, loyaltyVars>>

At(c, label) == call[c].at = label
PaymentOf(c) == call[c].request.payment

\* authorize: SELECT by idempotency key.
Lookup(c) ==
    /\ At(c, "lookup")
    /\ IF payment[PaymentOf(c)].status # "none" THEN Return(c)
       ELSE Goto(c, "insert")
    /\ UNCHANGED <<payment, events, charge, notices, loyaltyVars>>

\* Wrong on purpose: the key has no unique index, so that the second insert
\* stands for a second row, authorized in its turn.
InsertTwice(c) ==
    /\ At(c, "insert")
    /\ payment' = [payment EXCEPT ![PaymentOf(c)] =
           [status |-> "pending", externalId |-> FALSE]]
    /\ GotoWith(c, "ask", payment'[PaymentOf(c)], "none")
    /\ UNCHANGED <<events, charge, notices, loyaltyVars>>

\* INSERT of the pending row; the unique index on the key refuses a second one.
Insert(c) ==
    /\ At(c, "insert")
    /\ IF payment[PaymentOf(c)].status # "none"
       THEN /\ Throw(c)
            /\ UNCHANGED payment
       ELSE /\ payment' = [payment EXCEPT ![PaymentOf(c)] =
                   [status |-> "pending", externalId |-> FALSE]]
            /\ GotoWith(c, "ask", payment'[PaymentOf(c)], "none")
    /\ UNCHANGED <<events, charge, notices, loyaltyVars>>

\* The statuses capture and refund go on from; they return a row that is there
\* already and refuse any other.
Permits(method, status) ==
    status \in IF method = "capture" THEN {"authorized", "pending"}
                                     ELSE {"captured"}

\* capture and refund: findById and the checks.
Read(c) ==
    /\ At(c, "read")
    /\ LET row == payment[PaymentOf(c)]
           method == call[c].method
           wanted == IF method = "capture" THEN "captured" ELSE "refunded"
       IN  IF row.status = wanted THEN Return(c)
           ELSE IF row.status # "none" /\ Permits(method, row.status)
           THEN GotoWith(c, "ask", row, "none")
           ELSE Throw(c)
    /\ UNCHANGED <<payment, events, charge, notices, loyaltyVars>>

\* The provider acts and answers, or its answer is lost.
Ask(c) ==
    /\ At(c, "ask")
    /\ LET p == PaymentOf(c)
           method == call[c].method
       IN  \E o \in Outcomes(method, charge[p].state) :
               /\ Move(p, o[2], IF o[1] = "pending" THEN {} ELSE {o[1]},
                       IF method = "authorize" THEN 1 ELSE 0)
               /\ \/ GotoWith(c, "save", call[c].row, o[1])
                  \/ Throw(c)
    /\ UNCHANGED <<payment, events, loyaltyVars>>

\* Wrong on purpose: a pending answer is taken for success.
StatusAfterHasty(method, status, answer) ==
    IF answer = "pending"
    THEN CASE method = "authorize" -> "authorized"
           [] method = "capture" -> "captured"
           [] method = "refund" -> "refunded"
    ELSE answer

\* The status a method writes: that of the answer, except that a pending
\* capture or refund, or a failed refund, leaves the status that was read.
StatusAfter(method, status, answer) ==
    IF method = "authorize" \/ (answer # "pending" /\ method = "capture")
           \/ answer = "refunded"
    THEN answer
    ELSE status

\* The row is saved with every column as it was read, the new status, and the
\* provider's reference if the answer has one.  A capture is published, and
\* the loyalty listener runs before the method returns.
Save(c) ==
    /\ At(c, "save")
    /\ \E reference \in BOOLEAN :
           LET p == PaymentOf(c)
               row == [status |-> StatusAfter(call[c].method,
                                      call[c].row.status, call[c].answer),
                       externalId |-> call[c].row.externalId \/ reference]
           IN  /\ payment' = [payment EXCEPT ![p] = row]
               /\ IF row.status = "captured" /\ call[c].method # "refund"
                     /\ Accruable(OrderOf[p])
                  THEN Goto(c, "accrue")
                  ELSE Return(c)
    /\ UNCHANGED <<events, charge, notices, loyaltyVars>>

\* LoyaltyAccrualListener: the look-up in accrue's transaction.
Accrue(c) ==
    /\ At(c, "accrue")
    /\ IF AccruedBefore(OrderOf[PaymentOf(c)]) THEN Return(c)
       ELSE Goto(c, "credit")
    /\ UNCHANGED <<payment, events, charge, notices, loyaltyVars>>

\* The account is locked and credited; if there is none it is to be inserted.
CreditLocked(c) ==
    /\ At(c, "credit")
    /\ IF account.exists
       THEN /\ Credit(OrderOf[PaymentOf(c)])
            /\ Return(c)
       ELSE /\ Goto(c, "open")
            /\ UNCHANGED loyaltyVars
    /\ UNCHANGED <<payment, events, charge, notices>>

\* The account is inserted, unless somebody else's is there by now: the
\* listener fails, which the event bus keeps from the publisher.
CreditOpened(c) ==
    /\ At(c, "open")
    /\ IF account.exists
       THEN UNCHANGED loyaltyVars
       ELSE Credit(OrderOf[PaymentOf(c)])
    /\ Return(c)
    /\ UNCHANGED <<payment, events, charge, notices>>

-----------------------------------------------------------------------------
(***************************************************************************)
(* processWebhook                                                          *)
(***************************************************************************)

NoticeHeard(c) ==
    [payment |-> PaymentOf(c), action |-> call[c].request.action]

\* SELECT of the event: one that is there has been dealt with.
CheckEvent(c) ==
    /\ At(c, "event")
    /\ IF events[NoticeHeard(c)] # "none" THEN Finish(c) ELSE Goto(c, "find")
    /\ UNCHANGED <<payment, events, charge, notices, loyaltyVars>>

\* applyWebhookAction finds the payment by the provider's reference, which is
\* known once an answer was saved, and chooses what to do.
Find(c) ==
    /\ At(c, "find")
    /\ LET row == payment[PaymentOf(c)]
           action == call[c].request.action
           calls == \/ action = "capture" /\ row.status # "captured"
                    \/ action = "refund" /\ row.status = "captured"
           saves == \/ action = "fail" /\ row.status # "failed"
                    \/ action = "authorize" /\ row.status = "pending"
       IN  IF row.externalId /\ calls
           THEN call' = [call EXCEPT ![c].at = "read", ![c].method = action]
           ELSE IF row.externalId /\ saves
           THEN GotoWith(c, "mark", row, "none")
           ELSE Goto(c, "record")
    /\ UNCHANGED <<payment, events, charge, notices, loyaltyVars>>

\* The row is saved as failed or authorized.
Mark(c) ==
    /\ At(c, "mark")
    /\ payment' = [payment EXCEPT ![PaymentOf(c)] =
           [call[c].row EXCEPT
               !.status = IF call[c].request.action = "fail" THEN "failed"
                                                             ELSE "authorized"]]
    /\ Return(c)
    /\ UNCHANGED <<events, charge, notices, loyaltyVars>>

\* INSERT of the event; a duplicate is refused by the unique index.
Record(c) ==
    /\ At(c, "record")
    /\ events' = [events EXCEPT ![NoticeHeard(c)] =
           IF @ # "none" THEN @
           ELSE IF call[c].failed THEN "failed" ELSE "processed"]
    /\ Finish(c)
    /\ UNCHANGED <<payment, charge, notices, loyaltyVars>>

\* The process dies, or the database goes away.
Die(c) ==
    /\ call[c] \notin {Idle, Done}
    /\ Finish(c)
    /\ UNCHANGED <<payment, events, charge, notices, loyaltyVars>>

RedeemPoints(points) ==
    /\ Redeem(points)
    /\ UNCHANGED paymentVars

Step(c) ==
    \/ Lookup(c) \/ Insert(c) \/ Read(c) \/ Ask(c) \/ Save(c)
    \/ Accrue(c) \/ CreditLocked(c) \/ CreditOpened(c)
    \/ CheckEvent(c) \/ Find(c) \/ Mark(c) \/ Record(c)

Next ==
    \/ \E p \in Payments : Settle(p)
    \/ \E points \in Redemptions : RedeemPoints(points)
    \/ \E c \in Calls :
           \/ \E req \in Requests : Start(c, req)
           \/ Step(c)
           \/ Die(c)

Spec == PaymentsInit /\ [][Next]_vars

-----------------------------------------------------------------------------
(***************************************************************************)
(* Properties                                                              *)
(***************************************************************************)

Ledger == INSTANCE PaymentLedger WITH
    shown <- [p \in Payments |-> payment[p].status],
    happened <- [p \in Payments |-> charge[p].happened]

\* The engine's books follow the provider: whatever the order of answers and
\* webhooks, and wherever a request dies, a payment is shown as authorized,
\* captured, refunded or failed only after the provider did that to it, and
\* money is sent back only after it was taken.
ImplementsLedger == Ledger!LedgerSpec

\* However many placements retry with the same idempotency key, at the same
\* time or later, the provider is asked to authorize once: the unique row is
\* inserted before the provider is called.
AuthorizedOnce == \A p \in Payments : charge[p].asked <= 1

\* Points are accrued only for orders whose money the provider took, though the
\* accrual listens to the engine's books and not to the provider.
PointsAreForCaptures ==
    \A o \in Orders :
        accruals[o] > 0 =>
            \E p \in Payments :
                OrderOf[p] = o /\ "captured" \in charge[p].happened

\* An order accrues points once, as LoyaltyService.accrue says of itself.
AccruedOncePerOrder == \A o \in Orders : accruals[o] <= 1
=============================================================================
