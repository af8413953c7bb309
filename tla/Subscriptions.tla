--------------------------- MODULE Subscriptions ---------------------------
(***************************************************************************)
(* SubscriptionService: plans, the customers subscribed to them and the    *)
(* renewals that charge one billing period after another.                  *)
(*                                                                         *)
(* renew and cancel read a subscription, wait (renew for the payment       *)
(* engine) and save the whole row they read.  Dates are counted in billing *)
(* intervals: a row whose next billing is n is paid up to n.  The payment  *)
(* engine is what PaymentLedger promises of it, one payment for one key;   *)
(* Payments takes its calls apart.                                         *)
(***************************************************************************)
EXTENDS Integers

CONSTANTS
    Plans, Subscriptions,
    SubCalls,           \* calls of renew and cancel under way at a time
    MaxPeriod           \* bound: billing periods

ASSUME SubsAssumption == MaxPeriod \in Nat \ {0}

VARIABLES
    plan,               \* the rows of subscription_plans
    sub,                \* the rows of subscriptions
    subCall,            \* calls of renew and cancel, with the rows they read
    charge              \* payments by idempotency key

subVars == <<plan, sub, subCall, charge>>

NoPlan == [at |-> "none"]
PlanRow == [at : {"active", "inactive"}]

\* currentPeriodStart and currentPeriodEnd move with nextBillingAt.
NoSub == [status |-> "none"]
SubRow == [status : {"active", "past_due", "canceled"}, plan : Plans, next : Nat]

IdleSubCall == [at |-> "idle"]

Keys == Subscriptions \X (1 .. MaxPeriod)

SubsInit ==
    /\ plan = [p \in Plans |-> NoPlan]
    /\ sub = [s \in Subscriptions |-> NoSub]
    /\ subCall = [c \in SubCalls |-> IdleSubCall]
    /\ charge = [k \in Keys |-> "none"]

GoSub(c, call) == subCall' = [subCall EXCEPT ![c] = call]

-----------------------------------------------------------------------------
\* The code of a plan is unique, and no call changes a plan.
CreatePlan(p) ==
    /\ plan[p] = NoPlan
    /\ \E row \in PlanRow : plan' = [plan EXCEPT ![p] = row]
    /\ UNCHANGED <<sub, subCall, charge>>

AddBillingInterval(date) == date + 1

Subscribe(s) ==
    /\ sub[s] = NoSub
    /\ \E p \in Plans :
           /\ plan[p].at = "active"
           /\ sub' = [sub EXCEPT ![s] =
                        [status |-> "active", plan |-> p, next |-> AddBillingInterval(0)]]
    /\ UNCHANGED <<plan, subCall, charge>>

CancelReadSub(c) ==
    /\ subCall[c] = IdleSubCall
    /\ \E s \in Subscriptions :
           /\ sub[s].status \notin {"none", "canceled"}
           /\ GoSub(c, [at |-> "cancel", id |-> s, row |-> sub[s]])
    /\ UNCHANGED <<plan, sub, charge>>

CancelSaveSub(c) ==
    /\ subCall[c].at = "cancel"
    /\ sub' = [sub EXCEPT ![subCall[c].id] = [subCall[c].row EXCEPT !.status = "canceled"]]
    /\ GoSub(c, IdleSubCall)
    /\ UNCHANGED <<plan, charge>>

-----------------------------------------------------------------------------
\* The rows the renewal job finds: next billing is always due here.
DueForRenewal == {s \in Subscriptions : sub[s].status \in {"active", "past_due"}}

RenewRead(c) ==
    /\ subCall[c] = IdleSubCall
    /\ \E s \in DueForRenewal :
           /\ sub[s].next < MaxPeriod
           /\ GoSub(c, [at |-> "authorize", id |-> s, row |-> sub[s]])
    /\ UNCHANGED <<plan, sub, charge>>

RenewKey(call) == <<call.id, call.row.next>>

\* A payment with this key is returned as it is, a failed one too.
RenewAuthorize(c) ==
    /\ subCall[c].at = "authorize"
    /\ LET k == RenewKey(subCall[c])
       IN  /\ \/ charge[k] # "none" /\ UNCHANGED charge
              \/ charge[k] = "none" /\ \E status \in {"pending", "authorized", "captured", "failed"} :
                                           charge' = [charge EXCEPT ![k] = status]
           /\ GoSub(c, [subCall[c] EXCEPT !.at =
                IF charge'[k] \in {"pending", "authorized"} THEN "capture" ELSE charge'[k]])
    /\ UNCHANGED <<plan, sub>>

\* Wrong on purpose: a charge the provider has only taken note of will do.
RenewCaptureHopeful(c) ==
    /\ subCall[c].at = "capture"
    /\ GoSub(c, [subCall[c] EXCEPT !.at =
         IF charge[RenewKey(subCall[c])] = "failed" THEN "failed" ELSE "captured"])
    /\ UNCHANGED <<plan, sub, charge>>

\* A capture of what another call captured returns it; of what failed, throws.
RenewCapture(c) ==
    /\ subCall[c].at = "capture"
    /\ LET k == RenewKey(subCall[c])
       IN  \/ /\ charge[k] \in {"pending", "authorized"}
              /\ \E status \in {charge[k], "captured", "failed"} :
                     /\ charge' = [charge EXCEPT ![k] = status]
                     /\ GoSub(c, [subCall[c] EXCEPT !.at =
                          IF status = "captured" THEN "captured" ELSE "failed"])
           \/ charge[k] = "captured" /\ GoSub(c, [subCall[c] EXCEPT !.at = "captured"])
                                     /\ UNCHANGED charge
           \/ charge[k] = "failed" /\ GoSub(c, IdleSubCall) /\ UNCHANGED charge
    /\ UNCHANGED <<plan, sub>>

RenewPastDue(c) ==
    /\ subCall[c].at = "failed"
    /\ sub' = [sub EXCEPT ![subCall[c].id] = [subCall[c].row EXCEPT !.status = "past_due"]]
    /\ GoSub(c, IdleSubCall)
    /\ UNCHANGED <<plan, charge>>

RenewAdvance(c) ==
    /\ subCall[c].at = "captured"
    /\ LET row == subCall[c].row
       IN  sub' = [sub EXCEPT ![subCall[c].id] =
                     [status |-> "active", plan |-> row.plan,
                      next |-> AddBillingInterval(row.next)]]
    /\ GoSub(c, IdleSubCall)
    /\ UNCHANGED <<plan, charge>>

\* The process stops between two statements of a call.
SubCallDies(c) ==
    /\ subCall[c].at \in {"capture", "captured", "failed"}
    /\ GoSub(c, IdleSubCall)
    /\ UNCHANGED <<plan, sub, charge>>

SubsNext ==
    \/ \E p \in Plans : CreatePlan(p)
    \/ \E s \in Subscriptions : Subscribe(s)
    \/ \E c \in SubCalls :
           \/ CancelReadSub(c) \/ CancelSaveSub(c)
           \/ RenewRead(c) \/ RenewAuthorize(c) \/ RenewCapture(c)
           \/ RenewPastDue(c) \/ RenewAdvance(c) \/ SubCallDies(c)

SubsSpec == SubsInit /\ [][SubsNext]_subVars

-----------------------------------------------------------------------------
(***************************************************************************)
(* Every period before the next billing date was captured, whatever        *)
(* renewals and cancellations overlapped and wherever they died: renew     *)
(* (line 325) moves the schedule only over the period it was paid for.     *)
(***************************************************************************)
PaidPeriods ==
    \A s \in Subscriptions :
        sub[s] # NoSub => \A n \in 1 .. sub[s].next - 1 : charge[<<s, n>>] = "captured"
=============================================================================
