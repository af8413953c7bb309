--------------------------- MODULE PaymentLedger ---------------------------
(***************************************************************************)
(* What the payment engine promises about its books, whoever calls it and  *)
(* in whatever order answers and webhooks arrive: a payment is shown as    *)
(* authorized, captured, refunded or failed only after the provider did    *)
(* just that to it, and a payment that is in the books stays there.        *)
(*                                                                         *)
(* The books may lag behind the provider, or step back to an earlier fact: *)
(* the engine saves what it read and learned, without a version.           *)
(***************************************************************************)
CONSTANT Payments

VARIABLES
    shown,      \* what the books say of each payment
    happened    \* what the provider has done to each payment, ever

Facts == {"authorized", "captured", "refunded", "failed"}

LedgerInit ==
    /\ shown = [p \in Payments |-> "none"]
    /\ happened = [p \in Payments |-> {}]

\* Only a payment in the books is brought to the provider, and only captured
\* money goes back.
Happen(p, facts) ==
    /\ shown[p] # "none"
    /\ facts \subseteq Facts
    /\ "refunded" \in facts => "captured" \in happened[p]
    /\ happened' = [happened EXCEPT ![p] = @ \union facts]
    /\ UNCHANGED shown

\* The books show a fact, or that the payment is pending.
Show(p, status) ==
    /\ IF shown[p] = "none"
       THEN status = "pending"
       ELSE status \in {"pending"} \union happened[p]
    /\ shown' = [shown EXCEPT ![p] = status]
    /\ UNCHANGED happened

LedgerNext ==
    \E p \in Payments :
        \/ \E facts \in SUBSET Facts : Happen(p, facts)
        \/ \E status \in {"pending"} \union Facts : Show(p, status)

LedgerSpec ==
    LedgerInit /\ [][LedgerNext]_<<shown, happened>>
=============================================================================
