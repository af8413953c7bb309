------------------------------ MODULE Loyalty ------------------------------
(***************************************************************************)
(* One customer's loyalty account: LoyaltyService.                         *)
(*                                                                         *)
(* accrue is a transaction of three statements that matter to others: the  *)
(* look-up of a prior accrual for the order, which locks nothing; the      *)
(* locking read of the account; and, when there is no account yet, its     *)
(* INSERT.  Once the account row is locked nobody else touches it before   *)
(* the commit, so that the rest is one step.                               *)
(***************************************************************************)
EXTENDS Integers, FiniteSets

CONSTANTS
    Orders,
    PointsFor,          \* points the captured total of an order is worth
    Redemptions         \* the amounts of points clients ask to redeem

ASSUME PointsAssumption == PointsFor \in [Orders -> Nat]

VARIABLES
    account,            \* the row of loyalty_accounts
    accruals,           \* ledger rows of type accrue, counted per order
    redeemed            \* points of the ledger rows of type redeem

loyaltyVars == <<account, accruals, redeemed>>

AccountRow ==
    [exists : BOOLEAN, balance : Nat, lifetimeEarned : Nat,
     lifetimeRedeemed : Nat]

LoyaltyInit ==
    /\ account = [exists |-> FALSE, balance |-> 0, lifetimeEarned |-> 0,
                  lifetimeRedeemed |-> 0]
    /\ accruals = [o \in Orders |-> 0]
    /\ redeemed = 0

\* SELECT of a prior accrual for the order.
AccruedBefore(o) == accruals[o] > 0

\* A total worth no point accrues nothing.
Accruable(o) == PointsFor[o] > 0

\* The account is locked or freshly inserted: credit it, write the ledger row
\* and commit.
Credit(o) ==
    /\ account' = [account EXCEPT !.exists = TRUE,
                       !.balance = @ + PointsFor[o],
                       !.lifetimeEarned = @ + PointsFor[o]]
    /\ accruals' = [accruals EXCEPT ![o] = @ + 1]
    /\ UNCHANGED redeemed

\* redeem locks the account, refuses an overdraft and debits it.
Redeem(points) ==
    /\ account.exists
    /\ account.balance >= points
    /\ account' = [account EXCEPT !.balance = @ - points,
                                  !.lifetimeRedeemed = @ + points]
    /\ redeemed' = redeemed + points
    /\ UNCHANGED accruals

=============================================================================
