----------------------------- MODULE MCPayments -----------------------------
(***************************************************************************)
(* TLC instance of Payments: one or two payments of as many orders, and a  *)
(* few concurrent calls and webhook deliveries, each whatever it likes.    *)
(***************************************************************************)
EXTENDS Payments, TLC

MCOrderOf == [p \in Payments |-> CHOOSE o \in Orders : TRUE]
MCPointsFor == [o \in Orders |-> 1]

\* Calls differ in nothing but their names.
CallSymmetry == Permutations(Calls)
=============================================================================
