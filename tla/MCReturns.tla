----------------------------- MODULE MCReturns -----------------------------
(***************************************************************************)
(* TLC instance of Returns (and Fulfillment): an order of one line of two  *)
(* units, two fulfillments or two returns of it, two requests at a time.   *)
(***************************************************************************)
EXTENDS Returns, TLC

CONSTANT l1

MCOrdered == [l \in {l1} |-> 2]

\* Bound: two documents of the order, in any mix of fulfillments and returns.
TwoDocuments ==
    Cardinality({f \in FulfillmentIds : fulfillments[f].status # "none"})
        + Cardinality({r \in ReturnIds : returns[r].status # "none"}) <= 2

Symmetry ==
    Permutations(Calls) \union Permutations(FulfillmentIds)
        \union Permutations(ReturnIds)
=============================================================================
