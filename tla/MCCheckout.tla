----------------------------- MODULE MCCheckout -----------------------------
(***************************************************************************)
(* TLC instances of Checkout.  A cart may hold a shirt (line l1), a mug    *)
(* (l2) and an ebook (l3); a store has one or two warehouses.              *)
(***************************************************************************)
EXTENDS Checkout, TLC

CONSTANTS shirt, mug, ebook, main, annex, l1, l2, l3

\* Two prepares differ in nothing but their names.
PrepareSymmetry == Permutations(Prepares)

MCReservationIds == Prepares \X LineIds
MCWarehouses == {main, annex}
OneWarehouse == <<main>>
TwoWarehouses == <<main, annex>>

\* One line of two shirts: each of two warehouses has as many.
ShirtVariants == {shirt}
ShirtCreatedAt == [l \in {l1} |-> 1]
ShirtVariantOf == [l \in {l1} |-> shirt]
ShirtLines == [l \in {l1} |-> 2]
ShirtStock == [i \in ShirtVariants \X MCWarehouses |-> 2]

GiftAndPoints == [status |-> "open", gift |-> TRUE, points |-> 3]
NothingSelected == [status |-> "open", gift |-> FALSE, points |-> 0]

\* A shirt and a mug, two and one of them in stock; an ebook may be added.
MixedVariants == {shirt, mug, ebook}
MixedCreatedAt == l1 :> 1 @@ l2 :> 2 @@ l3 :> 3
MixedVariantOf == l1 :> shirt @@ l2 :> mug @@ l3 :> ebook
MixedLines == l1 :> 1 @@ l2 :> 1 @@ l3 :> 0
MixedStock == [i \in MixedVariants \X {main} |->
                  CASE i[1] = shirt -> 2 [] i[1] = mug -> 1 [] OTHER -> 0]
=============================================================================
