--------------------------- MODULE MCInventoryTx ---------------------------
(***************************************************************************)
(* TLC instance of InventoryTx: two concurrent calls about two variants, *)
(* one reservation and one transfer.                                       *)
(***************************************************************************)
EXTENDS InventoryTx, TLC

CONSTANTS v1, v2, w1, w2, t1

MCVariants == {v1, v2}
MCWarehouses == {w1, w2}
MCVariantId == [v \in MCVariants |-> IF v = v1 THEN 1 ELSE 2]

Both == [v \in MCVariants |-> 1]

\* The methods that matter to each other, on the items they can share.
MCRequests ==
    [op : {"create"}, item : {<<v1, w1>>, <<v2, w1>>}, quantity : {1}] \union
    [op : {"createTransfer"}, transfer : {t1}, from : {w1}, to : {w2},
     lines : {Both}] \union
    [op : {"adjust"}, item : {<<v2, w1>>, <<v1, w2>>}, delta : {-1, 1}] \union
    [op : {"reserve"}, reservation : ReservationIds, item : {<<v2, w1>>},
     quantity : {1}] \union
    [op : {"release", "commit"}, reservation : ReservationIds] \union
    [op : {"ship", "receive", "cancel"}, transfer : TransferIds] \union
    [op : {"shipment"}, items : {<< <<v2, w1>>, <<v1, w1>> >>}]
=============================================================================
