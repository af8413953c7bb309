--------------------------- MODULE MCInventory ---------------------------
(***************************************************************************)
(* TLC instance of Inventory.                                              *)
(***************************************************************************)
EXTENDS Inventory, TLC

\* Reservation ids and transfer ids are only compared for equality.
RowSymmetry == Permutations(ReservationIds) \union Permutations(TransferIds)
=============================================================================
