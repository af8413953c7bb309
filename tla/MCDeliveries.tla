---------------------------- MODULE MCDeliveries ----------------------------
(***************************************************************************)
(* TLC instance of Deliveries: an event for two endpoints and two workers. *)
(***************************************************************************)
EXTENDS Deliveries
=============================================================================
