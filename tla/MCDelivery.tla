----------------------------- MODULE MCDelivery -----------------------------
(***************************************************************************)
(* The instance of Delivery that TLC checks.                               *)
(***************************************************************************)
EXTENDS Delivery
============================================================================
