------------------------------- MODULE MCSaga -------------------------------
(***************************************************************************)
(* Saga with the constants of its configurations: one checkout, since no   *)
(* handler relates two; up to three transactions of order-service at once, *)
(* of which one may have read the order before both others wrote it.       *)
(***************************************************************************)
EXTENDS Saga
=============================================================================
