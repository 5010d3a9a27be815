----------------------------- MODULE MCTracking -----------------------------
(***************************************************************************)
(* Tracking with the constants of its configuration: one checkout, since   *)
(* no handler of the saga relates two, at Mercado Pago, which alone sends  *)
(* the browser back; and one request of the browser that fails.            *)
(***************************************************************************)
EXTENDS Tracking
=============================================================================
