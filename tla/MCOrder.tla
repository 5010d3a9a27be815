------------------------------ MODULE MCOrder ------------------------------
(***************************************************************************)
(* Order with the constants of its configurations: one order, since no     *)
(* handler relates two, and two handlers at once, the fewest that can      *)
(* overlap.  MaxJobs decides how many commands and events are delivered.   *)
(***************************************************************************)
EXTENDS Order
=============================================================================
