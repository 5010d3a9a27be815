---------------------------- MODULE MCInventory ----------------------------
(***************************************************************************)
(* Small constants for Inventory.  Two orders compete for the last units   *)
(* of v1 and v2; a third command reuses the first one's idempotency key    *)
(* for the other order and asks for a delisted variant.                    *)
(***************************************************************************)
EXTENDS Inventory, TLC

CONSTANTS v1, v2, v3, s1, s2, o1, o2, k1, k2

MCSkus     == (v1 :> s1) @@ (v2 :> s2) @@ (v3 :> s1)
MCRequests ==
  { [order |-> o1, key |-> k1, skus |-> MCSkus, items |-> (v1 :> 1) @@ (v2 :> 1) @@ (v3 :> 0)],
    [order |-> o2, key |-> k2, skus |-> MCSkus, items |-> (v1 :> 2) @@ (v2 :> 1) @@ (v3 :> 0)],
    [order |-> o2, key |-> k1, skus |-> MCSkus, items |-> (v1 :> 0) @@ (v2 :> 0) @@ (v3 :> 1)] }
=============================================================================
