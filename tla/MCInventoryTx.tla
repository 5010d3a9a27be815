--------------------------- MODULE MCInventoryTx ---------------------------
(***************************************************************************)
(* Small constants for InventoryTx.  Two orders name the same two variants *)
(* in opposite orders, one of them in two lines; a third command takes the *)
(* first one's key for the second order.  Stock can be adjusted under them *)
(* and every command can come again.                                       *)
(***************************************************************************)
EXTENDS InventoryTx

CONSTANTS o1, o2, k1, k2

Reserve(o, k, lines) == [kind |-> "reserve", order |-> o, key |-> k, lines |-> lines]
Adjust(v, mode, n)   == [kind |-> "adjust", variant |-> v, mode |-> mode, quantity |-> n]

MCCommands ==
  { Reserve(o1, k1, <<Line(2, 1), Line(1, 1), Line(2, 1)>>),
    Reserve(o2, k2, <<Line(1, 1), Line(2, 1)>>),
    Reserve(o2, k1, <<Line(1, 1)>>),
    Adjust(1, "SET", 1), Adjust(2, "SET", 2), Adjust(2, "DECREMENT", 1) }
  \cup {[kind |-> "confirm", order |-> o1]}
  \cup {[kind |-> "release", order |-> o] : o \in {o1, o2}}
=============================================================================
