----------------------------- MODULE StockPool -----------------------------
(***************************************************************************)
(* What the inventory service promises, without its counter of reserved    *)
(* stock, its movements, its locks or its events: an order claims units of *)
(* several variants at once, all of them or none; a claim is settled once, *)
(* by a sale or by giving the units back; and stock that some claim holds  *)
(* is never promised to another one.  Whether a claim fits is decided by   *)
(* counting the units the open claims hold.                                *)
(***************************************************************************)
EXTENDS Integers, FiniteSets

CONSTANTS Variants,     \* product variants
          Orders,       \* orders that may claim stock
          MaxQuantity,  \* bound: units of one variant in one order
          MaxStock      \* bound: units of one variant on hand

VARIABLES onHand,  \* onHand[v]: units of v in the warehouse, claimed or not
          claims   \* claims[o]: the state of order o's claim and its units

vars == <<onHand, claims>>

Quantities == [Variants -> 0..MaxQuantity]
States     == {"none", "held", "sold", "returned", "refused"}

(* The units of v that open claims hold: one element per unit.             *)
Held(v) == {u \in Orders \X (1..MaxQuantity) :
              /\ claims[u[1]].state = "held"
              /\ u[2] <= claims[u[1]].items[v]}

Init == /\ onHand = [v \in Variants |-> 0]
        /\ claims = [o \in Orders |->
                       [state |-> "none", items |-> [v \in Variants |-> 0]]]

Claim(o, q) ==
  /\ claims[o].state = "none"
  /\ \A v \in Variants : q[v] > 0 => Cardinality(Held(v)) + q[v] <= onHand[v]
  /\ claims' = [claims EXCEPT ![o] = [state |-> "held", items |-> q]]
  /\ UNCHANGED onHand

Refuse(o, q) ==
  /\ claims[o].state = "none"
  /\ claims' = [claims EXCEPT ![o] = [state |-> "refused", items |-> q]]
  /\ UNCHANGED onHand

Sell(o) ==
  /\ claims[o].state = "held"
  /\ claims' = [claims EXCEPT ![o].state = "sold"]
  /\ onHand' = [v \in Variants |-> onHand[v] - claims[o].items[v]]

GiveBack(o) ==
  /\ claims[o].state = "held"
  /\ claims' = [claims EXCEPT ![o].state = "returned"]
  /\ UNCHANGED onHand

Restock(v, n) ==
  /\ n >= Cardinality(Held(v))
  /\ onHand' = [onHand EXCEPT ![v] = n]
  /\ UNCHANGED claims

Next == \/ \E o \in Orders, q \in Quantities : Claim(o, q) \/ Refuse(o, q)
        \/ \E o \in Orders : Sell(o) \/ GiveBack(o)
        \/ \E v \in Variants, n \in 0..MaxStock : Restock(v, n)

Spec == Init /\ [][Next]_vars
=============================================================================
