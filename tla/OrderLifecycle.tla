--------------------------- MODULE OrderLifecycle ---------------------------
(***************************************************************************)
(* What the order service promises about a checkout: the order opens, has  *)
(* one outcome that is final, and the outcome is told to the inventory and *)
(* the cart at most once each, to take the stock or to give it back and    *)
(* never both.                                                             *)
(***************************************************************************)
EXTENDS Integers

CONSTANT Orders

VARIABLES outcome,  \* outcome[o]: "none", "open", "confirmed" or "cancelled"
          told      \* told[o][m]: how often the command m was sent

vars == <<outcome, told>>

Commands == {"confirm_stock", "clear_cart", "release_stock"}

Follows(m) == IF m = "release_stock" THEN "cancelled" ELSE "confirmed"

Init == /\ outcome = [o \in Orders |-> "none"]
        /\ told    = [o \in Orders |-> [m \in Commands |-> 0]]

Open(o) == /\ outcome[o] = "none"
           /\ outcome' = [outcome EXCEPT ![o] = "open"]
           /\ UNCHANGED told

Decide(o, result) == /\ outcome[o] = "open"
                     /\ outcome' = [outcome EXCEPT ![o] = result]
                     /\ UNCHANGED told

Tell(o, m) == /\ outcome[o] = Follows(m)
              /\ told[o][m] = 0
              /\ told' = [told EXCEPT ![o][m] = 1]
              /\ UNCHANGED outcome

Next == \E o \in Orders :
          \/ Open(o)
          \/ Decide(o, "confirmed") \/ Decide(o, "cancelled")
          \/ \E m \in Commands : Tell(o, m)

Spec == Init /\ [][Next]_vars
=============================================================================
