----------------------------- MODULE Storefront -----------------------------
(***************************************************************************)
(* A customer's browser, cart-service, catalog-service and what            *)
(* order-service does with the cart: it reads the cart to make an order    *)
(* and, when the order is paid, empties the cart with a command that comes *)
(* at any later time and may come again.                                   *)
(*                                                                         *)
(* The browser shows the answer that came last.  It does not wait for one  *)
(* command to be answered before it sends the next, and answers may come   *)
(* in another order than the service has worked; an answer that is late    *)
(* (five seconds at the gateway) is never shown.                           *)
(***************************************************************************)
EXTENDS Cart

CONSTANTS Orders \* the orders that the customer may place

ASSUME OrdersAssumption == "web" \notin Orders

VARIABLES shown,    \* the cart in the query cache
          behind,   \* whether the customer has not been told of a change
          orders,   \* orders[o]: status, and the lines that were ordered
          touched   \* touched[o]: variants the customer changed since

vars == <<catalog, cartRows, jobs, counters, ghosts, shown, behind, orders,
          touched>>

NoOrder == [status |-> "none", lines |-> [v \in Variants |-> NoLine]]
NoItem  == 0

Init == /\ CatalogInit /\ CartInit
        /\ shown = NoAnswer /\ behind = FALSE
        /\ orders = [o \in Orders |-> NoOrder]
        /\ touched = [o \in Orders |-> {}]

browser == <<shown, behind>>
ordering == <<orders, touched>>

Send(w, by, kind, p, v, n, item) ==
  /\ Receive(w, by, kind, p, v, n, item)
  /\ UNCHANGED <<catalog, ordering>>

Awaited(kind) == {w \in Workers : /\ jobs[w].pc # "idle" /\ jobs[w].awaited
                                  /\ jobs[w].kind = kind /\ jobs[w].by = "web"}

-----------------------------------------------------------------------------
(* The browser                                                             *)

AnyProduct == CHOOSE p \in Products : TRUE
AnyVariant == CHOOSE v \in Variants : TRUE

(* The page may be older than the product's last edit.                     *)
AddToCart(w, p, v) ==
  /\ products[p].exists /\ v \in issued
  /\ \A x \in Awaited("add") : jobs[x].product # p
  /\ Send(w, "web", "add", p, v, 1, NoItem)
  /\ UNCHANGED browser

(* One command for each change of the quantity's field.                    *)
UpdateItem(w, l, n) ==
  /\ l \in Rows(shown.lines)
  /\ n # l.quantity
  /\ Send(w, "web", "update", AnyProduct, l.variant, n, l.id)
  /\ UNCHANGED browser

RemoveItem(w, l) ==
  /\ l \in Rows(shown.lines)
  /\ Send(w, "web", "remove", AnyProduct, l.variant, 1, l.id)
  /\ UNCHANGED browser

ClearCart(w) ==
  /\ Rows(shown.lines) # {}
  /\ Awaited("clear") = {}
  /\ Send(w, "web", "clear", AnyProduct, AnyVariant, 1, NoItem)
  /\ UNCHANGED browser

GetCart(w) ==
  /\ Awaited("get") = {}
  /\ Send(w, "web", "get", AnyProduct, AnyVariant, 1, NoItem)
  /\ UNCHANGED browser

(* An answer is shown, whatever is shown already; an error is a toast.     *)
ShowAnswer(w) ==
  LET new == jobs[w].answer IN
  /\ jobs[w].pc \in {"done", "failed"} /\ jobs[w].by = "web" /\ jobs[w].awaited
  /\ IF jobs[w].pc = "done"
     THEN /\ shown' = new
          /\ behind' = IF new.at = answers THEN FALSE
                       ELSE behind \/ new.at < shown.at
     ELSE UNCHANGED browser
  /\ Goto(w, Idle)
  /\ UNCHANGED <<catalog, cartRows, counters, ghosts, ordering>>

(* The gateway, or the browser, no longer waits.                           *)
GiveUp(w) ==
  /\ jobs[w].pc # "idle" /\ jobs[w].awaited
  /\ Goto(w, [jobs[w] EXCEPT !.awaited = FALSE])
  /\ behind' = (behind \/ jobs[w].pc = "done")
  /\ UNCHANGED <<catalog, cartRows, counters, ghosts, shown, ordering>>

(* A command that nobody waits for ends; so does clear_cart.               *)
Forget(w) ==
  /\ jobs[w].pc \in {"done", "failed"}
  /\ ~jobs[w].awaited
  /\ jobs[w].by = "web" \/ jobs[w].kind = "clear"
  /\ Goto(w, Idle)
  /\ UNCHANGED <<catalog, cartRows, counters, ghosts, browser, ordering>>

-----------------------------------------------------------------------------
(* The order: createOrder's reading of the cart, and clear_cart.           *)

Placing == {w \in Workers : jobs[w].pc # "idle" /\ jobs[w].by \in Orders
                            /\ jobs[w].kind = "get" /\ jobs[w].awaited}

(* The button is disabled while the checkout is pending, no longer; every  *)
(* click has an idempotency key, and so an order, of its own.              *)
PlaceOrder(w, o) ==
  /\ Rows(shown.lines) # {}
  /\ Placing = {}
  /\ orders[o].status = "none"
  /\ orders' = [orders EXCEPT ![o].status = "placing"]
  /\ Receive(w, o, "get", AnyProduct, AnyVariant, 1, NoItem)
  /\ UNCHANGED <<catalog, browser, touched>>

(* mutant: the order is made of what the customer's page shows.            *)
LinesOfPage(answer) == shown.lines

OrderedLines(answer) == answer.lines

(* An empty cart, or an error of the cart's, makes no order.               *)
CreateOrder(w) ==
  LET o  == jobs[w].by
      ls == OrderedLines(jobs[w].answer)
  IN /\ jobs[w].pc = "done" /\ o \in Orders /\ jobs[w].kind = "get"
     /\ orders' = [orders EXCEPT ![o] =
          IF Rows(ls) = {} THEN [@ EXCEPT !.status = "refused"]
          ELSE [status |-> "created", lines |-> ls]]
     /\ Goto(w, Idle)
     /\ UNCHANGED <<catalog, cartRows, counters, ghosts, browser, touched>>

RefuseOrder(w) ==
  /\ jobs[w].pc = "failed" /\ jobs[w].by \in Orders /\ jobs[w].kind = "get"
  /\ orders' = [orders EXCEPT ![jobs[w].by].status = "refused"]
  /\ Goto(w, Idle)
  /\ UNCHANGED <<catalog, cartRows, counters, ghosts, browser, touched>>

(* The order is paid: clear_cart is published, and delivered at any time,  *)
(* once or, when a delivery fails or is cut off, again.                    *)
ConfirmOrder(o) ==
  /\ orders[o].status = "created"
  /\ orders' = [orders EXCEPT ![o].status = "confirmed"]
  /\ UNCHANGED <<catalog, cartRows, jobs, counters, ghosts, browser, touched>>

ClearOrdered(w, o) ==
  /\ orders[o].status = "confirmed"
  /\ Send(w, o, "clear", AnyProduct, AnyVariant, 1, NoItem)
  /\ UNCHANGED browser

-----------------------------------------------------------------------------
(* cart-service works.  A change whose answer will not be shown leaves the *)
(* customer behind; a customer's change is noted for the orders made       *)
(* before it.                                                              *)

Commits(w) == jobs[w].pc = "store" /\ jobs'[w].pc = "done"
Reads(w)   == jobs[w].pc = "fetch" /\ jobs'[w].pc = "done"
Repeats(w) == jobs[w].pc = "done"
Told(w)    == jobs[w].by = "web" /\ jobs[w].awaited

Work(w) ==
  /\ CartStep(w)
  /\ behind' = (behind \/ Repeats(w) \/ (Commits(w) /\ ~Told(w)))
  /\ touched' = [o \in Orders |->
       CASE Reads(w) /\ jobs[w].by = o -> {}
         [] Commits(w) /\ jobs[w].by = "web" ->
              touched[o] \cup DOMAIN jobs[w].writes
         [] OTHER -> touched[o]]
  /\ UNCHANGED <<catalog, shown, orders>>

(* The administrator saves the form of a product, new or edited.            *)
Create(p) == /\ CreateProduct(p)
             /\ UNCHANGED <<cartRows, jobs, counters, ghosts>>
             /\ UNCHANGED <<browser, ordering>>

Edit(e) == /\ UpdateProduct(e)
           /\ UNCHANGED <<cartRows, jobs, counters, ghosts, browser, ordering>>

Next ==
  \/ \E w \in Workers :
       \/ \E p \in Products, v \in Variants : AddToCart(w, p, v)
       \/ \E l \in Rows(shown.lines) :
            RemoveItem(w, l) \/ \E n \in 1..MaxQuantity : UpdateItem(w, l, n)
       \/ ClearCart(w) \/ GetCart(w)
       \/ ShowAnswer(w) \/ GiveUp(w) \/ Forget(w)
       \/ Work(w) \/ CreateOrder(w) \/ RefuseOrder(w)
       \/ \E o \in Orders : PlaceOrder(w, o) \/ ClearOrdered(w, o)
  \/ \E o \in Orders : ConfirmOrder(o)
  \/ \E p \in NewProducts : Create(p)
  \/ \E e \in Edits : Edit(e)

Spec == Init /\ [][Next]_vars

-----------------------------------------------------------------------------
(* Properties                                                              *)

(* What an order's clear_cart takes out of the cart is what was ordered.   *)
(* The only lines that a customer loses are of variants that the customer  *)
(* has changed after the order's reading of the cart (clearCart,           *)
(* createOrder).                                                           *)
ClearedWasOrdered ==
  [][\A w \in Workers : \A v \in Variants :
       LET o == jobs[w].by IN
       (jobs[w].pc = "store" /\ jobs'[w].pc = "done" /\ o \in Orders
        /\ lines[v] # NoLine /\ lines'[v] = NoLine)
         => lines[v] = orders[o].lines[v] \/ v \in touched[o]]_vars

(* When nothing is on its way, the customer's page shows the cart that the *)
(* service has, to the subtotal, unless the last change was made without   *)
(* the customer being told, or answers came in another order than they     *)
(* were made and none has come since (setCart, fetchCart).                 *)
ShownIsServed ==
  (~behind /\ \A w \in Workers : jobs[w].pc = "idle")
    => shown.lines = lines /\ (shown.cart = cart \/ shown = NoAnswer)
=============================================================================
