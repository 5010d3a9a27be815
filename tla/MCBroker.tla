----------------------------- MODULE MCBroker -----------------------------
(***************************************************************************)
(* Broker with one kind of publication of every sort that the services     *)
(* make: an event for a queue without retries, an event that any consumer  *)
(* of the shared notification queue takes, an event for one of             *)
(* order-service's queues, a published command, and requests to a service  *)
(* with and to one without a retry queue.  stock_reserved and register go  *)
(* on after their COMMIT, the others do not.  (Here user_registered is     *)
(* only for user-service.)                                                 *)
(***************************************************************************)
EXTENDS Broker

Publication(type, exchange, from, call) ==
  [type |-> type, exchange |-> exchange, from |-> from, call |-> call]

KindsDef ==
  {Publication("user_registered", "auth", "auth", FALSE),
   Publication("order_created", "order", "order", FALSE),
   Publication("stock_reserved", "inventory", "inventory", FALSE),
   Publication("clear_cart", "cart", "order", FALSE),
   Publication("get_cart", "cart", "order", TRUE),
   Publication("register", "auth", "api-gateway", TRUE)}

ActiveDef == {AuthCommands, UserEvents, CartCommands, OrderInventoryEvents,
              OrderPaymentEvents, NotificationOrderEvents,
              NotificationPaymentEvents}
=============================================================================
