------------------------------ MODULE Topology ------------------------------
(***************************************************************************)
(* Who listens to what: the exchanges, queues, bindings, retry queues and  *)
(* dead-letter queues that the services' message handlers declare when     *)
(* they start.  A message's type is its routing key, here the key's last   *)
(* part; a service's main exchange has the service's name.                 *)
(*                                                                         *)
(* A subscription names its exchange and queue, the routing keys it binds  *)
(* the queue to, the types its handler has a branch for, the key under     *)
(* which a retried message goes to the retry queue and comes back (or      *)
(* None), and whether rejected messages go to a dead-letter queue.         *)
(***************************************************************************)

None == "none"

Subscription(service, exchange, queue, keys, branches, retryKey, deadLetter) ==
  [service |-> service, exchange |-> exchange, queue |-> queue, keys |-> keys,
   branches |-> branches, retryKey |-> retryKey, deadLetter |-> deadLetter]

AuthTypes == {"register", "login", "refresh"}

AuthCommands == Subscription("auth", "auth", "auth.commands",
  AuthTypes, AuthTypes, None, FALSE)

CatalogTypes == {"create_product", "get_categories", "get_product",
                 "list_products", "update_product"}

CatalogCommands == Subscription("catalog", "catalog", "catalog.commands",
  CatalogTypes, CatalogTypes, None, FALSE)

(* The handler of user.events looks at no type.                            *)
UserEvents == Subscription("user", "auth", "user.events",
  {"user_registered"}, {"user_registered"}, None, FALSE)

UserTypes == {"create_address", "get_profile", "list_addresses",
              "update_profile"}

UserCommands == Subscription("user", "user", "user.commands",
  UserTypes, UserTypes, None, FALSE)

CartTypes == {"add_item", "clear_cart", "get_cart", "remove_item",
              "update_item"}

CartCommands == Subscription("cart", "cart", "cart.commands",
  CartTypes, CartTypes, "cart.command.retry", TRUE)

InventoryTypes == {"adjust_stock", "confirm_stock", "release_stock",
                   "reserve_stock"}

InventoryCommands == Subscription("inventory", "inventory",
  "inventory.commands", InventoryTypes, InventoryTypes,
  "inventory.command.retry", TRUE)

OrderTypes == {"create_order", "create_checkout_session", "get_order",
               "list_orders", "update_status"}

(* mutant: the subscriptions of order-service share one retry key.         *)
OrderRetryShared(key) == "order.retry"

OrderRetry(key) == key

OrderCommands == Subscription("order", "order", "order.commands",
  OrderTypes, OrderTypes, OrderRetry("order.command.retry"), TRUE)

ReservationTypes == {"stock_reservation_failed", "stock_reserved"}

OrderInventoryEvents == Subscription("order", "inventory",
  "order.inventory.events", ReservationTypes, ReservationTypes,
  OrderRetry("order.inventory_event.retry"), TRUE)

PaymentOutcomes == {"payment_failed", "payment_cancelled", "payment_expired",
                    "payment_pending", "preference_created",
                    "payment_rejected", "payment_succeeded"}

OrderPaymentEvents == Subscription("order", "payment",
  "order.payment.events", PaymentOutcomes, PaymentOutcomes,
  OrderRetry("order.payment_event.retry"), TRUE)

PaymentTypes == {"process_webhook", "request_payment", "sync_payment_status"}

PaymentCommands == Subscription("payment", "payment", "payment.commands",
  PaymentTypes, PaymentTypes, "payment.command.retry", TRUE)

(* createNotificationDraft                                                 *)
NotificationTypes == {"user_registered", "order_created",
                      "payment_succeeded", "payment_failed",
                      "order_confirmed", "order_cancelled"}

(* Three subscriptions consume one queue with one handler: a message is    *)
(* delivered to any of them, and retried under that one's key.             *)
NotificationSubscription(exchange, keys, retryKey) ==
  Subscription("notification", exchange, "notification.events", keys,
               NotificationTypes, retryKey, TRUE)

NotificationAuthEvents == NotificationSubscription("auth",
  {"user_registered"}, "notification.auth_event.retry")

NotificationOrderEvents == NotificationSubscription("order",
  {"order_cancelled", "order_confirmed", "order_created"},
  "notification.order_event.retry")

NotificationPaymentEvents == NotificationSubscription("payment",
  {"payment_failed", "payment_succeeded"}, "notification.payment_event.retry")

Subscriptions ==
  {AuthCommands, CatalogCommands, UserEvents, UserCommands, CartCommands,
   InventoryCommands, OrderCommands, OrderInventoryEvents, OrderPaymentEvents,
   PaymentCommands, NotificationAuthEvents, NotificationOrderEvents,
   NotificationPaymentEvents}

(* The keys that a subscription binds its queue to.                        *)
BoundKeys(x) == x.keys \cup ({x.retryKey} \ {None})

(* The queues that a topic exchange routes a key to, given the             *)
(* subscriptions that have declared their queues.                          *)
Routed(declared, exchange, key) ==
  {x.queue : x \in {y \in declared : /\ y.exchange = exchange
                                     /\ key \in BoundKeys(y)}}
=============================================================================
