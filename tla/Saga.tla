-------------------------------- MODULE Saga --------------------------------
(***************************************************************************)
(* The checkout saga: order-service, inventory-service and payment-service *)
(* joined by their messages, with the payer at the payment provider and an *)
(* administrator.  In order-service a transaction reads the order without  *)
(* a lock and commits in a later step, so that handlers of one order, the  *)
(* session and the administrator overlap.  A handler may stop or fail      *)
(* between its COMMIT and its publishes: its message is delivered again    *)
(* and finds the work done.  The other services' handlers are one step     *)
(* each: their locks and counters are the subject of Inventory,            *)
(* InventoryTx and Payment.  The cart is cleared in Storefront.            *)
(***************************************************************************)
EXTENDS Integers, FiniteSets

CONSTANTS Orders,        \* checkouts, each with an idempotency key of its own
          Providers,     \* the payment providers a deployment may choose
          AdminStatuses, \* the statuses an administrator sets
          MaxOpen,       \* bound: order-service's transactions open at once
          MaxFaults      \* bound: crashes and failed requests in a behaviour

OrderStatuses == {"PENDING", "STOCK_RESERVED", "PAYMENT_PENDING", "PAID",
                  "CONFIRMED", "PREPARING", "SHIPPED", "DELIVERED", "FAILED",
                  "CANCELLED", "REFUNDED"}

ASSUME SagaAssumption == /\ Providers \subseteq {"MERCADO_PAGO", "MOCK"}
                         /\ AdminStatuses \subseteq OrderStatuses
                         /\ MaxOpen \in Nat /\ MaxFaults \in Nat

VARIABLES session,      \* create_checkout_session, as order-service runs it
          orders,       \* the status of each order's row
          reads,        \* order-service's open transactions
          reservations, \* the status of its stock_reservations row
          payments,     \* the status of its payments row
          provider,     \* the status of the latest payment at Mercado Pago,
                        \* or "mock" where the row is the mock provider's
          network,      \* messages on their way, waiting, or unacknowledged
          lost,         \* messages never published, and dead-lettered ones
          faults,       \* faults so far
          past,         \* history, read by no guard: what befell the order
          byHand        \* history: whether its status is an administrator's

sagaVars == <<session, orders, reads, reservations, payments, provider,
              network, lost, faults, past, byHand>>

Message(kind, o) == [kind |-> kind, order |-> o]

SagaInit ==
  /\ session      = [o \in Orders |-> "none"]
  /\ orders       = [o \in Orders |-> "none"]
  /\ reservations = [o \in Orders |-> "none"]
  /\ payments     = [o \in Orders |-> "none"]
  /\ provider     = [o \in Orders |-> "none"]
  /\ reads = {} /\ network = {} /\ lost = {} /\ faults = 0
  /\ past         = [o \in Orders |-> {}]
  /\ byHand       = [o \in Orders |-> FALSE]

IsTerminalOrder(status) == status \in {"CANCELLED", "CONFIRMED", "REFUNDED"}
IsTerminalPayment(status) == status \in {"APPROVED", "REJECTED"}

(* order-service asks for a payment of an order with one of these.         *)
AwaitsPayment(status) == status \in {"PAYMENT_PENDING", "STOCK_RESERVED"}

(* canApplyPaymentResult                                                   *)
CanApplyPaymentResult(status) == AwaitsPayment(status) \/ status = "PAID"

Fault == faults < MaxFaults /\ faults' = faults + 1

(* After its COMMIT a handler publishes `events` and sends `replies`.  If  *)
(* its process stops, or a publish fails, some events are lost, no reply   *)
(* is sent, and the messages `again` are delivered again; a request whose  *)
(* handler failed is answered with an error instead, which ends the wait   *)
(* for it like a timeout.                                                  *)
Publish(rest, again, events, replies) ==
  \/ /\ network' = rest \cup events \cup replies
     /\ UNCHANGED <<lost, faults>>
  \/ \E said \in SUBSET events :
       /\ Fault
       /\ \/ network' = rest \cup again \cup said
          \/ replies # {} /\ network' = rest \cup said
       /\ lost' = lost \cup (events \ said)

(* A handler of the message `taken`, in one step.                          *)
Finish(taken, events, replies) ==
  Publish(network \ taken, taken, events, replies)

-----------------------------------------------------------------------------
(* order-service: transactions                                             *)

(* What an order's status must be when it is read, by kind of transaction. *)
Accepts(kind, status) ==
  \/ /\ kind \in {"stock_reserved", "stock_reservation_failed",
                  "mark_payment_pending"}
     /\ status = "PENDING"
  \/ /\ kind \in {"payment_succeeded", "payment_failed"}
     /\ CanApplyPaymentResult(status)
  \/ /\ kind \in {"payment_pending", "fail_checkout"}
     /\ ~IsTerminalOrder(status)

(* The status a transaction writes, whatever the row says by then.         *)
LeadsTo(kind) ==
  CASE kind \in {"stock_reserved", "mark_payment_pending", "payment_pending"}
         -> "PAYMENT_PENDING"
    [] kind = "payment_succeeded" -> "CONFIRMED"
    [] kind \in {"stock_reservation_failed", "payment_failed",
                 "fail_checkout"} -> "CANCELLED"

(* mutant: the stock of an order whose payment failed is not given back.   *)
ReleaseUnlessPaid(kind) ==
  CASE kind = "stock_reserved"    -> {"request_payment"}
    [] kind = "payment_succeeded" -> {"confirm_stock"}
    [] kind = "fail_checkout"     -> {"release_stock"}
    [] OTHER -> {}

(* What it publishes once it has committed.  order_cancelled,              *)
(* order_confirmed, order_status_changed and clear_cart are left out.      *)
Publications(kind) ==
  CASE kind = "stock_reserved"    -> {"request_payment"}
    [] kind = "payment_succeeded" -> {"confirm_stock"}
    [] kind \in {"payment_failed", "fail_checkout"} -> {"release_stock"}
    [] OTHER -> {}

(* A transaction reads the order, which it is to write later.              *)
Begin(kind, o) ==
  /\ Cardinality(reads) < MaxOpen
  /\ reads' = reads \cup {[kind |-> kind, order |-> o, seen |-> orders[o]]}

Noted(o, what) == past' = [past EXCEPT ![o] = @ \cup what]

(* The write and the COMMIT of t.  A final status it did not read is       *)
(* overwritten all the same.                                               *)
Commit(t) ==
  /\ t \in reads
  /\ reads' = reads \ {t}
  /\ orders' = [orders EXCEPT ![t.order] = LeadsTo(t.kind)]
  /\ byHand' = [byHand EXCEPT ![t.order] = FALSE]
  /\ Noted(t.order,
           (IF IsTerminalOrder(orders[t.order]) /\ orders[t.order] # LeadsTo(t.kind)
            THEN {"overwritten"} ELSE {})
             \cup (IF t.kind = "fail_checkout" THEN {"gave up"} ELSE {}))

Announced(t) == {Message(e, t.order) : e \in Publications(t.kind)}

(* A transaction fails, or its process stops before the COMMIT.            *)
RollBack(t) ==
  /\ t \in reads
  /\ Fault
  /\ reads' = reads \ {t}
  /\ IF t.kind \in {"mark_payment_pending", "fail_checkout"}
     THEN /\ session' = [session EXCEPT ![t.order] = "over"]
          /\ UNCHANGED network
     ELSE /\ network' = network \cup {Message(t.kind, t.order)}
          /\ UNCHANGED session
  /\ UNCHANGED <<orders, reservations, payments, provider, lost, past, byHand>>

-----------------------------------------------------------------------------
(* order-service: the checkout session.  An order has one at a time.       *)

(* POST /checkout: the gateway requests a session.                         *)
CheckOut(o) ==
  /\ session[o] = "none"
  /\ session' = [session EXCEPT ![o] = "begin"]
  /\ UNCHANGED <<orders, reads, reservations, payments, provider, network,
                 lost, faults, past, byHand>>

(* The session goes on to the payment, or is over.                         *)
RequestPayment(o, status, rest) ==
  IF AwaitsPayment(status)
  THEN /\ session' = [session EXCEPT ![o] = "payment"]
       /\ network' = rest \cup {Message("request_payment rpc", o)}
  ELSE /\ session' = [session EXCEPT ![o] = "over"]
       /\ network' = rest

(* createOrder, or the order that the key has, and the first request.      *)
OpenSession(o) ==
  /\ session[o] = "begin"
  /\ orders' = [orders EXCEPT ![o] = IF @ = "none" THEN "PENDING" ELSE @]
  /\ IF orders'[o] = "PENDING"
     THEN /\ session' = [session EXCEPT ![o] = "stock"]
          /\ network' = network \cup {Message("reserve_stock", o)}
     ELSE RequestPayment(o, orders'[o], network)
  /\ UNCHANGED <<reads, reservations, payments, provider, lost, faults, past, byHand>>

(* The reply to reserve_stock, whatever it says: markOrderPaymentPending   *)
(* reads the order.                                                        *)
StockReply(o) ==
  LET rest == network \ {Message("stock reply", o)} IN
  /\ session[o] = "stock"
  /\ Message("stock reply", o) \in network
  /\ IF Accepts("mark_payment_pending", orders[o])
     THEN /\ Begin("mark_payment_pending", o)
          /\ session' = [session EXCEPT ![o] = "marking"]
          /\ network' = rest
     ELSE RequestPayment(o, orders[o], rest) /\ UNCHANGED reads
  /\ UNCHANGED <<orders, reservations, payments, provider, lost, faults, past, byHand>>

(* markOrderPaymentPending commits.  If the publish after it fails, so     *)
(* does the session.                                                       *)
MarkOrderPaymentPending(t) ==
  /\ t.kind = "mark_payment_pending"
  /\ Commit(t)
  /\ \/ RequestPayment(t.order, LeadsTo(t.kind), network) /\ UNCHANGED faults
     \/ /\ Fault
        /\ session' = [session EXCEPT ![t.order] = "over"]
        /\ UNCHANGED network
  /\ UNCHANGED <<reservations, payments, provider, lost>>

(* No reply within 10 s, or an error: the session ends and leaves the      *)
(* order PENDING.                                                          *)
StockTimeout(o) ==
  /\ session[o] = "stock"
  /\ session' = [session EXCEPT ![o] = "over"]
  /\ UNCHANGED <<orders, reads, reservations, payments, provider, network,
                 lost, faults, past, byHand>>

(* The reply to request_payment: the browser is sent to the checkout URL,  *)
(* which the mock provider has none of.                                    *)
PaymentReply(o) ==
  /\ session[o] = "payment"
  /\ Message("payment reply", o) \in network
  /\ session' = [session EXCEPT
       ![o] = IF provider[o] = "mock" THEN "over" ELSE "ready"]
  /\ network' = network \ {Message("payment reply", o)}
  /\ UNCHANGED <<orders, reads, reservations, payments, provider, lost,
                 faults, past, byHand>>

(* An error reply, or none within 15 s: failCheckoutSession reads the      *)
(* order.                                                                  *)
PaymentTimeout(o) ==
  /\ session[o] = "payment"
  /\ IF Accepts("fail_checkout", orders[o])
     THEN /\ session' = [session EXCEPT ![o] = "failing"]
          /\ Begin("fail_checkout", o)
     ELSE /\ session' = [session EXCEPT ![o] = "over"]
          /\ UNCHANGED reads
  /\ UNCHANGED <<orders, reservations, payments, provider, network, lost,
                 faults, past, byHand>>

(* failCheckoutSession commits, and the session is rejected.               *)
FailCheckoutSession(t) ==
  /\ t.kind = "fail_checkout"
  /\ Commit(t)
  /\ session' = [session EXCEPT ![t.order] = "over"]
  /\ Publish(network, {}, Announced(t), {})
  /\ UNCHANGED <<reservations, payments, provider>>

(* A reply to a session that no longer waits is dropped.                   *)
DropReply(o, kind, waiting) ==
  /\ Message(kind, o) \in network
  /\ session[o] # waiting
  /\ network' = network \ {Message(kind, o)}
  /\ UNCHANGED <<session, orders, reads, reservations, payments, provider,
                 lost, faults, past, byHand>>

(* order-service stops while a session waits or writes: the command is     *)
(* delivered again, and replies to the process that was are lost.          *)
SessionRestarts(o) ==
  /\ session[o] \in {"stock", "marking", "payment", "failing"}
  /\ Fault
  /\ session' = [session EXCEPT ![o] = "begin"]
  /\ reads' = {t \in reads : t.order = o =>
       t.kind \notin {"mark_payment_pending", "fail_checkout"}}
  /\ network' = network \ {Message(reply, o) :
       reply \in {"stock reply", "payment reply"}}
  /\ UNCHANGED <<orders, reservations, payments, provider, lost, past, byHand>>

-----------------------------------------------------------------------------
(* order-service: events and the administrator                             *)

Events == {"stock_reserved", "stock_reservation_failed", "payment_pending",
           "payment_succeeded", "payment_failed"}

(* The handler refuses an event that it neither accepts nor ignores: the   *)
(* ConflictException of payment results.                                   *)
Conflicts(kind, status) ==
  /\ kind \in {"payment_succeeded", "payment_failed"}
  /\ ~IsTerminalOrder(status)
  /\ ~CanApplyPaymentResult(status)

(* A handler begins: it reads the order, and returns early from one that   *)
(* it has nothing to do with.  preference_created is handled like          *)
(* payment_pending and counts as such; payment_rejected, payment_cancelled *)
(* and payment_expired are payment_failed.                                 *)
ReceiveEvent(o, kind) ==
  /\ Message(kind, o) \in network
  /\ ~Conflicts(kind, orders[o])
  /\ network' = network \ {Message(kind, o)}
  /\ IF Accepts(kind, orders[o]) THEN Begin(kind, o) ELSE UNCHANGED reads
  /\ UNCHANGED <<session, orders, reservations, payments, provider, lost,
                 faults, past, byHand>>

(* It commits, and publishes.                                              *)
HandleEvent(t) ==
  /\ t.kind \in Events
  /\ Commit(t)
  /\ Publish(network, {Message(t.kind, t.order)}, Announced(t), {})
  /\ UNCHANGED <<session, reservations, payments, provider>>

(* The administrator sets any status; nobody but the customer is told.     *)
UpdateOrderStatus(o, status) ==
  /\ orders[o] \notin {"none", status}
  /\ orders' = [orders EXCEPT ![o] = status]
  /\ byHand' = [byHand EXCEPT ![o] = TRUE]
  /\ Noted(o, {"by hand"})
  /\ UNCHANGED <<session, reads, reservations, payments, provider, network,
                 lost, faults>>

-----------------------------------------------------------------------------
(* inventory-service                                                       *)

(* The first reserve_stock of an order decides; a repeated one replies.    *)
ReserveStock(o) ==
  LET taken == {Message("reserve_stock", o)}
      reply == {Message("stock reply", o)}
  IN
  /\ Message("reserve_stock", o) \in network
  /\ \/ /\ reservations[o] = "none"
        /\ \E outcome \in {<<"PENDING", "stock_reserved">>,
                           <<"FAILED", "stock_reservation_failed">>} :
             /\ reservations' = [reservations EXCEPT ![o] = outcome[1]]
             /\ Finish(taken, {Message(outcome[2], o)}, reply)
     \/ /\ reservations[o] # "none"
        /\ Finish(taken, {}, reply)
        /\ UNCHANGED reservations
  /\ UNCHANGED <<session, orders, reads, payments, provider, past, byHand>>

ConfirmStockReservation(o) ==
  /\ Message("confirm_stock", o) \in network
  /\ reservations[o] \in {"PENDING", "CONFIRMED"}
  /\ reservations' = [reservations EXCEPT ![o] = "CONFIRMED"]
  /\ Finish({Message("confirm_stock", o)}, {}, {})
  /\ UNCHANGED <<session, orders, reads, payments, provider, past, byHand>>

(* mutant: the release of a confirmed reservation is acknowledged, not     *)
(* refused.                                                                *)
ReleaseQuietly(o) ==
  /\ Message("release_stock", o) \in network
  /\ reservations' = [reservations EXCEPT
       ![o] = IF @ = "PENDING" THEN "RELEASED" ELSE @]
  /\ Finish({Message("release_stock", o)}, {}, {})
  /\ UNCHANGED <<session, orders, reads, payments, provider, past, byHand>>

ReleaseStockReservation(o) ==
  /\ Message("release_stock", o) \in network
  /\ reservations[o] \in {"PENDING", "RELEASED", "FAILED"}
  /\ reservations' = [reservations EXCEPT
       ![o] = IF @ = "PENDING" THEN "RELEASED" ELSE @]
  /\ Finish({Message("release_stock", o)}, {}, {})
  /\ UNCHANGED <<session, orders, reads, payments, provider, past, byHand>>

(* A message that its handler refuses each time is dead-lettered: a        *)
(* command that confirms a reservation which expired (while PENDING),      *)
(* failed or was released, one that releases a confirmed one, a request    *)
(* for a payment that the provider does not take, and a payment's result   *)
(* that conflicts with the order.                                          *)
GiveUp(o) ==
  \E kind \in {"confirm_stock", "release_stock", "request_payment",
               "payment_succeeded", "payment_failed"} :
    /\ Message(kind, o) \in network
    /\ kind = "confirm_stock"   => reservations[o] # "CONFIRMED"
    /\ kind = "release_stock"   => reservations[o] \in {"none", "CONFIRMED"}
    /\ kind = "request_payment" => payments[o] = "none"
    /\ kind \in {"payment_succeeded", "payment_failed"}
         => Conflicts(kind, orders[o])
    /\ network' = network \ {Message(kind, o)}
    /\ lost' = lost \cup {Message(kind, o)}
    /\ UNCHANGED <<session, orders, reads, reservations, payments, provider,
                   faults, past, byHand>>

-----------------------------------------------------------------------------
(* payment-service and the payment provider                                *)

EventOf(status) == CASE status = "APPROVED" -> "payment_succeeded"
                     [] status = "REJECTED" -> "payment_failed"
                     [] OTHER               -> "payment_pending"

(* The row of a payment takes a status.                                    *)
SetPayment(o, status) ==
  /\ payments' = [payments EXCEPT ![o] = status]
  /\ Noted(o, IF status = "REJECTED" THEN {"rejected"} ELSE {})

(* createPaymentPreference: Mercado Pago opens a checkout, the mock        *)
(* decides at once.                                                        *)
Outcomes(p) == IF p = "MOCK" THEN {"APPROVED", "REJECTED"} ELSE {"PENDING"}

(* request_payment, by the session or by stock_reserved: one payment per   *)
(* order.  When the provider fails, the event's command is tried again,    *)
(* and the session's is answered with an error.                            *)
ProcessPayment(o, kind) ==
  LET taken == {Message(kind, o)}
      reply == IF kind = "request_payment" THEN {}
               ELSE {Message("payment reply", o)}
  IN
  /\ Message(kind, o) \in network
  /\ \/ /\ payments[o] = "none"
        /\ \E p \in Providers : \E status \in Outcomes(p) :
             /\ SetPayment(o, status)
             /\ provider' = [provider EXCEPT
                  ![o] = IF p = "MOCK" THEN "mock" ELSE @]
             /\ Finish(taken, {Message(EventOf(status), o)}, reply)
     \/ /\ payments[o] # "none"
        /\ Finish(taken, {}, reply)
        /\ UNCHANGED <<payments, provider, past>>
     \/ /\ payments[o] = "none"
        /\ kind = "request_payment rpc"
        /\ Finish(taken, {}, {})
        /\ UNCHANGED <<payments, provider, past>>
  /\ UNCHANGED <<session, orders, reads, reservations, byHand>>

(* The payer, at Mercado Pago's checkout: an attempt is undecided,         *)
(* rejected or approved, and a rejected one may be followed by another,    *)
(* which may be notified before it.                                        *)
PayerActs(o, status) ==
  /\ session[o] = "ready"
  /\ provider[o] \notin {status, "APPROVED", "mock"}
  /\ provider[o] = "none" \/ status # "PENDING"
  /\ provider' = [provider EXCEPT ![o] = status]
  /\ network' = network \cup {Message("webhook", o)}
       \cup {Message("webhook of a rejected attempt", m.order) : m \in
              {n \in network : /\ n = Message("webhook", o)
                              /\ provider[o] = "REJECTED"}}
  /\ UNCHANGED <<session, orders, reads, reservations, payments, lost,
                 faults, past, byHand>>

(* getPaymentStatus: Mercado Pago's latest payment; the mock approves.     *)
Latest(o) == IF provider[o] = "mock" THEN "APPROVED" ELSE provider[o]

(* mutant: a status that was asked for is stored and not announced.        *)
ApplyUnannounced(o, status, taken) ==
  /\ SetPayment(o, status)
  /\ Finish(taken, IF taken = {} \/ payments[o] = status
                   THEN {} ELSE {Message(EventOf(status), o)}, {})

(* applyProviderStatus: the row takes what the provider says, announced    *)
(* unless it had that final status already.                                *)
ApplyProviderStatus(o, status, taken) ==
  /\ SetPayment(o, status)
  /\ LET repeated == payments[o] = status /\ IsTerminalPayment(status)
     IN Finish(taken, IF repeated THEN {} ELSE {Message(EventOf(status), o)}, {})

ProcessWebhook(o) ==
  /\ \/ /\ Message("webhook", o) \in network
        /\ ApplyProviderStatus(o, Latest(o), {Message("webhook", o)})
     \/ LET earlier == Message("webhook of a rejected attempt", o) IN
        /\ earlier \in network
        /\ ApplyProviderStatus(o, "REJECTED", {earlier})
  /\ UNCHANGED <<session, orders, reads, reservations, provider, byHand>>

(* A notification that never comes, or is answered without being fetched.  *)
MissWebhook(o) ==
  \E kind \in {"webhook", "webhook of a rejected attempt"} :
    /\ Message(kind, o) \in network
    /\ network' = network \ {Message(kind, o)}
    /\ UNCHANGED <<session, orders, reads, reservations, payments, provider,
                   lost, faults, past, byHand>>

(* POST /payments/sync-status asks the provider and applies what it says;  *)
(* before any attempt to pay there is nothing to find, which is an error.  *)
SyncPaymentStatus(o) ==
  /\ provider[o] # "none"
  /\ ApplyProviderStatus(o, Latest(o), {})
  /\ UNCHANGED <<session, orders, reads, reservations, provider, byHand>>

-----------------------------------------------------------------------------

(* What a service, the broker or a timer does: it comes, sooner or later.  *)
Service(o) ==
  \/ OpenSession(o) \/ StockReply(o) \/ PaymentReply(o) \/ PaymentTimeout(o)
  \/ \E kind \in Events : ReceiveEvent(o, kind)
  \/ \E t \in reads : /\ t.order = o
                      /\ \/ HandleEvent(t) \/ MarkOrderPaymentPending(t)
                         \/ FailCheckoutSession(t)
  \/ ReserveStock(o) \/ ConfirmStockReservation(o)
  \/ ReleaseStockReservation(o) \/ GiveUp(o)
  \/ ProcessPayment(o, "request_payment")
  \/ ProcessPayment(o, "request_payment rpc") \/ ProcessWebhook(o)

Surroundings(o) ==
  \/ CheckOut(o) \/ StockTimeout(o) \/ SessionRestarts(o) \/ MissWebhook(o)
  \/ \E t \in reads : t.order = o /\ RollBack(t)
  \/ DropReply(o, "stock reply", "stock")
  \/ DropReply(o, "payment reply", "payment")
  \/ \E status \in {"PENDING", "REJECTED", "APPROVED"} : PayerActs(o, status)
  \/ \E status \in AdminStatuses : UpdateOrderStatus(o, status)

SagaNext == \E o \in Orders :
              Service(o) \/ Surroundings(o) \/ SyncPaymentStatus(o)

SagaSpec == SagaInit /\ [][SagaNext]_sagaVars

-----------------------------------------------------------------------------
(* Properties                                                              *)

(* A message is on its way, or a handler is at work on it.                 *)
Underway(kind, o) == \/ Message(kind, o) \in network
                     \/ \E t \in reads : t.kind = kind /\ t.order = o

(* It is, or it was lost.                                                  *)
Owed(kind, o) == Underway(kind, o) \/ Message(kind, o) \in lost

(* Whatever crashes, overlaps and comes late, what the status of an order  *)
(* asks of the other services is done, or the message that asks for it is  *)
(* on its way, being handled, or lost: a confirmed order has its stock     *)
(* confirmed, a cancelled one holds none, unless an administrator, who     *)
(* tells nobody, set that status; and the decided payment of an open order *)
(* is being told to it, unless the order was settled before and opened     *)
(* again, by hand or by a handler that overwrote a final status.  And      *)
(* these statuses have causes: an order is confirmed for a payment that    *)
(* was approved (a late notification may have set its row to an earlier,   *)
(* rejected attempt since), and cancelled because stock was refused, an    *)
(* attempt to pay was rejected or the session gave up.  That a cancelled   *)
(* order's payment is not approved after all does not follow: see          *)
(* ApprovedConfirms.                                                       *)
DebtsAreCarried ==
  \A o \in Orders :
    /\ orders[o] = "CONFIRMED" /\ ~byHand[o] =>
         /\ reservations[o] = "CONFIRMED" \/ Owed("confirm_stock", o)
         /\ payments[o] = "APPROVED" \/ "rejected" \in past[o]
    /\ orders[o] = "CANCELLED" /\ ~byHand[o] =>
         /\ reservations[o] \notin {"PENDING", "CONFIRMED"}
              \/ Owed("release_stock", o)
         /\ reservations[o] = "FAILED" \/ past[o] \cap {"rejected", "gave up"} # {}
    /\ ~IsTerminalOrder(orders[o])
       /\ past[o] \cap {"by hand", "overwritten"} = {} =>
         /\ payments[o] = "APPROVED" => Owed("payment_succeeded", o)
         /\ payments[o] = "REJECTED" => Owed("payment_failed", o)

(* docs/payment-flow.md:89: an approved payment confirms its order, here   *)
(* one whose stock was reserved and whose handlers did not overlap.        *)
ApprovedConfirms ==
  \A o \in Orders :
    /\ payments[o] = "APPROVED" /\ reservations[o] # "FAILED"
    /\ "overwritten" \notin past[o]
    => orders[o] = "CONFIRMED" \/ Owed("payment_succeeded", o)
=============================================================================
