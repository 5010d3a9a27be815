------------------------------- MODULE Order -------------------------------
(***************************************************************************)
(* order-service: the saga that takes an order from a cart to its outcome. *)
(* A job is one run of a handler of OrderService.  Its transaction reads   *)
(* the order without locking it, decides on what it read, and its first    *)
(* UPDATE then locks the row until the COMMIT: two steps, Read and Write,  *)
(* with other transactions between them.  What it has to say is published  *)
(* after the COMMIT, message by message, and is lost if the handler stops  *)
(* there: a redelivered event finds the order changed and says nothing.    *)
(*                                                                         *)
(* inventory-service and payment-service are the environment: an answer to *)
(* reserve_stock that never changes (Inventory!EventsMatchRows), and, once *)
(* a payment was requested, payment events of every kind, any number of    *)
(* times and in any order.  order_status_changed has no consumer and is    *)
(* left out, as are the read-only getOrder and listOrders.                 *)
(***************************************************************************)
EXTENDS Integers, Sequences, FiniteSets

CONSTANTS Orders,        \* checkouts: an idempotency key and its order
          Carts,         \* what hashCheckoutRequest tells apart
          NoCart,        \* "there is no order for the key"
          Workers,       \* handlers that may run at once
          AdminStatuses, \* the statuses an admin sets
          MaxJobs        \* bound: handlers started in a behaviour

VARIABLES orders,   \* the row of each order, with its idempotency_keys row
          history,  \* order_status_history: the statuses, in order of writing
          answer,   \* what the inventory answered to reserve_stock
          sent,     \* how often each message was published
          jobs,     \* what each worker is doing
          unsaid,   \* orders of which a handler stopped before it said it all
          started   \* handlers started so far

vars == <<orders, history, answer, sent, jobs, unsaid, started>>

Statuses == {"NONE", "PENDING", "STOCK_RESERVED", "PAYMENT_PENDING", "PAID",
             "CONFIRMED", "FAILED", "CANCELLED", "PREPARING", "SHIPPED",
             "DELIVERED", "REFUNDED"}

(* An administrator's request names one of the statuses of an order.       *)
ASSUME OrderAssumption == /\ AdminStatuses \subseteq Statuses \ {"NONE"}
                          /\ IsFiniteSet(Workers)
                          /\ MaxJobs \in Nat

Commands      == {"create_order", "create_checkout_session"}
StockEvents   == {"stock_reserved", "stock_reservation_failed"}
PaymentEvents == {"payment_succeeded", "payment_failed", "payment_pending",
                  "preference_created"}
Messages      == {"order_created", "reserve_stock", "request_payment",
                  "order_confirmed", "confirm_stock", "clear_cart",
                  "order_cancelled", "release_stock"}

NoOrder == [status |-> "NONE", cart |-> NoCart, payment |-> "NONE"]
Idle    == [pc |-> "idle"]

Init == /\ orders  = [o \in Orders |-> NoOrder]
        /\ history = [o \in Orders |-> <<>>]
        /\ answer  = [o \in Orders |-> "none"]
        /\ sent    = [o \in Orders |-> [m \in Messages |-> 0]]
        /\ jobs    = [w \in Workers |-> Idle]
        /\ unsaid  = {}
        /\ started = 0

-----------------------------------------------------------------------------
(* Conditions of the handlers                                              *)

(* mutant: a cancelled order is not terminal.                              *)
IsTerminalUnlessCancelled(status) == status \in {"CONFIRMED", "REFUNDED"}

IsTerminalOrder(status) == status \in {"CANCELLED", "CONFIRMED", "REFUNDED"}

CanApplyPaymentResult(status) ==
  status \in {"PAYMENT_PENDING", "STOCK_RESERVED", "PAID"}

(* What the transaction of a handler asks of the status it has read.       *)
Accepts(kind, seen) ==
  CASE kind \in StockEvents -> seen = "PENDING"
    [] kind \in {"payment_succeeded", "payment_failed"} ->
         ~IsTerminalOrder(seen) /\ CanApplyPaymentResult(seen)
    [] kind \in {"payment_pending", "preference_created", "fail_checkout"} ->
         ~IsTerminalOrder(seen)
    [] OTHER -> TRUE

(* A transition that transitionStatus skips if it is already made.         *)
Unless(status, steps, skipped) == IF status = skipped THEN Tail(steps) ELSE steps

(* mutant: an event of a pending payment writes the payment's status only. *)
StatusKept(now) == <<>>

Reopening(now) == Unless(now, <<"PAYMENT_PENDING">>, "PAYMENT_PENDING")

(* The statuses a transaction writes: `seen` was read before the row was   *)
(* locked, `now` is the row that the first UPDATE returns.                 *)
Transitions(job, now) ==
  CASE job.kind \in {"stock_reserved", "mark_payment_pending"} ->
         IF job.seen = "PENDING" THEN <<"STOCK_RESERVED", "PAYMENT_PENDING">>
                                 ELSE <<>>
    [] job.kind = "stock_reservation_failed" -> <<"FAILED", "CANCELLED">>
    [] job.kind = "payment_succeeded" ->
         Unless(now, <<"PAID", "CONFIRMED">>, "PAID")
    [] job.kind = "payment_failed" ->
         Unless(now, <<"FAILED", "CANCELLED">>, "FAILED")
    [] job.kind = "fail_checkout" ->
         Unless(job.seen, <<"FAILED", "CANCELLED">>, "FAILED")
    [] job.kind \in {"payment_pending", "preference_created"} ->
         Reopening(now)
    [] job.kind = "update_status" ->
         Unless(job.seen, <<job.target>>, job.target)

(* mutant: a failed payment is given a status that only orders have.       *)
PaymentFailed(kind, old) ==
  CASE kind = "payment_succeeded" -> "APPROVED"
    [] kind = "payment_failed"    -> "FAILED"
    [] kind \in {"payment_pending", "preference_created"} -> "PENDING"
    [] OTHER -> old

(* CANCELLED and EXPIRED payments count as REJECTED, and the provider's    *)
(* words for a payment it has not decided as PENDING.                      *)
PaymentStatus(kind, old) ==
  CASE kind = "payment_succeeded" -> "APPROVED"
    [] kind = "payment_failed"    -> "REJECTED"
    [] kind \in {"payment_pending", "preference_created"} -> "PENDING"
    [] OTHER -> old

(* What is published after the COMMIT.                                     *)
Announcements(kind) ==
  CASE kind = "stock_reserved" -> <<"request_payment">>
    [] kind = "stock_reservation_failed" -> <<"order_cancelled">>
    [] kind = "payment_succeeded" ->
         <<"order_confirmed", "confirm_stock", "clear_cart">>
    [] kind \in {"payment_failed", "fail_checkout"} ->
         <<"order_cancelled", "release_stock">>
    [] OTHER -> <<>>

-----------------------------------------------------------------------------
(* Steps of a job                                                          *)

Goto(w, job) == jobs' = [jobs EXCEPT ![w] = job]

(* The job publishes the messages, then goes on at pc `then`.              *)
Say(job, messages, then) ==
  [job EXCEPT !.pc = "publish", !.seen = "NONE", !.out = messages, !.then = then]

(* A command or an event is delivered, for the first time or again.        *)
Delivered(o, kind) ==
  CASE kind \in Commands -> TRUE
    [] kind = "stock_reserved"           -> answer[o] = "PENDING"
    [] kind = "stock_reservation_failed" -> answer[o] = "FAILED"
    [] kind \in PaymentEvents -> sent[o]["request_payment"] > 0
    [] kind = "update_status" -> orders[o].status # "NONE"

Start(w, o, kind, cart, target) ==
  /\ jobs[w].pc = "idle"
  /\ started < MaxJobs
  /\ Delivered(o, kind)
  /\ started' = started + 1
  /\ Goto(w, [pc |-> IF kind \in Commands THEN "find key" ELSE "read",
              kind |-> kind, order |-> o, cart |-> cart, target |-> target,
              seen |-> "NONE", out |-> <<>>, then |-> "idle"])
  /\ UNCHANGED <<orders, history, answer, sent, unsaid>>

(* An administrator chooses a status, whatever the order's is.             *)
UpdateOrderStatus(w, o, target) == Start(w, o, "update_status", NoCart, target)

(* createOrder, up to its INSERT: the key is known and was used for this   *)
(* request or for another one, or it is new.                               *)
FindKey(w) ==
  LET o == jobs[w].order IN
  /\ jobs[w].pc = "find key"
  /\ \/ /\ orders[o].status = "NONE"
        /\ Goto(w, [jobs[w] EXCEPT !.pc = "insert"])
     \/ /\ orders[o].status # "NONE"
        /\ orders[o].cart = jobs[w].cart
        /\ jobs[w].kind = "create_checkout_session"
        /\ Goto(w, [jobs[w] EXCEPT !.pc = "open session"])
     \/ /\ orders[o].status # "NONE"
        /\ orders[o].cart # jobs[w].cart \/ jobs[w].kind = "create_order"
        /\ Goto(w, Idle)
  /\ UNCHANGED <<orders, history, answer, sent, unsaid, started>>

Inserted(w) ==
  LET o == jobs[w].order IN
  /\ orders' = [orders EXCEPT ![o] = [status |-> "PENDING",
                  cart |-> jobs[w].cart, payment |-> "NONE"]]
  /\ history' = [history EXCEPT ![o] = Append(@, "PENDING")]
  /\ Goto(w, IF jobs[w].kind = "create_order"
             THEN Say(jobs[w], <<"order_created", "reserve_stock">>, "idle")
             ELSE Say(jobs[w], <<"order_created">>, "open session"))
  /\ UNCHANGED <<answer, sent, unsaid, started>>

(* mutant: neither orders nor idempotency_keys has a unique key.           *)
InsertAnyway(w) == jobs[w].pc = "insert" /\ Inserted(w)

(* The unique keys refuse the second of two jobs that found nothing.       *)
InsertOrder(w) ==
  /\ jobs[w].pc = "insert"
  /\ IF orders[jobs[w].order].status = "NONE"
     THEN Inserted(w)
     ELSE /\ Goto(w, Idle)
          /\ UNCHANGED <<orders, history, answer, sent, unsaid, started>>

(* createCheckoutSession, after createOrder: fetch the order and go on     *)
(* from where it stands.                                                   *)
OpenSession(w) ==
  LET status == orders[jobs[w].order].status IN
  /\ jobs[w].pc = "open session"
  /\ Goto(w, CASE status = "PENDING" ->
                    Say(jobs[w], <<"reserve_stock">>, "await stock")
               [] status \in {"PAYMENT_PENDING", "STOCK_RESERVED"} ->
                    Say(jobs[w], <<"request_payment">>, "await payment")
               [] OTHER -> Idle)
  /\ UNCHANGED <<orders, history, answer, sent, unsaid, started>>

(* The reply to reserve_stock, whatever it says, leads to                  *)
(* markOrderPaymentPending.                                                *)
StockReply(w) ==
  /\ jobs[w].pc = "await stock"
  /\ answer[jobs[w].order] # "none"
  /\ Goto(w, [jobs[w] EXCEPT !.pc = "read", !.kind = "mark_payment_pending"])
  /\ UNCHANGED <<orders, history, answer, sent, unsaid, started>>

(* The reply to request_payment ends the session.                          *)
PaymentReply(w) ==
  /\ jobs[w].pc = "await payment"
  /\ Goto(w, Idle)
  /\ UNCHANGED <<orders, history, answer, sent, unsaid, started>>

(* An error reply, or none within 15 s: failCheckoutSession.               *)
PaymentError(w) ==
  /\ jobs[w].pc = "await payment"
  /\ Goto(w, [jobs[w] EXCEPT !.pc = "read", !.kind = "fail_checkout"])
  /\ UNCHANGED <<orders, history, answer, sent, unsaid, started>>

(* mutant: a handler that finds its work done announces it again.          *)
ReadAndAnnounce(w) ==
  LET job    == jobs[w]
      status == orders[job.order].status
  IN /\ job.pc = "read"
     /\ Goto(w, IF Accepts(job.kind, status)
                THEN [job EXCEPT !.pc = "write", !.seen = status]
                ELSE IF Announcements(job.kind) = <<>> THEN Idle
                ELSE Say(job, Announcements(job.kind), "idle"))
     /\ UNCHANGED <<orders, history, answer, sent, unsaid, started>>

(* The transaction's findUnique, and its early return or ConflictException *)
Read(w) ==
  LET status == orders[jobs[w].order].status IN
  /\ jobs[w].pc = "read"
  /\ Goto(w, IF Accepts(jobs[w].kind, status)
             THEN [jobs[w] EXCEPT !.pc = "write", !.seen = status]
             ELSE Idle)
  /\ UNCHANGED <<orders, history, answer, sent, unsaid, started>>

Committed(w, status) ==
  LET job == jobs[w] IN
  IF job.kind = "mark_payment_pending"
  THEN IF status \in {"PAYMENT_PENDING", "STOCK_RESERVED"}
       THEN Say(job, <<"request_payment">>, "await payment")
       ELSE Idle
  ELSE IF Announcements(job.kind) = <<>> THEN Idle
  ELSE Say(job, Announcements(job.kind), "idle")

(* From the transaction's first UPDATE to its COMMIT.                      *)
Write(w) ==
  LET o      == jobs[w].order
      steps  == Transitions(jobs[w], orders[o].status)
      status == IF steps = <<>> THEN orders[o].status ELSE steps[Len(steps)]
  IN /\ jobs[w].pc = "write"
     /\ orders' = [orders EXCEPT
          ![o].status  = status,
          ![o].payment = PaymentStatus(jobs[w].kind, @)]
     /\ history' = [history EXCEPT ![o] = @ \o steps]
     /\ Goto(w, Committed(w, status))
     /\ UNCHANGED <<answer, sent, unsaid, started>>

(* mutant: only the first of a handler's messages is published.            *)
PublishOne(w) ==
  LET job == jobs[w] IN
  /\ job.pc = "publish"
  /\ sent' = [sent EXCEPT ![job.order][Head(job.out)] = @ + 1]
  /\ Goto(w, IF job.then = "idle" THEN Idle
             ELSE [job EXCEPT !.out = <<>>, !.pc = job.then])
  /\ UNCHANGED <<orders, history, answer, unsaid, started>>

Publish(w) ==
  LET job == jobs[w] IN
  /\ job.pc = "publish"
  /\ sent' = [sent EXCEPT ![job.order][Head(job.out)] = @ + 1]
  /\ Goto(w, IF Len(job.out) > 1 THEN [job EXCEPT !.out = Tail(@)]
             ELSE IF job.then = "idle" THEN Idle
             ELSE [job EXCEPT !.out = <<>>, !.pc = job.then])
  /\ UNCHANGED <<orders, history, answer, unsaid, started>>

(* The handler ends here: the process stops, a statement or a publish      *)
(* fails, or no reply to reserve_stock comes within 10 s.                  *)
Fail(w) ==
  /\ jobs[w].pc # "idle"
  /\ Goto(w, Idle)
  /\ unsaid' = IF jobs[w].pc = "publish" THEN unsaid \cup {jobs[w].order} ELSE unsaid
  /\ UNCHANGED <<orders, history, answer, sent, started>>

(* inventory-service handles reserve_stock.                                *)
InventoryAnswers(o, result) ==
  /\ sent[o]["reserve_stock"] > 0
  /\ answer[o] = "none"
  /\ answer' = [answer EXCEPT ![o] = result]
  /\ UNCHANGED <<orders, history, sent, jobs, unsaid, started>>

Proceed(w) ==
  \/ FindKey(w) \/ InsertOrder(w) \/ OpenSession(w) \/ StockReply(w)
  \/ PaymentReply(w) \/ PaymentError(w) \/ Read(w) \/ Write(w) \/ Publish(w)

Next ==
  \/ \E w \in Workers :
       \/ \E o \in Orders :
            \/ \E kind \in Commands, cart \in Carts : Start(w, o, kind, cart, "NONE")
            \/ \E kind \in StockEvents \cup PaymentEvents :
                 Start(w, o, kind, NoCart, "NONE")
            \/ \E target \in AdminStatuses : UpdateOrderStatus(w, o, target)
       \/ Proceed(w) \/ Fail(w)
  \/ \E o \in Orders, result \in {"PENDING", "FAILED"} : InventoryAnswers(o, result)

(* A running handler goes on: the event loop, the database and the broker  *)
(* pass no one over.  Nothing obliges a message to arrive.                 *)
Fairness == \A w \in Workers : WF_vars(Proceed(w))

Spec == Init /\ [][Next]_vars /\ Fairness

(* The behaviours in which no two transactions on one order overlap, as if *)
(* the handlers of an order took turns.  Nothing in the code sees to it.   *)
InTransaction(w, o) == jobs[w].pc = "write" /\ jobs[w].order = o

NoOverlap == \A o \in Orders : \A w, x \in Workers :
               InTransaction(w, o) /\ InTransaction(x, o) => w = x

SerialSpec == Init /\ [][Next /\ NoOverlap']_vars

-----------------------------------------------------------------------------
(* Properties                                                              *)

Job == [pc : {"find key", "insert", "open session", "await stock",
              "await payment", "read", "write", "publish"},
        kind : Commands \cup StockEvents \cup PaymentEvents \cup
               {"update_status", "mark_payment_pending", "fail_checkout"},
        order : Orders, cart : Carts \cup {NoCart},
        target : AdminStatuses \cup {"NONE"}, seen : Statuses,
        out : Seq(Messages), then : {"idle", "open session", "await stock",
                                     "await payment"}]

(* Rows, histories, counters and jobs keep their types: no handler comes   *)
(* to a statement that its record does not provide for.                    *)
TypeOK ==
  /\ orders  \in [Orders -> [status : Statuses, cart : Carts \cup {NoCart},
                            payment : {"NONE", "PENDING", "APPROVED", "REJECTED"}]]
  /\ history \in [Orders -> Seq(Statuses \ {"NONE"})]
  /\ answer  \in [Orders -> {"none", "PENDING", "FAILED"}]
  /\ sent    \in [Orders -> [Messages -> Nat]]
  /\ jobs    \in [Workers -> Job \cup {Idle}]
  /\ unsaid  \subseteq Orders
  /\ started \in 0..MaxJobs

TimesIn(status, o) == Cardinality({i \in DOMAIN history[o] : history[o][i] = status})

(* A command that settles stock goes out at most once for each committed   *)
(* decision, and never without one: a redelivered payment event that finds *)
(* its work done, or a handler that fails and comes again, sends nothing.  *)
AnnouncedAsDecided ==
  \A o \in Orders :
    /\ sent[o]["confirm_stock"] <= TimesIn("CONFIRMED", o)
    /\ sent[o]["clear_cart"]    <= TimesIn("CONFIRMED", o)
    /\ sent[o]["release_stock"] <= TimesIn("CANCELLED", o)

(* However checkouts with one idempotency key interleave, retry and fail,  *)
(* the key has one order, announced at most once.                          *)
CreatedOnce ==
  \A o \in Orders : /\ sent[o]["order_created"] <= 1
                    /\ TimesIn("PENDING", o) <= 1

(* A confirmed order is one whose payment the provider approved: no event  *)
(* that comes late or overlaps changes one column without the other.       *)
ConfirmedMeansApproved ==
  \A o \in Orders : orders[o].status = "CONFIRMED" => orders[o].payment = "APPROVED"

(* A handler that cancels an order with stock reserved and says so comes   *)
(* to send release_stock, and a confirmed order has confirm_stock and      *)
(* clear_cart sent, unless a handler stopped before its last message: then *)
(* no event that is delivered again makes up for it.                       *)
OutcomeIsTold ==
  \A o \in Orders :
    /\ sent[o]["order_cancelled"] > 0 /\ answer[o] = "PENDING"
         ~> sent[o]["release_stock"] > 0 \/ o \in unsaid
    /\ orders[o].status = "CONFIRMED"
         ~> \/ sent[o]["confirm_stock"] > 0 /\ sent[o]["clear_cart"] > 0
            \/ o \in unsaid

(* The order's outcome as OrderLifecycle sees it.                          *)
Outcome(status) == CASE status = "NONE"      -> "none"
                     [] status = "CONFIRMED" -> "confirmed"
                     [] status = "CANCELLED" -> "cancelled"
                     [] OTHER                -> "open"

Lifecycle == INSTANCE OrderLifecycle WITH
  outcome <- [o \in Orders |-> Outcome(orders[o].status)],
  told    <- [o \in Orders |-> [m \in {"confirm_stock", "clear_cart", "release_stock"}
                               |-> sent[o][m]]]

(* An order has one outcome, which is final and told at most once.         *)
ImplementsLifecycle == Lifecycle!Spec

Forward == {<<"PENDING", "STOCK_RESERVED">>, <<"PENDING", "FAILED">>,
            <<"STOCK_RESERVED", "PAYMENT_PENDING">>, <<"PAYMENT_PENDING", "PAID">>,
            <<"PAYMENT_PENDING", "FAILED">>, <<"PAID", "CONFIRMED">>,
            <<"FAILED", "CANCELLED">>}

(* The status history of an order reads as the saga was meant to run: no   *)
(* step is skipped, repeated or taken back.                                *)
HistoryMovesForward ==
  \A o \in Orders : \A i \in 1..(Len(history[o]) - 1) :
    <<history[o][i], history[o][i + 1]>> \in Forward

(* An order's stock is confirmed or released, once, and its cart cleared   *)
(* once, however often the payment events are repeated.                    *)
SettledOnce ==
  \A o \in Orders : /\ sent[o]["confirm_stock"] + sent[o]["release_stock"] <= 1
                    /\ sent[o]["clear_cart"] <= 1
=============================================================================
