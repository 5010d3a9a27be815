--------------------------- MODULE TrackingProofs ---------------------------
(***************************************************************************)
(* Proofs about the saga and the pages that follow it, for every set of    *)
(* orders, every choice of providers and of an administrator's statuses,   *)
(* and every number of faults, failed requests and overlapping handlers.   *)
(***************************************************************************)
EXTENDS Tracking, TLAPS

Causes == {"by hand", "overwritten", "rejected", "gave up"}

PaymentStatuses == {"none", "PENDING", "APPROVED", "REJECTED"}

(* The type of what the saga keeps of each order.                          *)
Typed ==
  /\ session \in [Orders -> {"none", "begin", "stock", "marking", "payment",
                             "failing", "ready", "over"}]
  /\ orders \in [Orders -> OrderStatuses \cup {"none"}]
  /\ reservations \in [Orders -> {"none", "PENDING", "CONFIRMED", "RELEASED",
                                  "FAILED"}]
  /\ payments \in [Orders -> PaymentStatuses]
  /\ provider \in [Orders -> PaymentStatuses \cup {"mock"}]
  /\ past \in [Orders -> SUBSET Causes] /\ byHand \in [Orders -> BOOLEAN]

(* A status that no handler writes is an administrator's.                  *)
Own(o) ==
  \/ orders[o] \in {"none", "PENDING", "PAYMENT_PENDING", "CONFIRMED", "CANCELLED"}
  \/ "by hand" \in past[o]

(* What is told to order-service has happened.                             *)
Told(o) ==
  /\ Underway("payment_succeeded", o) =>
       payments[o] = "APPROVED" \/ "rejected" \in past[o]
  /\ Underway("payment_failed", o) => "rejected" \in past[o]
  /\ Underway("stock_reservation_failed", o) => reservations[o] = "FAILED"
  /\ payments[o] = "APPROVED" => provider[o] \in {"APPROVED", "mock"}

(* The conjuncts of DebtsAreCarried for one order; a cancelled order that  *)
(* has no reservation yet owes the release of the one it may come to have. *)
Confirmed(o) ==
  orders[o] = "CONFIRMED" /\ ~byHand[o] =>
    /\ reservations[o] = "CONFIRMED" \/ Owed("confirm_stock", o)
    /\ payments[o] = "APPROVED" \/ "rejected" \in past[o]

Cancelled(o) ==
  orders[o] = "CANCELLED" /\ ~byHand[o] =>
    /\ reservations[o] \in {"RELEASED", "FAILED"} \/ Owed("release_stock", o)
    /\ reservations[o] = "FAILED" \/ past[o] \cap {"rejected", "gave up"} # {}

Open(o) ==
  ~IsTerminalOrder(orders[o]) /\ past[o] \cap {"by hand", "overwritten"} = {} =>
    /\ payments[o] = "APPROVED" => Owed("payment_succeeded", o)
    /\ payments[o] = "REJECTED" => Owed("payment_failed", o)

SagaInv(o) == Own(o) /\ Told(o) /\ Confirmed(o) /\ Cancelled(o) /\ Open(o)

IInv == Typed /\ \A o \in Orders : SagaInv(o)

-----------------------------------------------------------------------------
(* Steps and messages                                                      *)

(* A step of one order leaves the others, their messages and their         *)
(* transactions alone.                                                     *)
Others(o) ==
  \A p \in Orders \ {o} :
    /\ orders'[p] = orders[p] /\ reservations'[p] = reservations[p]
    /\ payments'[p] = payments[p] /\ provider'[p] = provider[p]
    /\ past'[p] = past[p] /\ byHand'[p] = byHand[p]

Apart(o) ==
  /\ \A m : m.order # o => /\ m \in network' <=> m \in network
                           /\ m \in lost' <=> m \in lost
  /\ \A t : t.order # o => (t \in reads' <=> t \in reads)

(* A message is made of its kind and its order.                            *)
LEMMA MessageOrder ==
  \A k, o : Message(k, o).order = o /\ Message(k, o).kind = k
BY DEF Message

LEMMA MessagesDiffer ==
  ASSUME NEW k, NEW l, NEW o, k # l
  PROVE  Message(k, o) # Message(l, o)
BY DEF Message

(* What a step of one order leaves alone, it keeps.                        *)
LEMMA OthersKeep ==
  ASSUME NEW o, Others(o), Apart(o), NEW p \in Orders \ {o}, SagaInv(p)
  PROVE  SagaInv(p)'
<1>1. ASSUME NEW k
      PROVE  /\ Underway(k, p)' <=> Underway(k, p)
             /\ Owed(k, p)' <=> Owed(k, p)
  <2>1. Message(k, p).order # o
    BY MessageOrder
  <2>2. /\ Message(k, p) \in network' <=> Message(k, p) \in network
        /\ Message(k, p) \in lost' <=> Message(k, p) \in lost
    BY <2>1 DEF Apart
  <2>3. \A t : t.order = p => (t \in reads' <=> t \in reads)
    BY DEF Apart
  <2>4. Underway(k, p)' <=> Underway(k, p)
    BY <2>2, <2>3 DEF Underway
  <2>5. QED
    BY <2>2, <2>4 DEF Owed
<1>2. /\ orders'[p] = orders[p] /\ reservations'[p] = reservations[p]
      /\ payments'[p] = payments[p] /\ provider'[p] = provider[p]
      /\ past'[p] = past[p] /\ byHand'[p] = byHand[p]
  BY DEF Others
<1>3. Own(p)' /\ Told(p)'
  BY <1>1, <1>2 DEF SagaInv, Own, Told
<1>4. Confirmed(p)' /\ Cancelled(p)' /\ Open(p)'
  BY <1>1, <1>2 DEF SagaInv, Confirmed, Cancelled, Open
<1>5. QED
  BY <1>3, <1>4 DEF SagaInv

(* Messages and transactions that are only passed on: what was owed stays  *)
(* owed, though an order that is settled no longer needs to be told, and   *)
(* nothing new is told.                                                    *)
Passes(o) ==
  /\ \A k \in {"confirm_stock", "release_stock"} : Owed(k, o) => Owed(k, o)'
  /\ ~IsTerminalOrder(orders[o]) =>
       \A k \in {"payment_succeeded", "payment_failed"} : Owed(k, o) => Owed(k, o)'
  /\ \A k \in {"payment_succeeded", "payment_failed", "stock_reservation_failed"} :
       Underway(k, o)' => Underway(k, o)

(* A step that passes messages on and changes no status keeps the          *)
(* invariant.                                                              *)
LEMMA PassingKeeps ==
  ASSUME NEW o, SagaInv(o), Passes(o),
         orders'[o] = orders[o], byHand'[o] = byHand[o],
         reservations'[o] = reservations[o], payments'[o] = payments[o],
         payments[o] = "APPROVED" /\ provider[o] \in {"APPROVED", "mock"}
           => provider'[o] \in {"APPROVED", "mock"},
         past'[o] = past[o]
  PROVE  SagaInv(o)'
<1>1. Own(o)' /\ Told(o)'
  BY DEF SagaInv, Own, Told, Passes
<1>2. Confirmed(o)' /\ Cancelled(o)'
  BY DEF SagaInv, Confirmed, Cancelled, Passes
<1>3. Open(o)'
  BY DEF SagaInv, Open, Passes
<1>4. QED
  BY <1>1, <1>2, <1>3 DEF SagaInv

(* What a handler's publishes leave: `rest` and what it says is there, an  *)
(* event is there or lost, and nothing else has come.                      *)
Leaves(rest, more, events) ==
  /\ rest \subseteq network' /\ network' \subseteq rest \cup more
  /\ lost \subseteq lost' /\ lost' \subseteq lost \cup events
  /\ events \subseteq network' \cup lost'

LEMMA PublishLeaves ==
  ASSUME NEW rest, NEW again, NEW events, NEW replies,
         Publish(rest, again, events, replies)
  PROVE  Leaves(rest, again \cup events \cup replies, events)
BY DEF Publish, Fault, Leaves

LEMMA FinishLeaves ==
  ASSUME NEW taken, NEW events, NEW replies, Finish(taken, events, replies)
  PROVE  Leaves(network \ taken, taken \cup events \cup replies, events)
BY PublishLeaves DEF Finish

(* A step whose messages and transactions are one order's.                 *)
LEMMA LeavesApart ==
  ASSUME NEW o, NEW rest, NEW more, NEW events, Leaves(rest, more, events),
         \A m \in more \cup events : m.order = o,
         \A m : m.order # o => (m \in rest <=> m \in network),
         \A t : t.order # o => (t \in reads' <=> t \in reads)
  PROVE  Apart(o)
BY DEF Leaves, Apart

(* What each step of an order is to be shown to do.                        *)
Good(o) == Typed' /\ Others(o) /\ Apart(o) /\ SagaInv(o)'

-----------------------------------------------------------------------------
(* Steps that pass messages on                                             *)

(* The session's steps that wait, end or begin something.                  *)
LEMMA WaitingSteps ==
  ASSUME Typed, NEW o \in Orders, SagaInv(o),
         \/ CheckOut(o) \/ StockTimeout(o) \/ PaymentReply(o) \/ PaymentTimeout(o)
         \/ StockReply(o) \/ SessionRestarts(o)
         \/ DropReply(o, "stock reply", "stock")
         \/ DropReply(o, "payment reply", "payment")
  PROVE  Good(o)
<1>1. UNCHANGED <<orders, reservations, payments, provider, lost, past, byHand>>
  BY DEF CheckOut, StockTimeout, PaymentReply, PaymentTimeout, StockReply,
     SessionRestarts, DropReply
<1>2. session' \in [Orders -> {"none", "begin", "stock", "marking", "payment",
                              "failing", "ready", "over"}]
  <2>1. CASE CheckOut(o) \/ StockTimeout(o) \/ SessionRestarts(o)
             \/ DropReply(o, "stock reply", "stock")
             \/ DropReply(o, "payment reply", "payment")
    BY <2>1, ZenonT(60) DEF Typed, CheckOut, StockTimeout, SessionRestarts, DropReply
  <2>2. CASE PaymentReply(o)
    BY <2>2 DEF Typed, PaymentReply
  <2>3. CASE PaymentTimeout(o)
    BY <2>3, ZenonT(60) DEF Typed, PaymentTimeout
  <2>4. CASE StockReply(o)
    BY <2>4, ZenonT(60) DEF Typed, StockReply, RequestPayment
  <2>5. QED
    BY <2>1, <2>2, <2>3, <2>4
<1>3. /\ \A m : m \in network' /\ m \notin network =>
              m = Message("request_payment rpc", o)
      /\ \A m : m \in network /\ m \notin network' =>
              m \in {Message("stock reply", o), Message("payment reply", o)}
  BY DEF CheckOut, StockTimeout, PaymentReply, PaymentTimeout, StockReply,
     RequestPayment, SessionRestarts, DropReply
<1>4. \A t : ~(t \in reads' <=> t \in reads) =>
        t.order = o /\ t.kind \in {"mark_payment_pending", "fail_checkout"}
  <2>1. CASE \/ CheckOut(o) \/ StockTimeout(o) \/ PaymentReply(o)
             \/ DropReply(o, "stock reply", "stock")
             \/ DropReply(o, "payment reply", "payment")
    BY <2>1 DEF CheckOut, StockTimeout, PaymentReply, DropReply
  <2>2. CASE PaymentTimeout(o) \/ StockReply(o)
    <3>1. PICK kind \in {"mark_payment_pending", "fail_checkout"} :
            reads' = reads \/ Begin(kind, o)
      BY <2>2 DEF PaymentTimeout, StockReply
    <3>2. CASE Begin(kind, o)
      <4>1. reads' = reads \cup {[kind |-> kind, order |-> o, seen |-> orders[o]]}
        BY <3>2 DEF Begin
      <4>2. /\ [kind |-> kind, order |-> o, seen |-> orders[o]].kind = kind
            /\ [kind |-> kind, order |-> o, seen |-> orders[o]].order = o
        OBVIOUS
      <4>3. QED
        BY <3>1, <4>1, <4>2
    <3>3. QED
      BY <3>1, <3>2
  <2>3. CASE SessionRestarts(o)
    BY <2>3 DEF SessionRestarts
  <2>4. QED
    BY <2>1, <2>2, <2>3
<1>5. Typed' /\ Others(o)
  BY <1>1, <1>2 DEF Typed, Others
<1>6. Apart(o)
  <2>1. \A l : Message(l, o).order = o
    BY MessageOrder
  <2>2. QED
    BY <1>1, <1>3, <1>4, <2>1 DEF Apart
<1>7. ASSUME NEW k \in {"confirm_stock", "release_stock", "payment_succeeded",
                        "payment_failed", "stock_reservation_failed"}
      PROVE  /\ Underway(k, o)' <=> Underway(k, o)
             /\ Owed(k, o)' <=> Owed(k, o)
  <2>1. Message(k, o) \in network' <=> Message(k, o) \in network
    <3>1. \A l \in {"request_payment rpc", "stock reply", "payment reply"} :
            Message(k, o) # Message(l, o)
      BY MessagesDiffer
    <3>2. QED
      BY <1>3, <3>1
  <2>2. \A t : t.kind = k => (t \in reads' <=> t \in reads)
    BY <1>4
  <2>3. QED
    BY <1>1, <2>1, <2>2 DEF Underway, Owed
<1>8. Passes(o)
  BY <1>7 DEF Passes
<1>9. SagaInv(o)'
  BY <1>1, <1>8, PassingKeeps
<1>10. QED
  BY <1>5, <1>6, <1>9 DEF Good

(* A handler begins or fails, a message is dead-lettered or never comes,   *)
(* the payer acts.                                                         *)
LEMMA MessageSteps ==
  ASSUME Typed, NEW o \in Orders, SagaInv(o),
         \/ \E kind \in Events : ReceiveEvent(o, kind)
         \/ \E t \in reads : t.order = o /\ RollBack(t)
         \/ GiveUp(o) \/ MissWebhook(o)
         \/ \E status \in {"PENDING", "REJECTED", "APPROVED"} : PayerActs(o, status)
  PROVE  Good(o)
<1>1. ASSUME NEW kind \in Events, ReceiveEvent(o, kind)
      PROVE  Good(o)
  <2>1. /\ UNCHANGED <<session, orders, reservations, payments, provider, lost,
                       past, byHand>>
        /\ Message(kind, o) \in network /\ network' = network \ {Message(kind, o)}
        /\ ~Conflicts(kind, orders[o])
    BY <1>1 DEF ReceiveEvent
  <2>2. /\ reads \subseteq reads'
        /\ \A t : t \in reads' /\ t \notin reads => t.kind = kind /\ t.order = o
        /\ Accepts(kind, orders[o]) => \E t \in reads' : t.kind = kind /\ t.order = o
    <3>1. CASE Accepts(kind, orders[o])
      <4>1. reads' = reads \cup {[kind |-> kind, order |-> o, seen |-> orders[o]]}
        BY <1>1, <3>1 DEF ReceiveEvent, Begin
      <4>2. /\ [kind |-> kind, order |-> o, seen |-> orders[o]].kind = kind
            /\ [kind |-> kind, order |-> o, seen |-> orders[o]].order = o
        OBVIOUS
      <4>3. QED
        BY <4>1, <4>2
    <3>2. CASE ~Accepts(kind, orders[o])
      BY <1>1, <3>2 DEF ReceiveEvent
    <3>3. QED
      BY <3>1, <3>2
  <2>3. Typed' /\ Others(o)
    BY <2>1 DEF Typed, Others
  <2>4. Apart(o)
    BY <2>1, <2>2, MessageOrder DEF Apart
  <2>5. ASSUME NEW k PROVE Underway(k, o)' => Underway(k, o)
    BY <2>1, <2>2 DEF Underway
  <2>6. ASSUME NEW k, Owed(k, o), k # kind \/ Accepts(kind, orders[o])
        PROVE  Owed(k, o)'
    <3>1. CASE k = kind
      BY <2>2, <2>6, <3>1 DEF Owed, Underway
    <3>2. CASE k # kind
      <4>1. Message(k, o) # Message(kind, o)
        BY <3>2 DEF Message
      <4>2. QED
        BY <2>1, <2>2, <2>6, <4>1 DEF Owed, Underway
    <3>3. QED
      BY <3>1, <3>2
  <2>7. kind \in {"payment_succeeded", "payment_failed"} =>
          IsTerminalOrder(orders[o]) \/ Accepts(kind, orders[o])
    BY <2>1 DEF Conflicts, Accepts
  <2>8. Passes(o)
    BY <2>5, <2>6, <2>7 DEF Passes, Events
  <2>9. SagaInv(o)'
    BY <2>1, <2>8, PassingKeeps
  <2>10. QED
    BY <2>3, <2>4, <2>9 DEF Good
<1>2. ASSUME NEW t \in reads, t.order = o, RollBack(t)
      PROVE  Good(o)
  <2>1. UNCHANGED <<orders, reservations, payments, provider, lost, past, byHand>>
        /\ reads' = reads \ {t}
    BY <1>2 DEF RollBack
  <2>2. session' \in [Orders -> {"none", "begin", "stock", "marking", "payment",
                                "failing", "ready", "over"}]
    <3>1. session' = session \/ session' = [session EXCEPT ![o] = "over"]
      BY <1>2 DEF RollBack
    <3>2. QED
      BY <3>1 DEF Typed
  <2>3. /\ network \subseteq network'
        /\ network' \subseteq network \cup {Message(t.kind, o)}
        /\ t.kind \notin {"mark_payment_pending", "fail_checkout"}
             => Message(t.kind, o) \in network'
    BY <1>2 DEF RollBack
  <2>4. Typed' /\ Others(o)
    BY <2>1, <2>2 DEF Typed, Others
  <2>5. Apart(o)
    BY <1>2, <2>1, <2>3, MessageOrder DEF Apart
  <2>6. ASSUME NEW k PROVE Underway(k, o)' => Underway(k, o)
    BY <1>2, <2>1, <2>3, MessageOrder DEF Underway
  <2>7. ASSUME NEW k, Owed(k, o), k \notin {"mark_payment_pending", "fail_checkout"}
        PROVE  Owed(k, o)'
    BY <1>2, <2>1, <2>3, <2>7 DEF Owed, Underway
  <2>8. Passes(o)
    BY <2>6, <2>7 DEF Passes
  <2>9. SagaInv(o)'
    BY <2>1, <2>8, PassingKeeps
  <2>10. QED
    BY <2>4, <2>5, <2>9 DEF Good
<1>3. ASSUME GiveUp(o)
      PROVE  Good(o)
  <2>1. PICK kind : /\ network' = network \ {Message(kind, o)}
                    /\ lost' = lost \cup {Message(kind, o)}
                    /\ UNCHANGED <<session, orders, reads, reservations, payments,
                                   provider, faults, past, byHand>>
    BY <1>3 DEF GiveUp
  <2>2. Typed' /\ Others(o)
    BY <2>1 DEF Typed, Others
  <2>3. Apart(o)
    BY <2>1, MessageOrder DEF Apart
  <2>4. ASSUME NEW k
        PROVE  (Underway(k, o)' => Underway(k, o)) /\ (Owed(k, o) => Owed(k, o)')
    BY <2>1 DEF Underway, Owed
  <2>5. Passes(o)
    BY <2>4 DEF Passes
  <2>6. SagaInv(o)'
    BY <2>1, <2>5, PassingKeeps
  <2>7. QED
    BY <2>2, <2>3, <2>6 DEF Good
<1>4. ASSUME MissWebhook(o)
      PROVE  Good(o)
  <2>1. PICK kind \in {"webhook", "webhook of a rejected attempt"} :
          /\ network' = network \ {Message(kind, o)}
          /\ UNCHANGED <<session, orders, reads, reservations, payments,
                         provider, lost, faults, past, byHand>>
    BY <1>4 DEF MissWebhook
  <2>2. Typed' /\ Others(o)
    BY <2>1 DEF Typed, Others
  <2>3. Apart(o)
    BY <2>1, MessageOrder DEF Apart
  <2>4. ASSUME NEW k, k \notin {"webhook", "webhook of a rejected attempt"}
        PROVE  (Underway(k, o)' => Underway(k, o)) /\ (Owed(k, o) => Owed(k, o)')
    <3>1. /\ Message(k, o) # Message("webhook", o)
          /\ \A p : Message(k, o) # Message("webhook of a rejected attempt", p)
      BY <2>4 DEF Message
    <3>2. QED
      BY <2>1, <3>1 DEF Underway, Owed
  <2>5. Passes(o)
    BY <2>4 DEF Passes
  <2>6. SagaInv(o)'
    BY <2>1, <2>5, PassingKeeps
  <2>7. QED
    BY <2>2, <2>3, <2>6 DEF Good
<1>5. ASSUME NEW status \in {"PENDING", "REJECTED", "APPROVED"}, PayerActs(o, status)
      PROVE  Good(o)
  <2>1. /\ UNCHANGED <<session, orders, reads, reservations, payments, lost, past,
                       byHand>>
        /\ provider[o] \notin {"APPROVED", "mock"}
        /\ provider' = [provider EXCEPT ![o] = status]
        /\ network \subseteq network'
        /\ \A m : m \in network' /\ m \notin network => 
             \/ m = Message("webhook", o)
             \/ \E p : /\ m = Message("webhook of a rejected attempt", p)
                       /\ p = Message("webhook", o).order
    BY <1>5 DEF PayerActs
  <2>2. /\ provider' \in [Orders -> PaymentStatuses \cup {"mock"}]
        /\ \A p \in Orders \ {o} : provider'[p] = provider[p]
    BY <2>1 DEF Typed, PaymentStatuses
  <2>3. Typed' /\ Others(o)
    BY <2>1, <2>2 DEF Typed, Others
  <2>4. Message("webhook", o).order = o
        /\ Message("webhook of a rejected attempt", o).order = o
    BY DEF Message
  <2>5. Apart(o)
    BY <2>1, <2>4 DEF Apart
  <2>6. ASSUME NEW k, k \notin {"webhook", "webhook of a rejected attempt"}
        PROVE  (Underway(k, o)' => Underway(k, o)) /\ (Owed(k, o) => Owed(k, o)')
    <3>1. /\ Message(k, o) # Message("webhook", o)
          /\ \A p : Message(k, o) # Message("webhook of a rejected attempt", p)
      BY <2>6 DEF Message
    <3>2. QED
      BY <2>1, <3>1 DEF Underway, Owed
  <2>7. Passes(o)
    BY <2>6 DEF Passes
  <2>8. SagaInv(o)'
    BY <2>1, <2>7, PassingKeeps
  <2>9. QED
    BY <2>3, <2>5, <2>8 DEF Good
<1>6. QED
  BY <1>1, <1>2, <1>3, <1>4, <1>5

-----------------------------------------------------------------------------
(* Steps of order-service that write the order                             *)

(* A session begins; an administrator sets a status.                       *)
LEMMA PlainWrites ==
  ASSUME SagaAssumption, Typed, NEW o \in Orders, SagaInv(o),
         OpenSession(o) \/ \E status \in AdminStatuses : UpdateOrderStatus(o, status)
  PROVE  Good(o)
<1>1. ASSUME OpenSession(o)
      PROVE  Good(o)
  <2>1. /\ UNCHANGED <<reads, reservations, payments, provider, lost, past, byHand>>
        /\ orders' = [orders EXCEPT ![o] = IF @ = "none" THEN "PENDING" ELSE @]
        /\ network \subseteq network'
        /\ \A m \in network' : \/ m \in network
                               \/ m = Message("reserve_stock", o)
                               \/ m = Message("request_payment rpc", o)
    BY <1>1 DEF OpenSession, RequestPayment
  <2>2. /\ orders' \in [Orders -> OrderStatuses \cup {"none"}]
        /\ \A p \in Orders \ {o} : orders'[p] = orders[p]
        /\ orders'[o] = orders[o] \/ (orders[o] = "none" /\ orders'[o] = "PENDING")
    BY <2>1 DEF Typed, OrderStatuses
  <2>3. \E s \in {"stock", "payment", "over"} : session' = [session EXCEPT ![o] = s]
    BY <1>1 DEF OpenSession, RequestPayment
  <2>4. session' \in [Orders -> {"none", "begin", "stock", "marking", "payment",
                                 "failing", "ready", "over"}]
    BY <2>3 DEF Typed
  <2>5. Typed' /\ Others(o)
    BY <2>1, <2>2, <2>4 DEF Typed, Others
  <2>6. Apart(o)
    BY <2>1, MessageOrder DEF Apart
  <2>7. ASSUME NEW k \in {"confirm_stock", "release_stock", "payment_succeeded",
                          "payment_failed", "stock_reservation_failed"}
        PROVE  (Underway(k, o)' <=> Underway(k, o)) /\ (Owed(k, o)' <=> Owed(k, o))
    <3>1. /\ Message(k, o) # Message("reserve_stock", o)
          /\ Message(k, o) # Message("request_payment rpc", o)
      BY MessagesDiffer
    <3>2. QED
      BY <2>1, <3>1 DEF Underway, Owed
  <2>8. Own(o)' /\ Told(o)'
    BY <2>1, <2>2, <2>7 DEF SagaInv, Own, Told
  <2>9. Confirmed(o)' /\ Cancelled(o)' /\ Open(o)'
    BY <2>1, <2>2, <2>7 DEF SagaInv, Confirmed, Cancelled, Open, IsTerminalOrder
  <2>10. QED
    BY <2>5, <2>6, <2>8, <2>9 DEF Good, SagaInv
<1>2. ASSUME NEW status \in AdminStatuses, UpdateOrderStatus(o, status)
      PROVE  Good(o)
  <2>1. /\ UNCHANGED <<session, reads, reservations, payments, provider, network,
                       lost>>
        /\ orders' = [orders EXCEPT ![o] = status]
        /\ byHand' = [byHand EXCEPT ![o] = TRUE]
        /\ past' = [past EXCEPT ![o] = @ \cup {"by hand"}]
    BY <1>2 DEF UpdateOrderStatus, Noted
  <2>2. /\ orders' \in [Orders -> OrderStatuses \cup {"none"}]
        /\ \A p \in Orders \ {o} : orders'[p] = orders[p]
    BY <2>1 DEF Typed, SagaAssumption
  <2>3. /\ byHand' \in [Orders -> BOOLEAN] /\ byHand'[o]
        /\ \A p \in Orders \ {o} : byHand'[p] = byHand[p]
    BY <2>1 DEF Typed
  <2>4. /\ past' \in [Orders -> SUBSET Causes]
        /\ past[o] \subseteq past'[o] /\ "by hand" \in past'[o]
        /\ \A p \in Orders \ {o} : past'[p] = past[p]
    BY <2>1 DEF Typed, Causes
  <2>5. Typed' /\ Others(o) /\ Apart(o)
    BY <2>1, <2>2, <2>3, <2>4 DEF Typed, Others, Apart
  <2>6. Own(o)' /\ Told(o)'
    BY <2>1, <2>4 DEF SagaInv, Own, Told, Underway
  <2>7. Confirmed(o)' /\ Cancelled(o)' /\ Open(o)'
    BY <2>3, <2>4 DEF Confirmed, Cancelled, Open
  <2>8. QED
    BY <2>5, <2>6, <2>7 DEF Good, SagaInv
<1>3. QED
  BY <1>1, <1>2

(* A transaction's COMMIT: its status, and what it notes.                  *)
LEMMA CommitWrites ==
  ASSUME Typed, NEW t, t.order \in Orders, Commit(t),
         LeadsTo(t.kind) \in {"PAYMENT_PENDING", "CONFIRMED", "CANCELLED"}
  PROVE  LET o == t.order IN
         /\ t \in reads /\ reads' = reads \ {t}
         /\ orders' \in [Orders -> OrderStatuses \cup {"none"}]
         /\ orders'[o] = LeadsTo(t.kind) /\ ~byHand'[o]
         /\ past[o] \subseteq past'[o]
         /\ IsTerminalOrder(orders[o]) /\ orders[o] # LeadsTo(t.kind)
              => "overwritten" \in past'[o]
         /\ t.kind = "fail_checkout" => "gave up" \in past'[o]
         /\ past' \in [Orders -> SUBSET Causes]
         /\ byHand' \in [Orders -> BOOLEAN]
         /\ \A p \in Orders \ {o} : /\ orders'[p] = orders[p]
                                    /\ past'[p] = past[p] /\ byHand'[p] = byHand[p]
<1> DEFINE o == t.order
<1>1. /\ t \in reads /\ reads' = reads \ {t}
      /\ orders' = [orders EXCEPT ![o] = LeadsTo(t.kind)]
      /\ byHand' = [byHand EXCEPT ![o] = FALSE]
  BY DEF Commit
<1> DEFINE over == IF IsTerminalOrder(orders[o]) /\ orders[o] # LeadsTo(t.kind)
                   THEN {"overwritten"} ELSE {}
           gave == IF t.kind = "fail_checkout" THEN {"gave up"} ELSE {}
           w == over \cup gave
<1>2. /\ past' = [past EXCEPT ![o] = @ \cup w]
      /\ w \in SUBSET Causes
      /\ IsTerminalOrder(orders[o]) /\ orders[o] # LeadsTo(t.kind)
             => "overwritten" \in w
      /\ t.kind = "fail_checkout" => "gave up" \in w
  <2>1. past' = [past EXCEPT ![o] = @ \cup w]
    BY DEF Commit, Noted
  <2>2. QED
    BY <2>1 DEF Causes
<1> HIDE DEF w
<1>3. o \in Orders
  OBVIOUS
<1>4. /\ orders' \in [Orders -> OrderStatuses \cup {"none"}]
      /\ orders'[o] = LeadsTo(t.kind)
      /\ \A p \in Orders \ {o} : orders'[p] = orders[p]
  BY <1>1, <1>3 DEF Typed, OrderStatuses
<1>5. /\ byHand' \in [Orders -> BOOLEAN] /\ ~byHand'[o]
      /\ \A p \in Orders \ {o} : byHand'[p] = byHand[p]
  BY <1>1, <1>3 DEF Typed
<1>6. /\ past' \in [Orders -> SUBSET Causes] /\ past'[o] = past[o] \cup w
      /\ \A p \in Orders \ {o} : past'[p] = past[p]
  BY <1>2, <1>3 DEF Typed
<1>7. QED
  BY <1>1, <1>2, <1>4, <1>5, <1>6

(* What is left behind by a transaction that has committed and published,  *)
(* or lost, its events.                                                    *)
Published(t) ==
  /\ network \subseteq network' /\ lost \subseteq lost'
  /\ \A m \in network' : \/ m \in network \cup Announced(t)
                         \/ m = Message(t.kind, t.order)
                         \/ m = Message("request_payment rpc", t.order)
  /\ lost' \subseteq lost \cup Announced(t)
  /\ Announced(t) \subseteq network' \cup lost'

Kinds == Events \cup {"mark_payment_pending", "fail_checkout"}

(* The messages of other orders, and what is owed to this one, stay.       *)
LEMMA PublishedKeeps ==
  ASSUME NEW o, NEW t \in reads, t.order = o, t.kind \in Kinds,
         reads' = reads \ {t}, Published(t)
  PROVE  /\ Apart(o)
         /\ \A k \in Kinds \cup {"confirm_stock", "release_stock"} :
              k # t.kind /\ Owed(k, o) => Owed(k, o)'
         /\ \A k \in Kinds : Underway(k, o)' => Underway(k, o)
         /\ \A e \in Publications(t.kind) : Owed(e, o)'
<1>1. /\ \A m \in Announced(t) : m.order = o
      /\ \A e \in Publications(t.kind) : Message(e, o) \in Announced(t)
  BY MessageOrder DEF Announced
<1>2. Apart(o)
  <2>1. Message(t.kind, o).order = o /\ Message("request_payment rpc", o).order = o
    BY MessageOrder
  <2>2. QED
    BY <1>1, <2>1 DEF Published, Apart
<1>3. ASSUME NEW k, k # t.kind, Owed(k, o)
      PROVE  Owed(k, o)'
  BY <1>3 DEF Owed, Underway, Published
<1>4. ASSUME NEW k \in Kinds, Underway(k, o)'
      PROVE  Underway(k, o)
  <2>1. CASE Message(k, o) \in network'
    <3>1. Message(k, o) # Message("request_payment rpc", o)
      BY MessagesDiffer DEF Kinds, Events
    <3>2. Message(k, o) \notin Announced(t)
      <4>1. \A e \in Publications(t.kind) : e # k
        BY DEF Publications, Kinds, Events
      <4>2. QED
        BY <4>1, MessagesDiffer DEF Announced
    <3>3. CASE k = t.kind
      BY <3>3 DEF Underway
    <3>4. CASE k # t.kind
      BY <2>1, <3>1, <3>2, <3>4, MessagesDiffer DEF Published, Underway
    <3>5. QED
      BY <3>3, <3>4
  <2>2. CASE \E u \in reads' : u.kind = k /\ u.order = o
    BY <2>2 DEF Underway
  <2>3. QED
    BY <1>4, <2>1, <2>2 DEF Underway
<1>5. \A e \in Publications(t.kind) : Owed(e, o)'
  BY <1>1 DEF Published, Owed, Underway
<1>6. QED
  BY <1>2, <1>3, <1>4, <1>5

(* A transaction that commits, and publishes or loses what the status it   *)
(* wrote asks for, keeps the invariant.                                    *)
LEMMA CommitKeeps ==
  ASSUME Typed, NEW o \in Orders, SagaInv(o), NEW t, t.order = o,
         t.kind \in Kinds, Commit(t), Published(t),
         UNCHANGED <<reservations, payments, provider>>
  PROVE  /\ SagaInv(o)' /\ Apart(o) /\ Others(o)
         /\ orders' \in [Orders -> OrderStatuses \cup {"none"}]
         /\ past' \in [Orders -> SUBSET Causes]
         /\ byHand' \in [Orders -> BOOLEAN]
<1>1. LeadsTo(t.kind) \in {"PAYMENT_PENDING", "CONFIRMED", "CANCELLED"}
  BY DEF LeadsTo, Kinds, Events
<1>2. /\ t \in reads /\ reads' = reads \ {t}
      /\ orders' \in [Orders -> OrderStatuses \cup {"none"}]
      /\ orders'[o] = LeadsTo(t.kind) /\ ~byHand'[o]
      /\ past[o] \subseteq past'[o]
      /\ IsTerminalOrder(orders[o]) /\ orders[o] # LeadsTo(t.kind)
              => "overwritten" \in past'[o]
      /\ t.kind = "fail_checkout" => "gave up" \in past'[o]
      /\ past' \in [Orders -> SUBSET Causes]
      /\ byHand' \in [Orders -> BOOLEAN]
      /\ \A p \in Orders \ {o} : /\ orders'[p] = orders[p]
                                 /\ past'[p] = past[p] /\ byHand'[p] = byHand[p]
  BY <1>1, CommitWrites
<1>3. /\ Apart(o)
      /\ \A k \in Kinds \cup {"confirm_stock", "release_stock"} :
           k # t.kind /\ Owed(k, o) => Owed(k, o)'
      /\ \A k \in Kinds : Underway(k, o)' => Underway(k, o)
      /\ \A e \in Publications(t.kind) : Owed(e, o)'
  BY <1>2, PublishedKeeps
<1>4. Underway(t.kind, o)
  BY <1>2 DEF Underway
<1>5. Own(o)' /\ Told(o)'
  BY <1>1, <1>2, <1>3 DEF SagaInv, Own, Told, Kinds, Events
<1>6. Confirmed(o)'
  <2>1. SUFFICES ASSUME orders'[o] = "CONFIRMED" PROVE Confirmed(o)'
    BY DEF Confirmed
  <2>2. t.kind = "payment_succeeded"
    BY <1>2, <2>1 DEF LeadsTo, Kinds, Events
  <2>3. Owed("confirm_stock", o)'
    BY <1>3, <2>2 DEF Publications
  <2>4. payments[o] = "APPROVED" \/ "rejected" \in past[o]
    BY <1>4, <2>2 DEF SagaInv, Told
  <2>5. QED
    BY <1>2, <2>3, <2>4 DEF Confirmed
<1>7. Cancelled(o)'
  <2>1. SUFFICES ASSUME orders'[o] = "CANCELLED" PROVE Cancelled(o)'
    BY DEF Cancelled
  <2>2. t.kind \in {"stock_reservation_failed", "payment_failed", "fail_checkout"}
    BY <1>2, <2>1 DEF LeadsTo, Kinds, Events
  <2>3. CASE t.kind = "stock_reservation_failed"
    BY <1>4, <2>3 DEF SagaInv, Told, Cancelled
  <2>4. CASE t.kind \in {"payment_failed", "fail_checkout"}
    <3>1. Owed("release_stock", o)'
      BY <1>3, <2>4 DEF Publications
    <3>2. "rejected" \in past'[o] \/ "gave up" \in past'[o]
      BY <1>2, <1>4, <2>4 DEF SagaInv, Told
    <3>3. QED
      BY <3>1, <3>2 DEF Cancelled
  <2>5. QED
    BY <2>2, <2>3, <2>4
<1>8. Open(o)'
  <2>1. SUFFICES ASSUME ~IsTerminalOrder(orders'[o]), "overwritten" \notin past'[o]
                 PROVE  Open(o)'
    BY DEF Open
  <2>2. /\ t.kind \notin {"payment_succeeded", "payment_failed"}
        /\ ~IsTerminalOrder(orders[o])
    BY <1>2, <2>1 DEF LeadsTo, Kinds, Events, IsTerminalOrder
  <2>3. /\ Owed("payment_succeeded", o) => Owed("payment_succeeded", o)'
        /\ Owed("payment_failed", o) => Owed("payment_failed", o)'
    BY <1>3, <2>2 DEF Kinds, Events
  <2>4. QED
    BY <1>2, <2>2, <2>3 DEF SagaInv, Open
<1>9. Others(o)
  BY <1>2 DEF Others
<1>10. QED
  BY <1>2, <1>3, <1>5, <1>6, <1>7, <1>8, <1>9 DEF SagaInv

(* The transactions of the session and of the handlers of events.          *)
LEMMA TransactionSteps ==
  ASSUME Typed, NEW o \in Orders, SagaInv(o), NEW t, t.order = o,
         HandleEvent(t) \/ MarkOrderPaymentPending(t) \/ FailCheckoutSession(t)
  PROVE  Good(o)
<1>1. /\ Commit(t) /\ t.kind \in Kinds
      /\ UNCHANGED <<reservations, payments, provider>>
  BY DEF HandleEvent, MarkOrderPaymentPending, FailCheckoutSession, Kinds
<1>2. \E s \in {"payment", "over", session[o]} :
        session' = [session EXCEPT ![o] = s] \/ session' = session
  BY DEF HandleEvent, MarkOrderPaymentPending, FailCheckoutSession, RequestPayment
<1>3. session' \in [Orders -> {"none", "begin", "stock", "marking", "payment",
                               "failing", "ready", "over"}]
  BY <1>2 DEF Typed
<1>4. Published(t)
  <2>1. CASE HandleEvent(t)
    <3>1. Leaves(network, {Message(t.kind, t.order)} \cup Announced(t) \cup {},
                 Announced(t))
      BY <2>1, PublishLeaves DEF HandleEvent
    <3>2. QED
      BY <3>1 DEF Leaves, Published
  <2>2. CASE FailCheckoutSession(t)
    <3>1. Leaves(network, {} \cup Announced(t) \cup {}, Announced(t))
      BY <2>2, PublishLeaves DEF FailCheckoutSession
    <3>2. QED
      BY <3>1 DEF Leaves, Published
  <2>3. CASE MarkOrderPaymentPending(t)
    <3>1. Announced(t) = {}
      BY <2>3 DEF MarkOrderPaymentPending, Announced, Publications
    <3>2. /\ lost' = lost /\ network \subseteq network'
          /\ network' \subseteq network \cup {Message("request_payment rpc", t.order)}
      BY <2>3 DEF MarkOrderPaymentPending, RequestPayment
    <3>3. QED
      BY <3>1, <3>2 DEF Published
  <2>4. QED
    BY <2>1, <2>2, <2>3
<1>5. /\ SagaInv(o)' /\ Apart(o) /\ Others(o)
      /\ orders' \in [Orders -> OrderStatuses \cup {"none"}]
      /\ past' \in [Orders -> SUBSET Causes]
      /\ byHand' \in [Orders -> BOOLEAN]
  BY <1>1, <1>4, CommitKeeps
<1>6. QED
  BY <1>1, <1>3, <1>5 DEF Good, Typed

-----------------------------------------------------------------------------
(* inventory-service and payment-service                                   *)

(* A handler of those services takes a message of the order, says what it  *)
(* has to say, or loses it, and leaves the rest.                           *)
LEMMA FinishKeeps ==
  ASSUME NEW o, NEW taken, NEW events, NEW replies,
         Finish(taken, events, replies), taken \subseteq network, reads' = reads,
         \A m \in taken \cup events \cup replies : m.order = o
  PROVE  /\ Apart(o)
         /\ \A k : Message(k, o) \notin taken /\ Owed(k, o) => Owed(k, o)'
         /\ \A k : Message(k, o) \notin events \cup replies /\ Underway(k, o)'
                     => Underway(k, o)
         /\ \A k : Message(k, o) \in events => Owed(k, o)'
<1>1. Leaves(network \ taken, taken \cup events \cup replies, events)
  BY FinishLeaves
<1>2. Apart(o)
  <2>1. /\ \A m \in (taken \cup events \cup replies) \cup events : m.order = o
        /\ \A m : m.order # o => (m \in network \ taken <=> m \in network)
        /\ \A t : t.order # o => (t \in reads' <=> t \in reads)
    OBVIOUS
  <2>2. QED
    BY ONLY <1>1, <2>1, LeavesApart
<1>3. ASSUME NEW k, Message(k, o) \notin taken, Owed(k, o)
      PROVE  Owed(k, o)'
  BY <1>1, <1>3 DEF Leaves, Owed, Underway
<1>4. ASSUME NEW k, Message(k, o) \notin events \cup replies, Underway(k, o)'
      PROVE  Underway(k, o)
  BY <1>1, <1>4 DEF Leaves, Underway
<1>5. ASSUME NEW k, Message(k, o) \in events
      PROVE  Owed(k, o)'
  BY <1>1, <1>5 DEF Leaves, Owed, Underway
<1>6. QED
  BY <1>2, <1>3, <1>4, <1>5

(* The three commands of inventory-service.                                *)
LEMMA StockSteps ==
  ASSUME Typed, NEW o \in Orders, SagaInv(o),
         ReserveStock(o) \/ ConfirmStockReservation(o) \/ ReleaseStockReservation(o)
  PROVE  Good(o)
<1>0. /\ UNCHANGED <<session, orders, reads, payments, provider, past, byHand>>
  BY DEF ReserveStock, ConfirmStockReservation, ReleaseStockReservation
<1>1. PICK command \in {"reserve_stock", "confirm_stock", "release_stock"},
           events \in SUBSET {Message("stock_reserved", o),
                              Message("stock_reservation_failed", o)},
           replies \in SUBSET {Message("stock reply", o)} :
        /\ Message(command, o) \in network
        /\ Finish({Message(command, o)}, events, replies)
        /\ \/ /\ events = {} /\ reservations' = reservations
              /\ command = "reserve_stock"
           \/ /\ command = "reserve_stock" /\ reservations[o] = "none"
              /\ \/ /\ reservations' = [reservations EXCEPT ![o] = "PENDING"]
                    /\ events = {Message("stock_reserved", o)}
                 \/ /\ reservations' = [reservations EXCEPT ![o] = "FAILED"]
                    /\ events = {Message("stock_reservation_failed", o)}
           \/ /\ events = {} /\ command = "confirm_stock"
              /\ reservations[o] \in {"PENDING", "CONFIRMED"}
              /\ reservations' = [reservations EXCEPT ![o] = "CONFIRMED"]
           \/ /\ events = {} /\ command = "release_stock"
              /\ reservations[o] \in {"PENDING", "RELEASED", "FAILED"}
              /\ reservations' = [reservations EXCEPT
                   ![o] = IF @ = "PENDING" THEN "RELEASED" ELSE @]
  <2>1. CASE ReserveStock(o)
    <3>1. CASE reservations[o] # "none"
      BY <2>1, <3>1 DEF ReserveStock
    <3>2. CASE reservations[o] = "none"
      <4>1. PICK outcome \in {<<"PENDING", "stock_reserved">>,
                              <<"FAILED", "stock_reservation_failed">>} :
              /\ reservations' = [reservations EXCEPT ![o] = outcome[1]]
              /\ Finish({Message("reserve_stock", o)}, {Message(outcome[2], o)},
                        {Message("stock reply", o)})
              /\ Message("reserve_stock", o) \in network
        BY <2>1, <3>2 DEF ReserveStock
      <4>2. CASE outcome = <<"PENDING", "stock_reserved">>
        BY <3>2, <4>1, <4>2
      <4>3. CASE outcome = <<"FAILED", "stock_reservation_failed">>
        BY <3>2, <4>1, <4>3
      <4>4. QED
        BY <4>1, <4>2, <4>3
    <3>3. QED
      BY <3>1, <3>2
  <2>2. CASE ConfirmStockReservation(o)
    BY <2>2 DEF ConfirmStockReservation
  <2>3. CASE ReleaseStockReservation(o)
    BY <2>3 DEF ReleaseStockReservation
  <2>4. QED
    BY <2>1, <2>2, <2>3
<1>2. /\ Apart(o)
      /\ \A k : Message(k, o) \notin {Message(command, o)} /\ Owed(k, o) => Owed(k, o)'
      /\ \A k : Message(k, o) \notin events \cup replies /\ Underway(k, o)'
                  => Underway(k, o)
  <2>1. PICK taken : taken = {Message(command, o)}
    OBVIOUS
  <2>2. taken \subseteq network /\ reads' = reads /\ Finish(taken, events, replies)
    BY <1>0, <1>1, <2>1
  <2>3. \A m \in taken \cup events \cup replies : m.order = o
    <3>1. \A k : Message(k, o).order = o
      BY MessageOrder
    <3>2. QED
      BY <1>1, <2>1, <3>1
  <2>4. /\ Apart(o)
        /\ \A k : Message(k, o) \notin taken /\ Owed(k, o) => Owed(k, o)'
        /\ \A k : Message(k, o) \notin events \cup replies /\ Underway(k, o)'
                    => Underway(k, o)
    BY ONLY <2>2, <2>3, FinishKeeps
  <2>5. QED
    BY <2>1, <2>4
<1>3. /\ reservations' \in [Orders -> {"none", "PENDING", "CONFIRMED", "RELEASED",
                                       "FAILED"}]
      /\ \A p \in Orders \ {o} : reservations'[p] = reservations[p]
      /\ reservations[o] = "CONFIRMED" => reservations'[o] = "CONFIRMED"
      /\ reservations[o] = "FAILED" => reservations'[o] = "FAILED"
      /\ command = "confirm_stock" => reservations'[o] = "CONFIRMED"
      /\ command = "release_stock" => reservations'[o] \in {"RELEASED", "FAILED"}
  BY <1>1 DEF Typed
<1>4. Typed' /\ Others(o)
  BY <1>0, <1>3 DEF Typed, Others
<1>5. ASSUME NEW k, k # command, Owed(k, o)
      PROVE  Owed(k, o)'
  BY <1>2, <1>5, MessagesDiffer
<1>6. ASSUME NEW k \in {"payment_succeeded", "payment_failed"}
      PROVE  Underway(k, o)' => Underway(k, o)
  <2>1. /\ Message(k, o) # Message("stock_reserved", o)
        /\ Message(k, o) # Message("stock_reservation_failed", o)
        /\ Message(k, o) # Message("stock reply", o)
    BY MessagesDiffer
  <2>2. QED
    BY <1>1, <1>2, <2>1
<1>7. Underway("stock_reservation_failed", o)' => reservations'[o] = "FAILED"
  <2>1. Message("stock_reservation_failed", o) # Message("stock_reserved", o)
        /\ Message("stock_reservation_failed", o) # Message("stock reply", o)
    BY MessagesDiffer
  <2>2. CASE Message("stock_reservation_failed", o) \in events
    BY <1>1, <2>1, <2>2 DEF Typed
  <2>3. CASE Message("stock_reservation_failed", o) \notin events
    BY <1>1, <1>2, <1>3, <2>1, <2>3 DEF SagaInv, Told
  <2>4. QED
    BY <2>2, <2>3
<1>8. Own(o)' /\ Told(o)'
  BY <1>0, <1>6, <1>7 DEF SagaInv, Own, Told
<1>9. Confirmed(o)'
  <2>1. CASE command = "confirm_stock"
    BY <1>0, <1>3, <2>1 DEF SagaInv, Confirmed
  <2>2. CASE command # "confirm_stock"
    BY <1>0, <1>3, <1>5, <2>2 DEF SagaInv, Confirmed
  <2>3. QED
    BY <2>1, <2>2
<1>10. Cancelled(o)'
  <2>1. CASE command = "release_stock"
    BY <1>0, <1>3, <2>1 DEF SagaInv, Cancelled
  <2>2. CASE command # "release_stock"
    <3>1. SUFFICES ASSUME orders[o] = "CANCELLED", ~byHand[o]
                   PROVE  Cancelled(o)'
      BY <1>0 DEF Cancelled
    <3>2. reservations[o] \in {"RELEASED", "FAILED"} \/ Owed("release_stock", o)'
      BY <1>5, <2>2, <3>1 DEF SagaInv, Cancelled
    <3>3. reservations[o] = "RELEASED" => reservations'[o] = "RELEASED"
      BY <1>1, <2>2 DEF Typed
    <3>4. QED
      BY <1>0, <1>3, <3>1, <3>2, <3>3 DEF SagaInv, Cancelled
  <2>3. QED
    BY <2>1, <2>2
<1>11. Open(o)'
  BY <1>0, <1>1, <1>5 DEF SagaInv, Open
<1>12. QED
  BY <1>2, <1>4, <1>8, <1>9, <1>10, <1>11 DEF Good, SagaInv

(* The row of a payment takes a status, which is said unless it is the     *)
(* status that it has.                                                     *)
LEMMA PaymentTold ==
  ASSUME Typed, NEW o \in Orders, SagaInv(o),
         NEW taken, NEW status \in PaymentStatuses, NEW events, NEW replies,
         SetPayment(o, status), Finish(taken, events, replies),
         taken \subseteq network, replies \subseteq {Message("payment reply", o)},
         \A m \in taken : m.order = o,
         \A k \in {"confirm_stock", "release_stock", "payment_succeeded",
                   "payment_failed"} : Message(k, o) \notin taken,
         \/ events = {Message(EventOf(status), o)}
         \/ events = {} /\ payments[o] = status,
         status = "APPROVED" => provider'[o] \in {"APPROVED", "mock"},
         status \in {"none", "PENDING"} => payments[o] # "APPROVED",
         provider' \in [Orders -> PaymentStatuses \cup {"mock"}],
         \A p \in Orders \ {o} : provider'[p] = provider[p],
         UNCHANGED <<session, orders, reads, reservations, byHand>>
  PROVE  Good(o)
<1>1. /\ payments' \in [Orders -> PaymentStatuses] /\ payments'[o] = status
      /\ \A p \in Orders \ {o} : payments'[p] = payments[p]
  BY DEF SetPayment, Typed
<1>2. /\ past' \in [Orders -> SUBSET Causes] /\ past[o] \subseteq past'[o]
      /\ past'[o] \subseteq past[o] \cup {"rejected"}
      /\ status = "REJECTED" => "rejected" \in past'[o]
      /\ \A p \in Orders \ {o} : past'[p] = past[p]
  <2> DEFINE w == IF status = "REJECTED" THEN {"rejected"} ELSE {}
  <2>1. past' = [past EXCEPT ![o] = @ \cup w]
    BY DEF SetPayment, Noted
  <2>2. w \subseteq {"rejected"} /\ (status = "REJECTED" => "rejected" \in w)
    OBVIOUS
  <2> HIDE DEF w
  <2>3. QED
    BY <2>1, <2>2, ZenonT(60) DEF Typed, Causes
<1>3. Typed' /\ Others(o)
  BY <1>1, <1>2 DEF Typed, Others
<1>4. /\ Apart(o)
      /\ \A k : Message(k, o) \notin taken /\ Owed(k, o) => Owed(k, o)'
      /\ \A k : Message(k, o) \notin events \cup replies /\ Underway(k, o)'
                  => Underway(k, o)
      /\ \A k : Message(k, o) \in events => Owed(k, o)'
  <2>1. \A m \in taken \cup events \cup replies : m.order = o
    <3>1. \A k : Message(k, o).order = o
      BY MessageOrder
    <3>2. QED
      BY <3>1
  <2>2. taken \subseteq network /\ reads' = reads /\ Finish(taken, events, replies)
    OBVIOUS
  <2>3. QED
    BY ONLY <2>1, <2>2, FinishKeeps
<1>5. /\ status = "APPROVED" => EventOf(status) = "payment_succeeded"
      /\ status = "REJECTED" => EventOf(status) = "payment_failed"
      /\ status \in {"none", "PENDING"} => EventOf(status) = "payment_pending"
  BY DEF EventOf
<1>6. ASSUME NEW k \in {"payment_succeeded", "payment_failed",
                        "stock_reservation_failed"},
             Underway(k, o)'
      PROVE  Underway(k, o) \/ k = EventOf(status)
  <2>1. Message(k, o) # Message("payment reply", o)
    <3>1. k # "payment reply"
      OBVIOUS
    <3>2. QED
      BY ONLY <3>1, MessagesDiffer
  <2>2. CASE k # EventOf(status)
    <3>1. Message(k, o) # Message(EventOf(status), o)
      BY ONLY <2>2, MessagesDiffer
    <3>2. QED
      BY <1>4, <1>6, <2>1, <3>1
  <2>3. QED
    BY <2>2
<1>7. \A k \in {"confirm_stock", "release_stock", "payment_succeeded",
                "payment_failed"} : Owed(k, o) => Owed(k, o)'
  BY <1>4
<1>8. Own(o)' /\ Told(o)'
  <2>1. Own(o)'
    BY <1>2 DEF SagaInv, Own
  <2>2. status \in {"none", "PENDING", "APPROVED", "REJECTED"}
    BY DEF PaymentStatuses
  <2>3. Underway("payment_succeeded", o)'
          => payments'[o] = "APPROVED" \/ "rejected" \in past'[o]
    BY <1>1, <1>2, <1>5, <1>6, <2>2 DEF SagaInv, Told
  <2>4. Underway("payment_failed", o)' => "rejected" \in past'[o]
    BY <1>1, <1>2, <1>5, <1>6, <2>2 DEF SagaInv, Told
  <2>5. Underway("stock_reservation_failed", o)' => reservations'[o] = "FAILED"
    BY <1>5, <1>6, <2>2 DEF SagaInv, Told
  <2>6. payments'[o] = "APPROVED" => provider'[o] \in {"APPROVED", "mock"}
    BY <1>1
  <2>7. QED
    BY <2>1, <2>3, <2>4, <2>5, <2>6 DEF Told
<1>9. Confirmed(o)'
  <2>1. payments[o] = "APPROVED" => payments'[o] = "APPROVED" \/ "rejected" \in past'[o]
    BY <1>1, <1>2 DEF PaymentStatuses
  <2>2. QED
    BY <1>2, <1>7, <2>1 DEF SagaInv, Confirmed
<1>10. Cancelled(o)'
  BY <1>2, <1>7 DEF SagaInv, Cancelled
<1>11. Open(o)'
  <2>1. SUFFICES ASSUME ~IsTerminalOrder(orders'[o]),
                        past'[o] \cap {"by hand", "overwritten"} = {}
                 PROVE  Open(o)'
    BY DEF Open
  <2>2. past[o] \cap {"by hand", "overwritten"} = {} /\ ~IsTerminalOrder(orders[o])
    BY <1>2, <2>1
  <2>3. CASE events = {Message(EventOf(status), o)}
    BY <1>1, <1>4, <1>5, <2>3 DEF Open
  <2>4. CASE payments[o] = status
    BY <1>1, <1>7, <2>2, <2>4 DEF SagaInv, Open
  <2>5. QED
    BY <2>3, <2>4
<1>12. QED
  BY <1>3, <1>4, <1>8, <1>9, <1>10, <1>11 DEF Good, SagaInv

(* A payment is asked for, by the session or by an event.                  *)
LEMMA PaymentRequested ==
  ASSUME SagaAssumption, Typed, NEW o \in Orders, SagaInv(o),
         NEW kind \in {"request_payment", "request_payment rpc"},
         ProcessPayment(o, kind)
  PROVE  Good(o)
<1> DEFINE reply == IF kind = "request_payment" THEN {}
                    ELSE {Message("payment reply", o)}
<1>1. PICK taken : taken = {Message(kind, o)}
  OBVIOUS
<1>2. /\ taken \subseteq network
      /\ UNCHANGED <<session, orders, reads, reservations, byHand>>
  BY <1>1 DEF ProcessPayment
<1>3. /\ \A m \in taken : m.order = o
      /\ \A k \in {"confirm_stock", "release_stock", "payment_succeeded",
                   "payment_failed"} : Message(k, o) \notin taken
  <2>1. Message(kind, o).order = o
    BY MessageOrder
  <2>2. \A k \in {"confirm_stock", "release_stock", "payment_succeeded",
                  "payment_failed"} : Message(k, o) # Message(kind, o)
    BY MessagesDiffer
  <2>3. QED
    BY <1>1, <2>1, <2>2
<1>4. PICK replies : replies = reply
  OBVIOUS
<1>5. replies = reply /\ replies \subseteq {Message("payment reply", o)}
  BY <1>4
<1>6. CASE /\ payments[o] = "none"
           /\ \E p \in Providers : \E status \in Outcomes(p) :
                /\ SetPayment(o, status)
                /\ provider' = [provider EXCEPT
                     ![o] = IF p = "MOCK" THEN "mock" ELSE @]
                /\ Finish(taken, {Message(EventOf(status), o)}, replies)
  <2>1. PICK p \in Providers : \E status \in Outcomes(p) :
          /\ SetPayment(o, status)
          /\ provider' = [provider EXCEPT ![o] = IF p = "MOCK" THEN "mock" ELSE @]
          /\ Finish(taken, {Message(EventOf(status), o)}, replies)
    BY <1>6
  <2>2. PICK status \in Outcomes(p) :
          /\ SetPayment(o, status)
          /\ provider' = [provider EXCEPT ![o] = IF p = "MOCK" THEN "mock" ELSE @]
          /\ Finish(taken, {Message(EventOf(status), o)}, replies)
    BY <2>1
  <2>3. PICK events : events = {Message(EventOf(status), o)}
    OBVIOUS
  <2>4. /\ SetPayment(o, status) /\ Finish(taken, events, replies)
        /\ payments[o] # "APPROVED"
    BY <1>6, <2>2, <2>3
  <2>5. /\ status \in PaymentStatuses
        /\ status = "APPROVED" => p = "MOCK"
    <3>1. status \in Outcomes(p)
      OBVIOUS
    <3>2. QED
      BY <3>1 DEF Outcomes, PaymentStatuses
  <2>6. /\ provider' \in [Orders -> PaymentStatuses \cup {"mock"}]
        /\ \A q \in Orders \ {o} : provider'[q] = provider[q]
        /\ status = "APPROVED" => provider'[o] \in {"APPROVED", "mock"}
    BY <2>2, <2>5 DEF Typed
  <2>7. \/ events = {Message(EventOf(status), o)}
        \/ events = {} /\ payments[o] = status
    BY <2>3
  <2>8. QED
    BY ONLY Typed, SagaInv(o), o \in Orders, <1>2, <1>3, <1>5, <2>4, <2>5, <2>6,
            <2>7, PaymentTold
<1>7. CASE /\ UNCHANGED <<payments, provider, past>>
           /\ Finish(taken, {}, replies) \/ Finish(taken, {}, {})
  <2>1. PICK said \in {replies, {}} : Finish(taken, {}, said)
    BY <1>7
  <2>2. PICK events : events = {}
    OBVIOUS
  <2>3. /\ events = {} /\ Finish(taken, events, said)
        /\ said \subseteq {Message("payment reply", o)}
    BY <1>5, <2>1, <2>2
  <2>4. \A m \in taken \cup events \cup said : m.order = o
    <3>1. Message("payment reply", o).order = o
      BY MessageOrder
    <3>2. QED
      BY <1>3, <2>3, <3>1
  <2>5. taken \subseteq network /\ reads' = reads /\ Finish(taken, events, said)
    BY <1>2, <2>3
  <2>6. /\ Apart(o)
        /\ \A k : Message(k, o) \notin taken /\ Owed(k, o) => Owed(k, o)'
        /\ \A k : Message(k, o) \notin events \cup said /\ Underway(k, o)'
                    => Underway(k, o)
    BY ONLY <2>4, <2>5, FinishKeeps
  <2>7. \A k \in {"payment_succeeded", "payment_failed", "stock_reservation_failed"} :
          Message(k, o) # Message("payment reply", o)
    BY MessagesDiffer
  <2>8. Passes(o)
    BY <1>3, <2>3, <2>6, <2>7 DEF Passes
  <2>9. SagaInv(o)'
    BY <1>2, <1>7, <2>8, PassingKeeps
  <2>10. Typed' /\ Others(o)
    BY <1>2, <1>7 DEF Typed, Others
  <2>11. QED
    BY <2>6, <2>9, <2>10 DEF Good
<1>8. QED
  BY <1>1, <1>5, <1>6, <1>7 DEF ProcessPayment

(* payment-service applies what the provider says, of the latest payment   *)
(* or of an earlier, rejected attempt: a notification, or what a page      *)
(* asks.                                                                   *)
LEMMA StatusApplied ==
  ASSUME Typed, NEW o \in Orders, SagaInv(o), NEW taken, NEW status,
         status = Latest(o) \/ status = "REJECTED",
         ApplyProviderStatus(o, status, taken),
         taken \in {{}, {Message("webhook", o)},
                    {Message("webhook of a rejected attempt", o)}},
         taken \subseteq network,
         UNCHANGED <<session, orders, reads, reservations, provider, byHand>>
  PROVE  Good(o)
<1>1. /\ \A m \in taken : m.order = o
      /\ \A k \in {"confirm_stock", "release_stock", "payment_succeeded",
                   "payment_failed"} : Message(k, o) \notin taken
  <2>1. /\ Message("webhook", o).order = o
        /\ Message("webhook of a rejected attempt", o).order = o
    BY MessageOrder
  <2>2. \A k \in {"confirm_stock", "release_stock", "payment_succeeded",
                  "payment_failed"} :
          /\ Message(k, o) # Message("webhook", o)
          /\ Message(k, o) # Message("webhook of a rejected attempt", o)
    BY MessagesDiffer
  <2>3. QED
    BY <2>1, <2>2
<1>2. /\ status \in PaymentStatuses
      /\ status = "APPROVED" => provider'[o] \in {"APPROVED", "mock"}
      /\ status \in {"none", "PENDING"} => payments[o] # "APPROVED"
  BY DEF Latest, Typed, PaymentStatuses, SagaInv, Told
<1>3. PICK events, replies :
        /\ Finish(taken, events, replies) /\ replies = {}
        /\ \/ events = {Message(EventOf(status), o)}
           \/ events = {} /\ payments[o] = status
  <2>1. CASE payments[o] = status /\ IsTerminalPayment(status)
    <3>1. Finish(taken, {}, {})
      BY <2>1 DEF ApplyProviderStatus
    <3>2. QED
      BY ONLY <2>1, <3>1, Zenon
  <2>2. CASE ~(payments[o] = status /\ IsTerminalPayment(status))
    <3>1. Finish(taken, {Message(EventOf(status), o)}, {})
      BY <2>2 DEF ApplyProviderStatus
    <3>2. QED
      BY ONLY <3>1, Zenon
  <2>3. QED
    BY ONLY <2>1, <2>2
<1>4. SetPayment(o, status)
  BY DEF ApplyProviderStatus
<1>5. replies \subseteq {Message("payment reply", o)}
  BY <1>3
<1>6. /\ provider' \in [Orders -> PaymentStatuses \cup {"mock"}]
      /\ \A p \in Orders \ {o} : provider'[p] = provider[p]
      /\ UNCHANGED <<session, orders, reads, reservations, byHand>>
  BY DEF Typed
<1>7. taken \subseteq network
  OBVIOUS
<1>8. QED
  BY ONLY Typed, SagaInv(o), o \in Orders, <1>1, <1>2, <1>3, <1>4, <1>5, <1>6, <1>7,
          PaymentTold

LEMMA WebhookProcessed ==
  ASSUME Typed, NEW o \in Orders, SagaInv(o), ProcessWebhook(o)
  PROVE  Good(o)
<1>1. UNCHANGED <<session, orders, reads, reservations, provider, byHand>>
  BY DEF ProcessWebhook
<1>2. PICK taken, status :
        /\ status = Latest(o) \/ status = "REJECTED"
        /\ ApplyProviderStatus(o, status, taken)
        /\ taken \in {{Message("webhook", o)},
                      {Message("webhook of a rejected attempt", o)}}
        /\ taken \subseteq network
  <2>1. CASE /\ Message("webhook", o) \in network
             /\ ApplyProviderStatus(o, Latest(o), {Message("webhook", o)})
    <3>1. /\ {Message("webhook", o)} \subseteq network
          /\ {Message("webhook", o)} \in {{Message("webhook", o)},
                      {Message("webhook of a rejected attempt", o)}}
      BY <2>1
    <3>2. QED
      BY ONLY <2>1, <3>1, Zenon
  <2>2. CASE /\ Message("webhook of a rejected attempt", o) \in network
             /\ ApplyProviderStatus(o, "REJECTED",
                   {Message("webhook of a rejected attempt", o)})
    <3>1. /\ {Message("webhook of a rejected attempt", o)} \subseteq network
          /\ {Message("webhook of a rejected attempt", o)}
               \in {{Message("webhook", o)},
                    {Message("webhook of a rejected attempt", o)}}
      BY <2>2
    <3>2. QED
      BY ONLY <2>2, <3>1, Zenon
  <2>3. QED
    BY <2>1, <2>2 DEF ProcessWebhook
<1>3. QED
  BY <1>1, <1>2, StatusApplied

LEMMA StatusSynchronised ==
  ASSUME Typed, NEW o \in Orders, SagaInv(o), SyncPaymentStatus(o)
  PROVE  Good(o)
<1>1. PICK taken, status :
        /\ status = Latest(o) /\ taken = {} /\ ApplyProviderStatus(o, status, taken)
        /\ UNCHANGED <<session, orders, reads, reservations, provider, byHand>>
  BY DEF SyncPaymentStatus
<1>2. /\ taken \subseteq network
      /\ taken \in {{}, {Message("webhook", o)},
                    {Message("webhook of a rejected attempt", o)}}
  BY <1>1
<1>3. QED
  BY ONLY Typed, SagaInv(o), o \in Orders, <1>1, <1>2, StatusApplied

-----------------------------------------------------------------------------
(* The invariant                                                           *)

LEMMA StepIsGood ==
  ASSUME SagaAssumption, IInv, NEW o \in Orders,
         Service(o) \/ Surroundings(o) \/ SyncPaymentStatus(o)
  PROVE  Good(o)
<1>1. Typed /\ SagaInv(o)
  BY DEF IInv
<1>2. CASE \/ OpenSession(o)
           \/ \E status \in AdminStatuses : UpdateOrderStatus(o, status)
  BY <1>1, <1>2, PlainWrites
<1>3. CASE \/ CheckOut(o) \/ StockTimeout(o) \/ PaymentReply(o)
           \/ PaymentTimeout(o) \/ StockReply(o) \/ SessionRestarts(o)
           \/ DropReply(o, "stock reply", "stock")
           \/ DropReply(o, "payment reply", "payment")
  BY <1>1, <1>3, WaitingSteps
<1>4. CASE \/ \E kind \in Events : ReceiveEvent(o, kind)
           \/ \E t \in reads : t.order = o /\ RollBack(t)
           \/ GiveUp(o) \/ MissWebhook(o)
           \/ \E status \in {"PENDING", "REJECTED", "APPROVED"} :
                PayerActs(o, status)
  BY <1>1, <1>4, MessageSteps
<1>5. CASE \E t \in reads : /\ t.order = o
                            /\ \/ HandleEvent(t) \/ MarkOrderPaymentPending(t)
                               \/ FailCheckoutSession(t)
  BY <1>1, <1>5, TransactionSteps
<1>6. CASE ReserveStock(o) \/ ConfirmStockReservation(o) \/ ReleaseStockReservation(o)
  BY <1>1, <1>6, StockSteps
<1>7. CASE ProcessPayment(o, "request_payment") \/ ProcessPayment(o, "request_payment rpc")
  BY <1>1, <1>7, PaymentRequested
<1>8. CASE ProcessWebhook(o)
  BY <1>1, <1>8, WebhookProcessed
<1>9. CASE SyncPaymentStatus(o)
  BY <1>1, <1>9, StatusSynchronised
<1>10. QED
  BY <1>2, <1>3, <1>4, <1>5, <1>6, <1>7, <1>8, <1>9 DEF Service, Surroundings

(* Every step of an order keeps the invariant.                             *)
LEMMA SagaStep ==
  ASSUME SagaAssumption, IInv, NEW o \in Orders,
         Service(o) \/ Surroundings(o) \/ SyncPaymentStatus(o)
  PROVE  IInv'
<1>1. Good(o)
  BY StepIsGood
<1>2. ASSUME NEW p \in Orders
      PROVE  SagaInv(p)'
  <2>1. CASE p = o
    BY <1>1, <2>1 DEF Good
  <2>2. CASE p # o
    <3>1. p \in Orders \ {o} /\ SagaInv(p) /\ Others(o) /\ Apart(o)
      BY <1>1, <2>2 DEF Good, IInv
    <3>2. QED
      BY <3>1, OthersKeep
  <2>3. QED
    BY <2>1, <2>2
<1>3. QED
  BY <1>1, <1>2 DEF Good, IInv

LEMMA SagaStutters ==
  ASSUME IInv, UNCHANGED sagaVars
  PROVE  IInv'
<1>1. Typed'
  BY DEF IInv, Typed, sagaVars
<1>2. ASSUME NEW o \in Orders
      PROVE  SagaInv(o)'
  <2>1. SagaInv(o)
    BY DEF IInv
  <2>2. UNCHANGED <<orders, reads, reservations, payments, provider, network,
                    lost, past, byHand>>
    BY DEF sagaVars
  <2>3. \A k : (Underway(k, o)' <=> Underway(k, o)) /\ (Owed(k, o)' <=> Owed(k, o))
    BY <2>2 DEF Underway, Owed
  <2>4. Passes(o)
    BY <2>3 DEF Passes
  <2>5. QED
    BY <2>1, <2>2, <2>4, PassingKeeps
<1>3. QED
  BY <1>1, <1>2 DEF IInv

LEMMA InitIInv == SagaInit => IInv
<1>1. SUFFICES ASSUME SagaInit PROVE IInv
  OBVIOUS
<1>2. Typed
  BY <1>1 DEF SagaInit, Typed, OrderStatuses, PaymentStatuses
<1>3. ASSUME NEW o \in Orders
      PROVE  SagaInv(o)
  <2>1. /\ orders[o] = "none" /\ payments[o] = "none" /\ reads = {} /\ network = {}
    BY <1>1 DEF SagaInit
  <2>2. QED
    BY <2>1 DEF SagaInv, Own, Told, Confirmed, Cancelled, Open, Underway
<1>4. QED
  BY <1>2, <1>3 DEF IInv

LEMMA SagaInvariance == SagaSpec => []IInv
<1>1. ASSUME IInv, [SagaNext]_sagaVars
      PROVE  IInv'
  <2>1. CASE UNCHANGED sagaVars
    BY <1>1, <2>1, SagaStutters
  <2>2. CASE SagaNext
    BY <1>1, <2>2, SagaStep, SagaAssumption DEF SagaNext
  <2>3. QED
    BY <1>1, <2>1, <2>2
<1>2. QED
  BY InitIInv, <1>1, PTL DEF SagaSpec

(* Whatever crashes, overlaps and comes late, what the status of an order  *)
(* asks of inventory-service and payment-service is done, on its way, or   *)
(* lost; nobody confirms without an approved payment or cancels without a  *)
(* cause.  What an administrator decides, who tells nobody, is excepted by *)
(* the statement, and so is a payment decided after its order was          *)
(* cancelled, of which ApprovedConfirms shows that it does not hold        *)
(* (order-message-handler.service.ts, the handlers of order.service.ts,    *)
(* payment.service.ts, inventory.service.ts).                              *)
THEOREM DisagreementsAreCarried == SagaSpec => []DebtsAreCarried
<1>1. IInv => DebtsAreCarried
  <2>1. SUFFICES ASSUME IInv, NEW o \in Orders
                 PROVE  /\ orders[o] = "CONFIRMED" /\ ~byHand[o] =>
                             /\ reservations[o] = "CONFIRMED" \/ Owed("confirm_stock", o)
                             /\ payments[o] = "APPROVED" \/ "rejected" \in past[o]
                        /\ orders[o] = "CANCELLED" /\ ~byHand[o] =>
                             /\ reservations[o] \notin {"PENDING", "CONFIRMED"}
                                  \/ Owed("release_stock", o)
                             /\ \/ reservations[o] = "FAILED"
                                \/ past[o] \cap {"rejected", "gave up"} # {}
                        /\ ~IsTerminalOrder(orders[o])
                           /\ past[o] \cap {"by hand", "overwritten"} = {} =>
                             /\ payments[o] = "APPROVED" => Owed("payment_succeeded", o)
                             /\ payments[o] = "REJECTED" => Owed("payment_failed", o)
    BY DEF DebtsAreCarried
  <2>2. SagaInv(o)
    BY <2>1 DEF IInv
  <2>3. QED
    BY <2>2 DEF SagaInv, Confirmed, Cancelled, Open
<1>2. QED
  BY SagaInvariance, <1>1, PTL

-----------------------------------------------------------------------------
(* The pages                                                               *)

(* Who changes an order that is settled leaves a trace, and no trace is    *)
(* removed.                                                                *)
LEMMA SettledStays ==
  ASSUME SagaAssumption, IInv, NEW o \in Orders,
         Service(o) \/ Surroundings(o) \/ SyncPaymentStatus(o),
         NEW p \in Orders
  PROVE  /\ IsFinal(orders[p]) => orders'[p] = orders[p] \/ Reopened(p)'
         /\ Reopened(p) => Reopened(p)'
<1>1. Typed /\ SagaInv(o)
  BY DEF IInv
<1>2. CASE p # o
  <2>1. orders'[p] = orders[p] /\ past'[p] = past[p]
    BY <1>2, StepIsGood DEF Good, Others
  <2>2. QED
    BY <2>1 DEF Reopened
<1>3. CASE p = o /\ orders' = orders /\ past[o] \subseteq past'[o]
  BY <1>3 DEF Reopened
<1>4. CASE p = o /\ OpenSession(o)
  <2>1. past' = past /\ (orders[o] # "none" => orders'[o] = orders[o])
    BY <1>1, <1>4 DEF OpenSession, Typed
  <2>2. QED
    BY <1>4, <2>1 DEF Reopened, IsFinal
<1>5. CASE p = o /\ \E status \in AdminStatuses : UpdateOrderStatus(o, status)
  <2>1. past' = [past EXCEPT ![o] = @ \cup {"by hand"}]
    BY <1>5 DEF UpdateOrderStatus, Noted
  <2>2. past[o] \subseteq past'[o] /\ "by hand" \in past'[o]
    BY <1>1, <2>1 DEF Typed
  <2>3. QED
    BY <1>5, <2>2 DEF Reopened
<1>6. ASSUME p = o, NEW t, t.order = o,
             HandleEvent(t) \/ MarkOrderPaymentPending(t) \/ FailCheckoutSession(t)
      PROVE  /\ IsFinal(orders[o]) => orders'[o] = orders[o] \/ Reopened(o)'
             /\ Reopened(o) => Reopened(o)'
  <2>1. Commit(t) /\ t.kind \in Kinds
    BY <1>6 DEF HandleEvent, MarkOrderPaymentPending, FailCheckoutSession, Kinds
  <2>2. LeadsTo(t.kind) \in {"PAYMENT_PENDING", "CONFIRMED", "CANCELLED"}
    BY <2>1 DEF LeadsTo, Kinds, Events
  <2>3. /\ orders'[o] = LeadsTo(t.kind) /\ past[o] \subseteq past'[o]
        /\ IsTerminalOrder(orders[o]) /\ orders[o] # LeadsTo(t.kind)
             => "overwritten" \in past'[o]
    BY <1>1, <1>6, <2>1, <2>2, CommitWrites
  <2>4. IsFinal(orders[o]) => IsTerminalOrder(orders[o]) \/ "by hand" \in past[o]
    BY <1>1 DEF IsFinal, IsTerminalOrder, SagaInv, Own
  <2>5. QED
    BY <2>3, <2>4 DEF Reopened
<1>7. ASSUME p = o, NEW status, SetPayment(o, status)
      PROVE  past[o] \subseteq past'[o]
  <2>1. PICK w : past' = [past EXCEPT ![o] = @ \cup w]
    BY <1>7 DEF SetPayment, Noted
  <2>2. QED
    BY <1>1, <2>1 DEF Typed
<1>8. CASE p = o /\ \/ ProcessPayment(o, "request_payment")
                    \/ ProcessPayment(o, "request_payment rpc")
  <2>1. orders' = orders /\ (past' = past \/ \E status : SetPayment(o, status))
    BY <1>8 DEF ProcessPayment
  <2>2. QED
    BY <1>3, <1>7, <1>8, <2>1
<1>9. CASE p = o /\ (ProcessWebhook(o) \/ SyncPaymentStatus(o))
  <2>1. orders' = orders /\ \E status : SetPayment(o, status)
    BY <1>9 DEF ProcessWebhook, SyncPaymentStatus, ApplyProviderStatus
  <2>2. QED
    BY <1>3, <1>7, <1>9, <2>1
<1>10. CASE p = o /\ \/ CheckOut(o) \/ StockTimeout(o) \/ PaymentReply(o)
                     \/ PaymentTimeout(o) \/ StockReply(o) \/ SessionRestarts(o)
                     \/ DropReply(o, "stock reply", "stock")
                     \/ DropReply(o, "payment reply", "payment")
                     \/ GiveUp(o) \/ MissWebhook(o) \/ ReserveStock(o)
                     \/ ConfirmStockReservation(o) \/ ReleaseStockReservation(o)
  <2>1. orders' = orders /\ past' = past
    BY <1>10 DEF CheckOut, StockTimeout, PaymentReply, PaymentTimeout, StockReply,
       SessionRestarts, DropReply, GiveUp, MissWebhook, ReserveStock,
       ConfirmStockReservation, ReleaseStockReservation
  <2>2. QED
    BY <1>3, <1>10, <2>1
<1>11. CASE p = o /\ \/ \E kind \in Events : ReceiveEvent(o, kind)
                     \/ \E t \in reads : t.order = o /\ RollBack(t)
                     \/ \E status \in {"PENDING", "REJECTED", "APPROVED"} :
                          PayerActs(o, status)
  <2>1. orders' = orders /\ past' = past
    BY <1>11 DEF ReceiveEvent, RollBack, PayerActs
  <2>2. QED
    BY <1>3, <1>11, <2>1
<1>12. QED
  BY <1>2, <1>4, <1>5, <1>6, <1>8, <1>9, <1>10, <1>11 DEF Service, Surroundings

(* The type of what a page shows and awaits, and what is true of it: a     *)
(* final status is the order's, unless the order was reopened since.       *)
PageTyped ==
  /\ shown \in [Orders -> OrderStatuses \cup {"none"}]
  /\ poll \in [Orders -> OrderStatuses \cup {"none", "idle", "asked"}]

Shown(o) ==
  /\ IsFinal(shown[o]) => shown[o] = orders[o] \/ Reopened(o)
  /\ IsFinal(poll[o]) => poll[o] = orders[o] \/ Reopened(o)

PageInv == PageTyped /\ \A o \in Orders : Shown(o)

(* The pages only ask: what they do to the saga is a synchronisation, or   *)
(* nothing.                                                                *)
LEMMA PageLeavesSaga ==
  ASSUME NEW o \in Orders, Browser(o) \/ Customer(o)
  PROVE  \/ SyncPaymentStatus(o) /\ UNCHANGED <<shown, poll>>
         \/ UNCHANGED sagaVars
<1>1. CASE Synchronise(o)
  BY <1>1 DEF Synchronise
<1>2. CASE Poll(o) \/ GetOrder(o) \/ SyncAnswered(o) \/ PollAnswered(o)
  BY <1>2 DEF Poll, GetOrder, SyncAnswered, PollAnswered
<1>3. CASE Customer(o)
  BY <1>3 DEF Customer, ReturnFromProvider, LeavePage, ViewOrder, PollFails, SyncFails
<1>4. QED
  BY <1>1, <1>2, <1>3 DEF Browser

(* A page changes what it shows or awaits to what it awaited, to the       *)
(* order's own status, or forgets it.                                      *)
LEMMA PageStep ==
  ASSUME IInv, PageInv, NEW o \in Orders, Browser(o) \/ Customer(o),
         UNCHANGED sagaVars
  PROVE  PageInv'
<1>0. /\ PageTyped /\ \A p \in Orders : Shown(p)
      /\ UNCHANGED <<orders, past>>
      /\ orders \in [Orders -> OrderStatuses \cup {"none"}]
  BY DEF PageInv, sagaVars, IInv, Typed
<1>1. CASE Poll(o) \/ GetOrder(o) \/ SyncAnswered(o)
  <2>1. /\ shown' = shown
        /\ \E v \in {"idle", "asked", orders[o]} : poll' = [poll EXCEPT ![o] = v]
    BY <1>1 DEF Poll, GetOrder, SyncAnswered
  <2>2. PageTyped'
    BY <1>0, <2>1 DEF PageTyped
  <2>3. \A p \in Orders : Shown(p)'
    BY <1>0, <2>1 DEF PageTyped, Shown, Reopened, IsFinal
  <2>4. QED
    BY <2>2, <2>3 DEF PageInv
<1>2. CASE PollAnswered(o)
  <2>1. /\ poll[o] \notin {"idle", "asked"}
        /\ poll' = [poll EXCEPT ![o] = "idle"]
        /\ shown' = [shown EXCEPT ![o] = poll[o]]
    BY <1>2 DEF PollAnswered
  <2>2. PageTyped'
    BY <1>0, <2>1 DEF PageTyped
  <2>3. \A p \in Orders : Shown(p)'
    BY <1>0, <2>1 DEF PageTyped, Shown, Reopened, IsFinal
  <2>4. QED
    BY <2>2, <2>3 DEF PageInv
<1>3. CASE Synchronise(o) \/ ViewOrder(o) \/ PollFails(o) \/ SyncFails(o)
           \/ ReturnFromProvider(o) \/ LeavePage(o)
  <2>1. /\ shown' = shown \/ shown' = [shown EXCEPT ![o] = "none"]
        /\ poll' = poll \/ poll' = [poll EXCEPT ![o] = "idle"]
    BY <1>3 DEF Synchronise, ViewOrder, PollFails, SyncFails, ReturnFromProvider,
       LeavePage
  <2>2. PageTyped'
    BY <1>0, <2>1 DEF PageTyped
  <2>3. \A p \in Orders : Shown(p)'
    BY <1>0, <2>1 DEF PageTyped, Shown, Reopened, IsFinal
  <2>4. QED
    BY <2>2, <2>3 DEF PageInv
<1>4. QED
  BY <1>1, <1>2, <1>3 DEF Browser, Customer

(* Every step of the services with the pages is one of the saga alone, or  *)
(* none: pages that poll and synchronise make nothing happen to an order   *)
(* that the services could not do without them (payments.controller.ts,    *)
(* checkout-hook.ts, account-hooks.ts).                                    *)
THEOREM PagesFollowTheSaga == Spec => SagaSpec
<1>1. ASSUME [Next]_vars
      PROVE  [SagaNext]_sagaVars
  <2>1. CASE UNCHANGED vars
    BY <2>1 DEF vars
  <2>2. ASSUME NEW o \in Orders, Service(o) \/ Surroundings(o)
        PROVE  SagaNext
    BY <2>2 DEF SagaNext
  <2>3. ASSUME NEW o \in Orders, Browser(o) \/ Customer(o)
        PROVE  [SagaNext]_sagaVars
    BY <2>3, PageLeavesSaga DEF SagaNext
  <2>4. QED
    BY <1>1, <2>1, <2>2, <2>3 DEF Next
<1>2. Init => SagaInit
  BY DEF Init
<1>3. QED
  BY <1>1, <1>2, PTL DEF Spec, SagaSpec

LEMMA PageInvariance == Spec => []PageInv
<1>1. Init => PageInv
  BY DEF Init, PageInv, PageTyped, Shown, IsFinal, OrderStatuses
<1>2. ASSUME IInv, PageInv, [Next]_vars
      PROVE  PageInv'
  <2>1. CASE UNCHANGED vars
    BY <1>2, <2>1 DEF vars, sagaVars, webVars, PageInv, PageTyped, Shown, Reopened
  <2>2. ASSUME NEW o \in Orders,
               Service(o) \/ Surroundings(o) \/ SyncPaymentStatus(o),
               UNCHANGED <<shown, poll>>
        PROVE  PageInv'
    <3>1. \A p \in Orders : /\ IsFinal(orders[p]) => orders'[p] = orders[p] \/ Reopened(p)'
                            /\ Reopened(p) => Reopened(p)'
      BY <1>2, <2>2, SettledStays, SagaAssumption
    <3>2. PageTyped /\ \A p \in Orders : Shown(p)
      BY <1>2 DEF PageInv
    <3>3. PageTyped'
      BY <2>2, <3>2 DEF PageTyped
    <3>4. ASSUME NEW p \in Orders
          PROVE  Shown(p)'
      <4>1. /\ IsFinal(orders[p]) => orders'[p] = orders[p] \/ Reopened(p)'
            /\ Reopened(p) => Reopened(p)'
            /\ shown'[p] = shown[p] /\ poll'[p] = poll[p]
        BY <2>2, <3>1
      <4>2. QED
        BY <3>2, <4>1 DEF Shown, IsFinal
    <3>5. QED
      BY <3>3, <3>4 DEF PageInv
  <2>3. ASSUME NEW o \in Orders, Browser(o) \/ Customer(o)
        PROVE  PageInv'
    BY <1>2, <2>2, <2>3, PageLeavesSaga, PageStep
  <2>4. QED
    BY <1>2, <2>1, <2>2, <2>3 DEF Next, webVars
<1>3. QED
  BY <1>1, <1>2, SagaInvariance, PagesFollowTheSaga, PTL DEF Spec

(* A page that stops asking shows the order's own status; where the order  *)
(* has another later, an administrator set one, or a handler that read it  *)
(* before it was settled overwrote it, and the page is not corrected       *)
(* (refetchInterval and TERMINAL_ORDER_STATUSES in account-hooks.ts,       *)
(* transitionStatus in order.service.ts).                                  *)
THEOREM WhatIsShownForGoodIsTrue == Spec => []ShownForGoodIsTrue
<1>1. PageInv => ShownForGoodIsTrue
  BY DEF PageInv, Shown, ShownForGoodIsTrue
<1>2. QED
  BY PageInvariance, <1>1, PTL
=============================================================================
