---------------------------- MODULE BrokerProofs ----------------------------
(***************************************************************************)
(* Proofs about messages and their copies, for every set of messages, of   *)
(* kinds of publication and of running subscriptions of the services, and  *)
(* every number of retries and stops.                                      *)
(***************************************************************************)
EXTENDS Broker, FiniteSetTheorems, TLAPS

-----------------------------------------------------------------------------
(* The cardinality of a finite bag                                         *)

(* A set that has 0 and with each number the next has all numbers: if k    *)
(* were missing, the numbers below it and their successors would be as     *)
(* many, yet 0 is no successor.                                            *)
LEMMA Induction ==
  ASSUME NEW T, 0 \in T, \A n \in Nat : n \in T => n + 1 \in T
  PROVE  Nat \subseteq T
<1> SUFFICES ASSUME NEW k \in Nat, k \notin T PROVE FALSE
  OBVIOUS
<1> DEFINE below == {i \in 0..k : i \in T}
           above == {i \in 1..k : i - 1 \in below}
           Next1 == [i \in below |-> i + 1]
<1>1. IsFiniteSet(below) /\ IsFiniteSet(above)
  <2>1. IsFiniteSet(0..k)
    BY FS_Interval
  <2>2. below \in SUBSET (0..k) /\ above \in SUBSET (0..k)
    OBVIOUS
  <2>3. QED
    BY ONLY <2>1, <2>2, FS_Subset
<1>2. \A i \in below : i + 1 \in above
  OBVIOUS
<1>3. above \subseteq below /\ 0 \in below /\ 0 \notin above
  OBVIOUS
<1>4. Next1 \in Injection(below, above)
  <2>1. Next1 \in [below -> above]
    BY <1>2
  <2>2. \A i, j \in below : Next1[i] = Next1[j] => i = j
    OBVIOUS
  <2> HIDE DEF below, above, Next1
  <2>3. QED
    BY <2>1, <2>2 DEF Injection, IsInjective
<1>5. Cardinality(below) <= Cardinality(above)
  BY ONLY <1>1, <1>4, FS_Injection
<1>6. Cardinality(above \cup {0}) = Cardinality(above) + 1
  BY ONLY <1>1, <1>3, FS_AddElement
<1>7. above \cup {0} \in SUBSET below
  BY <1>3
<1>8. Cardinality(above \cup {0}) <= Cardinality(below)
  BY ONLY <1>1, <1>7, FS_Subset
<1>9. Cardinality(above) \in Nat /\ Cardinality(below) \in Nat
  BY ONLY <1>1, FS_CardinalityType
<1> HIDE DEF below, above
<1>10. QED
  BY <1>5, <1>6, <1>8, <1>9

(* How Bags sums up a function f: g[S] is the sum over S.                  *)
Added(f, g, S) ==
  LET elt == CHOOSE e \in S : TRUE
  IN  IF S = {} THEN 0 ELSE f[elt] + g[S \ {elt}]

IsSum(f, g) == g = [S \in SUBSET DOMAIN f |-> Added(f, g, S)]

(* Such a g exists, defined for larger and larger sets.                    *)
LEMMA SumExists ==
  ASSUME NEW D, IsFiniteSet(D), NEW f \in [D -> Nat]
  PROVE  \E g \in [SUBSET D -> Nat] : IsSum(f, g)
<1> DEFINE Upto(n, g) == \A S \in SUBSET D : Cardinality(S) <= n => g[S] = Added(f, g, S)
           T == {n \in Nat : \E g \in [SUBSET D -> Nat] : Upto(n, g)}
<1>1. \A S \in SUBSET D : IsFiniteSet(S) /\ Cardinality(S) \in Nat
                          /\ Cardinality(S) <= Cardinality(D)
  BY FS_Subset, FS_CardinalityType
<1>2. ASSUME NEW S \in SUBSET D, S # {}
      PROVE  /\ (CHOOSE e \in S : TRUE) \in D
             /\ Cardinality(S \ {CHOOSE e \in S : TRUE}) = Cardinality(S) - 1
             /\ S \ {CHOOSE e \in S : TRUE} \in SUBSET D
  <2>1. PICK x : x = CHOOSE e \in S : TRUE
    OBVIOUS
  <2>2. x \in S
    BY <1>2, <2>1
  <2>3. Cardinality(S \ {x}) = Cardinality(S) - 1
    BY <1>1, <2>2, FS_RemoveElement
  <2>4. QED
    BY <2>1, <2>2, <2>3
<1>3. 0 \in T
  <2>1. [S \in SUBSET D |-> 0] \in [SUBSET D -> Nat]
    OBVIOUS
  <2>2. \A S \in SUBSET D : Cardinality(S) <= 0 => S = {}
    BY <1>1, FS_EmptySet
  <2>3. Upto(0, [S \in SUBSET D |-> 0])
    BY <2>2 DEF Added
  <2>4. QED
    BY <2>1, <2>3
<1>4. ASSUME NEW n \in Nat, n \in T PROVE n + 1 \in T
  <2>1. PICK g \in [SUBSET D -> Nat] : Upto(n, g)
    BY <1>4
  <2> DEFINE h == [S \in SUBSET D |-> Added(f, g, S)]
  <2>2. \A S \in SUBSET D : Added(f, g, S) \in Nat
    <3> SUFFICES ASSUME NEW S \in SUBSET D PROVE Added(f, g, S) \in Nat
      OBVIOUS
    <3>1. CASE S = {}
      BY <3>1 DEF Added
    <3>2. CASE S # {}
      <4>1. PICK x : x = CHOOSE e \in S : TRUE
        OBVIOUS
      <4>2. x \in D /\ S \ {x} \in SUBSET D
        BY <1>2, <3>2, <4>1
      <4>3. f[x] \in Nat /\ g[S \ {x}] \in Nat
        BY <4>2
      <4>4. Added(f, g, S) = f[x] + g[S \ {x}]
        BY <3>2, <4>1 DEF Added
      <4>5. QED
        BY <4>3, <4>4
    <3>3. QED
      BY <3>1, <3>2
  <2>3. h \in [SUBSET D -> Nat]
    BY <2>2
  <2>4. ASSUME NEW S \in SUBSET D, Cardinality(S) <= n + 1
        PROVE  h[S] = Added(f, h, S)
    <3>1. CASE S = {}
      BY <3>1 DEF Added
    <3>2. CASE S # {}
      <4>1. PICK R \in SUBSET D : R = S \ {CHOOSE e \in S : TRUE}
        BY <1>2, <3>2
      <4>2. Cardinality(R) <= n
        BY <1>1, <1>2, <2>4, <3>2, <4>1
      <4>3. h[R] = g[R]
        BY <2>1, <4>2
      <4>4. QED
        BY <3>2, <4>1, <4>3 DEF Added
    <3>3. QED
      BY <3>1, <3>2
  <2>5. Upto(n + 1, h)
    BY <2>4
  <2> HIDE DEF h
  <2>6. QED
    BY <2>3, <2>5
<1>5. Nat \subseteq T
  <2> HIDE DEF T
  <2>1. QED
    BY <1>3, <1>4, Induction
<1>6. PICK g \in [SUBSET D -> Nat] : Upto(Cardinality(D), g)
  BY <1>1, <1>5
<1>7. IsSum(f, g)
  BY <1>1, <1>6 DEF IsSum
<1>8. QED
  BY <1>7

(* Whatever g is, it is a sum of natural numbers.                          *)
LEMMA SumIsNatural ==
  ASSUME NEW D, IsFiniteSet(D), NEW f \in [D -> Nat], NEW g, IsSum(f, g)
  PROVE  /\ g[{}] = 0
         /\ \A S \in SUBSET D :
              /\ g[S] \in Nat
              /\ \A e \in S : e = (CHOOSE x \in S : TRUE) => g[S] = f[e] + g[S \ {e}]
<1> DEFINE T == {n \in Nat : \A S \in SUBSET D : Cardinality(S) = n => g[S] \in Nat}
<1>1. \A S \in SUBSET D : IsFiniteSet(S) /\ Cardinality(S) \in Nat
  BY FS_Subset, FS_CardinalityType
<1>2. \A S \in SUBSET D : g[S] = Added(f, g, S)
  BY DEF IsSum
<1>3. g[{}] = 0
  BY <1>2 DEF Added
<1>4. 0 \in T
  BY <1>1, <1>3, FS_EmptySet
<1>5. ASSUME NEW n \in Nat, n \in T PROVE n + 1 \in T
  <2> SUFFICES ASSUME NEW S \in SUBSET D, Cardinality(S) = n + 1
               PROVE  g[S] \in Nat
    OBVIOUS
  <2>1. S # {}
    BY FS_EmptySet
  <2>2. PICK x : x = CHOOSE e \in S : TRUE
    OBVIOUS
  <2>3. x \in S
    BY <2>1, <2>2
  <2>4. Cardinality(S \ {x}) = n
    BY <1>1, <2>3, FS_RemoveElement
  <2>5. g[S \ {x}] \in Nat
    BY <1>5, <2>4
  <2>6. g[S] = f[x] + g[S \ {x}]
    BY <1>2, <2>1, <2>2 DEF Added
  <2>7. QED
    BY <2>3, <2>5, <2>6
<1>6. Nat \subseteq T
  <2> HIDE DEF T
  <2>1. QED
    BY <1>4, <1>5, Induction
<1>7. \A S \in SUBSET D : g[S] \in Nat
  BY <1>1, <1>6
<1>8. \A S \in SUBSET D : \A e \in S :
        e = (CHOOSE x \in S : TRUE) => g[S] = f[e] + g[S \ {e}]
  BY <1>2 DEF Added
<1>9. QED
  BY <1>3, <1>7, <1>8

LEMMA BagSums ==
  ASSUME NEW f
  PROVE  BagCardinality(f) = (CHOOSE g : IsSum(f, g))[DOMAIN f]
BY DEF BagCardinality, IsSum, Added

(* What the proofs use of BagCardinality.                                  *)
LEMMA BagFacts ==
  ASSUME NEW D, IsFiniteSet(D), NEW f \in [D -> Nat \ {0}]
  PROVE  /\ BagCardinality(f) \in Nat
         /\ D = {} => BagCardinality(f) = 0
         /\ D # {} => BagCardinality(f) >= 1
         /\ \A c : D = {c} => BagCardinality(f) = f[c]
<1>0. f \in [D -> Nat] /\ DOMAIN f = D
  OBVIOUS
<1>1. PICK g : g = CHOOSE h : IsSum(f, h)
  OBVIOUS
<1>2. IsSum(f, g)
  BY <1>0, <1>1, SumExists
<1>3. BagCardinality(f) = g[D]
  BY <1>0, <1>1, BagSums
<1>4. /\ g[{}] = 0
      /\ \A S \in SUBSET D :
           /\ g[S] \in Nat
           /\ \A e \in S : e = (CHOOSE x \in S : TRUE) => g[S] = f[e] + g[S \ {e}]
  BY ONLY <1>0, <1>2, SumIsNatural, IsFiniteSet(D)
<1>5. D # {} => \E e \in D : g[D] = f[e] + g[D \ {e}]
  <2>1. D # {} => (CHOOSE x \in D : TRUE) \in D
    OBVIOUS
  <2>2. D \in SUBSET D
    OBVIOUS
  <2>3. QED
    BY ONLY <1>4, <2>1, <2>2
<1>6. ASSUME D # {} PROVE g[D] >= 1
  <2>1. PICK e \in D : g[D] = f[e] + g[D \ {e}]
    BY <1>5, <1>6
  <2>2. D \ {e} \in SUBSET D
    OBVIOUS
  <2>3. f[e] \in Nat \ {0} /\ g[D \ {e}] \in Nat
    BY <1>4, <2>2
  <2>4. QED
    BY <2>1, <2>3
<1>7. ASSUME NEW c, D = {c} PROVE g[D] = f[c]
  <2>1. D \ {c} = {} /\ \A e \in D : e = c
    BY <1>7
  <2>2. g[D] = f[c] + g[{}]
    BY <1>5, <1>7, <2>1
  <2>3. QED
    BY <1>4, <1>7, <2>2
<1>8. QED
  BY <1>3, <1>4, <1>6, <1>7

-----------------------------------------------------------------------------
(* The inductive invariant                                                 *)

Pcs   == {"ready", "running", "handled", "failed", "replied", "republished",
          "delayed"}
Tally == [handled : Nat, failed : Nat, spoilt : Nat, acked : Nat, dead : Nat,
          dropped : Nat]
Answers == {"resolved", "rejected"}

Typed ==
  /\ kind \in [Messages -> Kinds]
  /\ declared \subseteq Active /\ consuming \subseteq declared
  /\ targets \in [Messages -> (SUBSET Queues) \cup {NotSent}]
  /\ copies \in [Live -> Nat \ {0}] /\ IsFiniteSet(Live)
  /\ calls \in [Messages -> {"none", "pending", "timed out", "closed"} \cup Answers]
  /\ replies \in [Messages -> Seq(Answers)]
  /\ tally \in [Messages -> [Queues -> Tally]]

(* A queue whose consumers have no retry queue.                            *)
RetryFree(q) == \E x \in Active : x.queue = q /\ x.retryKey = None

Copies == [msg : Messages, queue : Queues, retries : 0..MAX_RETRY_ATTEMPTS,
           pc : Pcs, by : Active \cup {Nobody}]

CopyInv(c) ==
  /\ c \in Copies
  /\ c.queue \in targets[c.msg]
  /\ c.pc = "ready" <=> c.by = Nobody
  /\ c.by # Nobody => c.by \in declared /\ c.by.queue = c.queue
  /\ RetryFree(c.queue) => c.retries = 0
  /\ c.pc = "delayed" => c.by.retryKey # None
  /\ c.pc = "handled" => tally[c.msg][c.queue].handled > 0
  /\ c.pc = "failed" => tally[c.msg][c.queue].failed > 0

(* The copies that Pending counts.                                         *)
Awaiting(m, q) == {c \in Live : c.msg = m /\ c.queue = q /\ c.pc # "republished"}

Attempts(q) == IF RetryFree(q) THEN 1 ELSE MAX_RETRY_ATTEMPTS + 1

(* What the tally t says of the only copy c of a message.                  *)
CallTold(c, t) ==
  \/ c.pc \in {"ready", "running"} /\ t.handled = 0 /\ t.failed = 0
  \/ c.pc \in {"handled", "failed", "replied"} /\ t.handled + t.failed = 1

EventTold(c, t) ==
  \/ c.pc \in {"ready", "running", "delayed"} /\ t.handled = 0 /\ t.failed = c.retries
  \/ c.pc = "handled" /\ t.handled = 1 /\ t.failed = c.retries
  \/ c.pc = "failed" /\ t.handled = 0 /\ t.failed = c.retries + 1

(* What it says of a message that has ended.                               *)
CallEnded(t) == t.acked = 1 /\ t.handled + t.failed = 1

EventEnded(t, q) ==
  \/ t.acked = 1 /\ t.dead + t.dropped = 0 /\ t.handled = 1 /\ t.failed + 1 <= Attempts(q)
  \/ t.acked = 0 /\ t.dead + t.dropped = 1 /\ t.handled = 0 /\ t.failed = Attempts(q)

(* A message that no stop has found handled and not acknowledged is in one *)
(* copy, or has ended.                                                     *)
OneCopy(m, q) ==
  /\ Ended(m, q) = 0
  /\ \E c \in Live : /\ Awaiting(m, q) = {c} /\ copies[c] = 1
                     /\ IF kind[m].call THEN CallTold(c, tally[m][q])
                                        ELSE EventTold(c, tally[m][q])

OneEnd(m, q) ==
  /\ Ended(m, q) = 1 /\ Awaiting(m, q) = {}
  /\ IF kind[m].call THEN CallEnded(tally[m][q]) ELSE EventEnded(tally[m][q], q)

(* A message in a queue it was routed to, and in the others.               *)
SlotInv(m, q) ==
  /\ q \in targets[m] => Awaiting(m, q) # {} \/ Ended(m, q) > 0
  /\ q \in targets[m] /\ <<m, q>> \notin cut => OneCopy(m, q) \/ OneEnd(m, q)
  /\ q \notin targets[m] => tally[m][q] = NoTally

(* Only an attempt that failed can have spoilt something, and only where   *)
(* something follows the handler's COMMIT.                                 *)
SpoiltTold(m, q, t) ==
  /\ t.spoilt <= t.failed
  /\ CommitIsLast(q, kind[m].type) => t.spoilt = 0

(* An answer on its way, or heard, is of a handler that ended so.          *)
Served(m)  == \E q \in targets[m] : q \in Queues /\ tally[m][q].handled > 0
Spoiled(m) == kind[m].call /\ \E q \in targets[m] : q \in Queues /\ tally[m][q].failed > 0

AnswerInv(m) ==
  /\ calls[m] = "resolved" => Served(m)
  /\ calls[m] = "rejected" => Spoiled(m)
  /\ \A i \in DOMAIN replies[m] :
       /\ replies[m][i] = "resolved" => Served(m)
       /\ replies[m][i] = "rejected" => Spoiled(m)

IInv == /\ Typed
        /\ \A c \in Live : CopyInv(c)
        /\ \A m \in Messages : \A q \in Queues : SlotInv(m, q)
        /\ \A m \in Messages : \A q \in Queues : SpoiltTold(m, q, tally[m][q])
        /\ \A m \in Messages : AnswerInv(m)

-----------------------------------------------------------------------------
(* Subscriptions                                                           *)

(* The queues whose subscriptions have no retry key, and the subscription  *)
(* that has a given one.                                                   *)
FreeQueues == {"auth.commands", "catalog.commands", "user.events", "user.commands"}

RetryNames == {"cart.command.retry", "inventory.command.retry", "order.command.retry",
               "order.inventory_event.retry", "order.payment_event.retry",
               "payment.command.retry", "notification.auth_event.retry",
               "notification.order_event.retry", "notification.payment_event.retry"}

RetryOwner(key) ==
  IF key = "cart.command.retry" THEN CartCommands
  ELSE IF key = "inventory.command.retry" THEN InventoryCommands
  ELSE IF key = "order.command.retry" THEN OrderCommands
  ELSE IF key = "order.inventory_event.retry" THEN OrderInventoryEvents
  ELSE IF key = "order.payment_event.retry" THEN OrderPaymentEvents
  ELSE IF key = "payment.command.retry" THEN PaymentCommands
  ELSE IF key = "notification.auth_event.retry" THEN NotificationAuthEvents
  ELSE IF key = "notification.order_event.retry" THEN NotificationOrderEvents
  ELSE NotificationPaymentEvents

Declares(x) ==
  /\ x.queue \notin {None, "not published"}
  /\ x.retryKey = None <=> x.queue \in FreeQueues
  /\ x.retryKey # None => x.retryKey \in RetryNames /\ x = RetryOwner(x.retryKey)
  /\ x.keys \cap RetryNames = {}

LEMMA AllDeclare ==
  ASSUME NEW x \in Subscriptions
  PROVE  Declares(x)
<1>1. CASE x = AuthCommands
  BY <1>1 DEF Declares, RetryOwner, FreeQueues, RetryNames, AuthCommands, AuthTypes, Subscription, None
<1>2. CASE x = CatalogCommands
  BY <1>2 DEF Declares, RetryOwner, FreeQueues, RetryNames, CatalogCommands, CatalogTypes, Subscription, None
<1>3. CASE x = UserEvents
  BY <1>3 DEF Declares, RetryOwner, FreeQueues, RetryNames, UserEvents, Subscription, None
<1>4. CASE x = UserCommands
  BY <1>4 DEF Declares, RetryOwner, FreeQueues, RetryNames, UserCommands, UserTypes, Subscription, None
<1>5. CASE x = CartCommands
  BY <1>5 DEF Declares, RetryOwner, FreeQueues, RetryNames, CartCommands, CartTypes, Subscription, None
<1>6. CASE x = InventoryCommands
  BY <1>6 DEF Declares, RetryOwner, FreeQueues, RetryNames, InventoryCommands, InventoryTypes, Subscription, None
<1>7. CASE x = OrderCommands
  BY <1>7 DEF Declares, RetryOwner, FreeQueues, RetryNames, OrderCommands, OrderTypes, OrderRetry, Subscription, None
<1>8. CASE x = OrderInventoryEvents
  BY <1>8 DEF Declares, RetryOwner, FreeQueues, RetryNames, OrderInventoryEvents, ReservationTypes, OrderRetry, Subscription, None
<1>9. CASE x = OrderPaymentEvents
  BY <1>9 DEF Declares, RetryOwner, FreeQueues, RetryNames, OrderPaymentEvents, PaymentOutcomes, OrderRetry, Subscription, None
<1>10. CASE x = PaymentCommands
  BY <1>10 DEF Declares, RetryOwner, FreeQueues, RetryNames, PaymentCommands, PaymentTypes, Subscription, None
<1>11. CASE x = NotificationAuthEvents
  BY <1>11 DEF Declares, RetryOwner, FreeQueues, RetryNames, NotificationAuthEvents, NotificationSubscription, NotificationTypes, Subscription, None
<1>12. CASE x = NotificationOrderEvents
  BY <1>12 DEF Declares, RetryOwner, FreeQueues, RetryNames, NotificationOrderEvents, NotificationSubscription, NotificationTypes, Subscription, None
<1>13. CASE x = NotificationPaymentEvents
  BY <1>13 DEF Declares, RetryOwner, FreeQueues, RetryNames, NotificationPaymentEvents, NotificationSubscription, NotificationTypes, Subscription, None
<1>14. QED
  BY <1>1, <1>2, <1>3, <1>4, <1>5, <1>6, <1>7, <1>8, <1>9, <1>10, <1>11, <1>12, <1>13 DEF Subscriptions

(* A retry key belongs to one subscription and is no message's type, and   *)
(* the subscriptions of a queue all have retry keys or have none.          *)
LEMMA RetryKeys ==
  ASSUME NEW x \in Subscriptions, NEW y \in Subscriptions
  PROVE  /\ x.retryKey # None /\ x.retryKey \in BoundKeys(y) => x = y
         /\ x.retryKey # None /\ x.retryKey = y.retryKey => x = y
         /\ x.queue = y.queue => (x.retryKey = None <=> y.retryKey = None)
BY AllDeclare DEF Declares, BoundKeys

LEMMA QueueNames ==
  /\ None \notin Queues /\ Queues \cap NotSent = {} /\ Nobody \notin Active
<1>1. \A x \in Active : Declares(x)
  BY AllDeclare, BrokerAssumption
<1>2. Nobody.queue = None
  BY DEF Nobody, Subscription
<1>3. QED
  BY <1>1, <1>2 DEF Queues, NotSent, Declares

(* A retry puts the message into the retry queue of the subscription that  *)
(* failed, and its delay brings it back to that subscription's queue.      *)
LEMMA RetryReturns ==
  ASSUME declared \subseteq Active, NEW x \in declared, x.retryKey # None
  PROVE  /\ RetryQueues(x) = {x}
         /\ Routed(declared, x.exchange, x.retryKey) = {x.queue}
         /\ ~RetryFree(x.queue)
<1>1. Active \subseteq Subscriptions
  BY BrokerAssumption
<1>2. \A y \in declared : x.retryKey \in BoundKeys(y) => x = y
  BY <1>1, RetryKeys
<1>3. x.retryKey \in BoundKeys(x)
  BY DEF BoundKeys
<1>4. RetryQueues(x) = {x}
  BY <1>1, RetryKeys DEF RetryQueues
<1>5. Routed(declared, x.exchange, x.retryKey) = {x.queue}
  BY <1>2, <1>3 DEF Routed
<1>6. ~RetryFree(x.queue)
  BY <1>1, RetryKeys DEF RetryFree
<1>7. QED
  BY <1>4, <1>5, <1>6

LEMMA FiniteQueues ==
  IsFiniteSet(Queues)
<1> DEFINE queueOf == [x \in Active |-> x.queue]
<1>1. ASSUME NEW a, NEW b, NEW c PROVE IsFiniteSet({a, b, c})
  <2>1. {a, b, c} = ({a} \cup {b}) \cup {c}
    OBVIOUS
  <2>2. IsFiniteSet(({a} \cup {b}) \cup {c})
    BY FS_Singleton, FS_AddElement
  <2>3. QED
    BY <2>1, <2>2
<1>2. IsFiniteSet(Subscriptions)
  <2> DEFINE A == {AuthCommands, CatalogCommands, UserEvents}
             B == {UserCommands, CartCommands, InventoryCommands}
             C == {OrderCommands, OrderInventoryEvents, OrderPaymentEvents}
             D == {PaymentCommands, NotificationAuthEvents, NotificationOrderEvents}
  <2>1. IsFiniteSet(A) /\ IsFiniteSet(B) /\ IsFiniteSet(C) /\ IsFiniteSet(D)
    BY <1>1
  <2>2. Subscriptions = (((A \cup B) \cup C) \cup D) \cup {NotificationPaymentEvents}
    BY DEF Subscriptions
  <2> HIDE DEF A, B, C, D
  <2>3. IsFiniteSet(A \cup B)
    BY ONLY <2>1, FS_Union
  <2>4. IsFiniteSet((A \cup B) \cup C)
    BY ONLY <2>1, <2>3, FS_Union
  <2>5. IsFiniteSet(((A \cup B) \cup C) \cup D)
    BY ONLY <2>1, <2>4, FS_Union
  <2>6. QED
    BY ONLY <2>2, <2>5, FS_AddElement
<1>3. IsFiniteSet(Active)
  BY <1>2, FS_Subset, BrokerAssumption
<1>4. queueOf \in Surjection(Active, Queues)
  BY DEF Surjection, Queues
<1>5. QED
  BY ONLY <1>3, <1>4, FS_Surjection

-----------------------------------------------------------------------------
(* The bag of copies                                                       *)

(* What Replace(c, S) does to the bag.                                     *)
Swapped(c, S) ==
  /\ copies' \in [Live' -> Nat \ {0}] /\ IsFiniteSet(Live')
  /\ Live' \subseteq Live \cup S /\ S \subseteq Live' /\ Live \ {c} \subseteq Live'
  /\ copies[c] = 1 /\ c \notin S => c \notin Live'
  /\ \A d \in Live \ ({c} \cup S) : copies'[d] = copies[d]
  /\ \A d \in S \ Live : copies'[d] = 1

LEMMA ReplaceSwaps ==
  ASSUME Typed, NEW c \in Live, NEW S, IsFiniteSet(S), Replace(c, S)
  PROVE  Swapped(c, S)
<1> DEFINE one == SetToBag({c})
           less == copies (-) one
           more == SetToBag(S)
<1>1. copies \in [Live -> Nat \ {0}] /\ IsFiniteSet(Live)
  BY DEF Typed
<1>2. /\ DOMAIN less = {d \in Live : d = c => copies[c] > 1}
      /\ \A d \in DOMAIN less : less[d] = IF d = c THEN copies[c] - 1 ELSE copies[d]
  BY <1>1 DEF SetToBag, (-), Live, BagToSet
<1>3. \A d \in DOMAIN less : less[d] \in Nat \ {0}
  BY <1>1, <1>2
<1>4. DOMAIN more = S /\ \A d \in S : more[d] = 1
  BY DEF SetToBag
<1> HIDE DEF less, more
<1>5. /\ copies' = [e \in (DOMAIN less) \cup S |->
                      (IF e \in DOMAIN less THEN less[e] ELSE 0)
                      + (IF e \in S THEN more[e] ELSE 0)]
      /\ Live' = (DOMAIN less) \cup S
  <2>1. copies' = less (+) more
    BY DEF Replace, less, more
  <2>2. QED
    BY <2>1, <1>4 DEF (+), Live, BagToSet
<1>6. IsFiniteSet(Live')
  <2>1. DOMAIN less \in SUBSET Live
    BY <1>2
  <2>2. IsFiniteSet(DOMAIN less)
    BY ONLY <1>1, <2>1, FS_Subset
  <2>3. QED
    BY <1>5, <2>2, FS_Union
<1>7. copies' \in [Live' -> Nat \ {0}]
  <2>1. \A e \in (DOMAIN less) \cup S :
          (IF e \in DOMAIN less THEN less[e] ELSE 0)
            + (IF e \in S THEN more[e] ELSE 0) \in Nat \ {0}
    BY <1>3, <1>4
  <2>2. QED
    BY <1>5, <2>1
<1>8. QED
  BY <1>2, <1>4, <1>5, <1>6, <1>7, <1>1 DEF Swapped

-----------------------------------------------------------------------------
(* Steps of a consumer, or of the broker, for one copy                     *)

Ends(t) == t.acked + t.dead + t.dropped

(* The copy c is replaced by those in S, and its message's tally by t.     *)
CopyStep(c, S, t) ==
  /\ Swapped(c, S)
  /\ \A d \in S : d.msg = c.msg /\ d.queue = c.queue
  /\ t \in Tally
  /\ t.handled >= tally[c.msg][c.queue].handled
  /\ t.failed >= tally[c.msg][c.queue].failed
  /\ SpoiltTold(c.msg, c.queue, t)
  /\ tally' = [tally EXCEPT ![c.msg][c.queue] = t]
  /\ UNCHANGED <<kind, declared, consuming, targets, calls, cut>>

(* A copy that such a step makes is as CopyInv says.                       *)
NewCopy(d, t) ==
  /\ d \in Copies
  /\ d.pc = "ready" <=> d.by = Nobody
  /\ d.by # Nobody => d.by \in declared /\ d.by.queue = d.queue
  /\ RetryFree(d.queue) => d.retries = 0
  /\ d.pc = "delayed" => d.by.retryKey # None
  /\ d.pc = "handled" => t.handled > 0
  /\ d.pc = "failed" => t.failed > 0

Waiting(S) == {d \in S : d.pc # "republished"}

(* A copy that is told of by the tally goes on to be one that is, or its   *)
(* message has ended.                                                      *)
GoesOn(c, S, t0, t) ==
  \E d \in S :
    /\ Waiting(S) = {d} /\ d # c /\ Ends(t) = Ends(t0)
    /\ kind[c.msg].call /\ CallTold(c, t0) => CallTold(d, t)
    /\ ~kind[c.msg].call /\ EventTold(c, t0) => EventTold(d, t)

IsEnded(c, S, t0, t) ==
  /\ Waiting(S) = {} /\ Ends(t) = Ends(t0) + 1
  /\ kind[c.msg].call /\ CallTold(c, t0) /\ Ends(t0) = 0 => CallEnded(t)
  /\ ~kind[c.msg].call /\ EventTold(c, t0) /\ Ends(t0) = 0 => EventEnded(t, c.queue)

Moves(c, S, t) ==
  LET t0 == tally[c.msg][c.queue] IN
  IF c.pc = "republished" THEN S = {} /\ t = t0
  ELSE GoesOn(c, S, t0, t) \/ IsEnded(c, S, t0, t)

LEMMA TallyStep ==
  ASSUME IInv, NEW c \in Live, NEW S, NEW t, CopyStep(c, S, t)
  PROVE  /\ tally' \in [Messages -> [Queues -> Tally]]
         /\ c.msg \in Messages /\ c.queue \in Queues
         /\ tally'[c.msg][c.queue] = t
         /\ \A m \in Messages : \A q \in Queues :
              ~(m = c.msg /\ q = c.queue) => tally'[m][q] = tally[m][q]
<1>1. c.msg \in Messages /\ c.queue \in Queues
  BY DEF IInv, CopyInv, Copies
<1>2. tally \in [Messages -> [Queues -> Tally]] /\ t \in Tally
  BY DEF IInv, Typed, CopyStep
<1>3. tally' = [tally EXCEPT ![c.msg][c.queue] = t]
  BY DEF CopyStep
<1>4. QED
  BY ONLY <1>1, <1>2, <1>3

LEMMA TallyGrows ==
  ASSUME IInv, NEW c \in Live, NEW S, NEW t, CopyStep(c, S, t),
         NEW m \in Messages, NEW q \in Queues
  PROVE  /\ tally[m][q].handled > 0 => tally'[m][q].handled > 0
         /\ tally[m][q].failed > 0 => tally'[m][q].failed > 0
<1>1. tally[m][q] \in Tally /\ tally'[m][q] \in Tally
  <2>1. tally \in [Messages -> [Queues -> Tally]]
    BY DEF IInv, Typed
  <2>2. tally' \in [Messages -> [Queues -> Tally]]
    BY TallyStep
  <2>3. QED
    BY ONLY <2>1, <2>2, m \in Messages, q \in Queues
<1>2. t.handled >= tally[c.msg][c.queue].handled /\ t.failed >= tally[c.msg][c.queue].failed
  BY DEF CopyStep
<1>3. CASE m = c.msg /\ q = c.queue
  <2>1. tally'[m][q] = t
    BY <1>3, TallyStep
  <2>2. QED
    BY <1>1, <1>2, <1>3, <2>1 DEF Tally
<1>4. CASE ~(m = c.msg /\ q = c.queue)
  BY <1>4, TallyStep
<1>5. QED
  BY <1>3, <1>4

(* A message in a queue where nothing happens to it.                       *)
LEMMA SlotStays ==
  ASSUME IInv, NEW m \in Messages, NEW q \in Queues,
         Awaiting(m, q)' = Awaiting(m, q),
         \A d \in Awaiting(m, q) : copies'[d] = copies[d] /\ d \in Live',
         tally'[m][q] = tally[m][q],
         kind' = kind, targets'[m] = targets[m], <<m, q>> \in cut => <<m, q>> \in cut'
  PROVE  SlotInv(m, q)'
<1>1. Ended(m, q)' = Ended(m, q)
  BY DEF Ended
<1>2. SlotInv(m, q)
  BY DEF IInv
<1>3. OneEnd(m, q) => OneEnd(m, q)'
  BY <1>1 DEF OneEnd
<1>4. ASSUME OneCopy(m, q) PROVE OneCopy(m, q)'
  <2>1. PICK d \in Live : /\ Awaiting(m, q) = {d} /\ copies[d] = 1
                          /\ IF kind[m].call THEN CallTold(d, tally[m][q])
                                             ELSE EventTold(d, tally[m][q])
    BY <1>4 DEF OneCopy
  <2>2. copies'[d] = 1 /\ d \in Live'
    BY <2>1
  <2>3. Awaiting(m, q)' = {d} /\ (IF kind[m].call THEN CallTold(d, tally[m][q])
                                             ELSE EventTold(d, tally[m][q]))'
    BY <2>1 DEF CallTold, EventTold
  <2>4. Ended(m, q)' = 0
    BY <1>1, <1>4 DEF OneCopy
  <2>5. QED
    BY <2>2, <2>3, <2>4 DEF OneCopy
<1>5. QED
  BY <1>1, <1>2, <1>3, <1>4 DEF SlotInv

(* The other messages, and the same message in other queues.               *)
LEMMA OtherSlots ==
  ASSUME IInv, NEW c \in Live, NEW S, NEW t, CopyStep(c, S, t),
         NEW m \in Messages, NEW q \in Queues, ~(m = c.msg /\ q = c.queue)
  PROVE  SlotInv(m, q)'
<1>1. /\ Swapped(c, S) /\ \A d \in S : d.msg = c.msg /\ d.queue = c.queue
      /\ kind' = kind /\ targets' = targets /\ cut' = cut
  BY DEF CopyStep
<1>2. tally'[m][q] = tally[m][q]
  BY TallyStep
<1>3. Awaiting(m, q)' = Awaiting(m, q)
  BY <1>1 DEF Awaiting, Swapped
<1>4. \A d \in Awaiting(m, q) : copies'[d] = copies[d] /\ d \in Live'
  BY <1>1 DEF Awaiting, Swapped
<1>5. QED
  BY <1>1, <1>2, <1>3, <1>4, SlotStays

(* And the message itself.                                                 *)
LEMMA OwnSlot ==
  ASSUME IInv, NEW c \in Live, NEW S, NEW t, CopyStep(c, S, t), Moves(c, S, t)
  PROVE  SlotInv(c.msg, c.queue)'
<1>1. PICK m \in Messages : m = c.msg
  BY TallyStep
<1>2. PICK q \in Queues : q = c.queue
  BY TallyStep
<1>3. /\ Swapped(c, S) /\ \A d \in S : d.msg = m /\ d.queue = q
      /\ kind' = kind /\ targets' = targets /\ cut' = cut
  BY <1>1, <1>2 DEF CopyStep
<1>4. PICK t0 \in Tally : t0 = tally[m][q]
  BY DEF IInv, Typed
<1>5. tally'[m][q] = t /\ t \in Tally
  BY <1>1, <1>2, TallyStep, ZenonT(60) DEF CopyStep
<1>6. CASE c.pc = "republished"
  <2>1. S = {} /\ t = t0
    BY <1>1, <1>2, <1>4, <1>6 DEF Moves
  <2>2. Awaiting(m, q)' = Awaiting(m, q)
    BY <1>3, <1>6, <2>1 DEF Awaiting, Swapped
  <2>3. \A d \in Awaiting(m, q) : copies'[d] = copies[d] /\ d \in Live'
    BY <1>3, <1>6, <2>1 DEF Awaiting, Swapped
  <2>4. SlotInv(m, q)'
    BY <1>3, <1>4, <1>5, <2>1, <2>2, <2>3, SlotStays
  <2>5. QED
    BY <1>1, <1>2, <2>4
<1>7. CASE c.pc # "republished"
  <2>1. GoesOn(c, S, t0, t) \/ IsEnded(c, S, t0, t)
    BY <1>1, <1>2, <1>4, <1>7 DEF Moves
  <2>2. c \in Awaiting(m, q) /\ q \in targets'[m]
    BY <1>1, <1>2, <1>3, <1>7 DEF Awaiting, IInv, CopyInv
  <2>3. Ended(m, q)' = Ends(t) /\ Ended(m, q) = Ends(t0) /\ Ends(t0) \in Nat /\ Ends(t) \in Nat
    BY <1>4, <1>5 DEF Ended, Ends, Tally
  <2>4. Awaiting(m, q)' # {} \/ Ended(m, q)' > 0
    <3>1. CASE GoesOn(c, S, t0, t)
      BY <1>3, <3>1 DEF GoesOn, Waiting, Awaiting, Swapped
    <3>2. CASE IsEnded(c, S, t0, t)
      BY <2>3, <3>2 DEF IsEnded
    <3>3. QED
      BY <2>1, <3>1, <3>2
  <2>5. ASSUME <<m, q>> \notin cut PROVE OneCopy(m, q)' \/ OneEnd(m, q)'
    <3>1. OneCopy(m, q)
      <4>1. OneCopy(m, q) \/ OneEnd(m, q)
        BY <1>3, <2>2, <2>5 DEF IInv, SlotInv
      <4>2. QED
        BY <2>2, <4>1 DEF OneEnd
    <3>2. /\ Awaiting(m, q) = {c} /\ copies[c] = 1 /\ Ends(t0) = 0
          /\ kind[m].call => CallTold(c, t0)
          /\ ~kind[m].call => EventTold(c, t0)
      BY <1>4, <2>2, <2>3, <3>1 DEF OneCopy
    <3>3. CASE GoesOn(c, S, t0, t)
      <4>1. PICK d \in S : /\ Waiting(S) = {d} /\ d # c /\ Ends(t) = Ends(t0)
                           /\ kind[m].call => CallTold(d, t)
                           /\ ~kind[m].call => EventTold(d, t)
        BY <1>1, <3>2, <3>3 DEF GoesOn
      <4>2. d \notin Live
        BY <1>3, <3>2, <4>1 DEF Awaiting, Waiting
      <4>3. copies'[d] = 1 /\ d \in Live'
        BY <1>3, <4>2 DEF Swapped
      <4>4. Awaiting(m, q)' = {d}
        BY <1>3, <3>2, <4>1, <4>3 DEF Awaiting, Waiting, Swapped
      <4>5. (IF kind[m].call THEN CallTold(d, tally[m][q]) ELSE EventTold(d, tally[m][q]))'
        BY <1>3, <1>5, <4>1 DEF CallTold, EventTold
      <4>6. Ended(m, q)' = 0
        BY <2>3, <3>2, <4>1
      <4>7. QED
        BY <4>3, <4>4, <4>5, <4>6 DEF OneCopy
    <3>4. CASE IsEnded(c, S, t0, t)
      <4>1. /\ Waiting(S) = {} /\ Ends(t) = 1
            /\ kind[m].call => CallEnded(t)
            /\ ~kind[m].call => EventEnded(t, q)
        BY <1>1, <1>2, <3>2, <3>4 DEF IsEnded
      <4>2. Awaiting(m, q)' = {}
        BY <1>3, <1>7, <3>2, <4>1 DEF Awaiting, Waiting, Swapped
      <4>3. (IF kind[m].call THEN CallEnded(tally[m][q]) ELSE EventEnded(tally[m][q], q))'
        BY <1>3, <1>5, <4>1 DEF CallEnded, EventEnded, Attempts
      <4>4. QED
        BY <2>3, <4>1, <4>2, <4>3 DEF OneEnd
    <3>5. QED
      BY <2>1, <3>3, <3>4
  <2>6. SlotInv(m, q)'
    BY <1>3, <2>2, <2>4, <2>5 DEF SlotInv
  <2>7. QED
    BY <1>1, <1>2, <2>6
<1>8. QED
  BY <1>6, <1>7

(* The copies that are left are as they were, for tallies only grow.       *)
LEMMA CopiesKept ==
  ASSUME IInv, NEW c \in Live, NEW S, NEW t, CopyStep(c, S, t),
         \A d \in S : NewCopy(d, t)
  PROVE  \A d \in Live' : CopyInv(d)'
<1> SUFFICES ASSUME NEW d \in Live' PROVE CopyInv(d)'
  OBVIOUS
<1>1. targets' = targets /\ declared' = declared
  BY DEF CopyStep
<1>2. CASE d \in S
  <2>1. d.msg = c.msg /\ d.queue = c.queue /\ NewCopy(d, t)
    BY <1>2 DEF CopyStep
  <2>2. tally'[d.msg][d.queue] = t /\ d.queue \in targets'[d.msg]
    <3>1. c.queue \in targets[c.msg]
      BY DEF IInv, CopyInv
    <3>2. QED
      BY <1>1, <2>1, <3>1, TallyStep
  <2>3. QED
    BY <1>1, <2>1, <2>2 DEF NewCopy, CopyInv, RetryFree
<1>3. CASE d \in Live
  <2>1. CopyInv(d) /\ d.msg \in Messages /\ d.queue \in Queues
    BY <1>3 DEF IInv, CopyInv, Copies
  <2>2. /\ tally[d.msg][d.queue].handled > 0 => tally'[d.msg][d.queue].handled > 0
        /\ tally[d.msg][d.queue].failed > 0 => tally'[d.msg][d.queue].failed > 0
    BY <2>1, TallyGrows
  <2>3. QED
    BY <1>1, <2>1, <2>2 DEF CopyInv, RetryFree
<1>4. QED
  BY <1>2, <1>3 DEF CopyStep, Swapped

LEMMA AnswersKept ==
  ASSUME IInv, NEW c \in Live, NEW S, NEW t, CopyStep(c, S, t), NEW m \in Messages
  PROVE  (Served(m) => Served(m)') /\ (Spoiled(m) => Spoiled(m)')
<1>1. targets' = targets /\ kind' = kind
  BY DEF CopyStep
<1>2. \A q \in Queues : /\ tally[m][q].handled > 0 => tally'[m][q].handled > 0
                        /\ tally[m][q].failed > 0 => tally'[m][q].failed > 0
  BY TallyGrows
<1>3. QED
  BY <1>1, <1>2 DEF Served, Spoiled

(* The answers on their way are true, the new ones too.                    *)
AnswersTrue ==
  /\ replies' \in [Messages -> Seq(Answers)]
  /\ \A m \in Messages : \A i \in DOMAIN replies'[m] :
       \/ i \in DOMAIN replies[m] /\ replies'[m][i] = replies[m][i]
       \/ replies'[m][i] = "resolved" /\ Served(m)
       \/ replies'[m][i] = "rejected" /\ Spoiled(m)

(* A consumer's step keeps the invariant.                                  *)
LEMMA CopyStepKeeps ==
  ASSUME IInv, NEW c \in Live, NEW S, NEW t, CopyStep(c, S, t), Moves(c, S, t),
         \A d \in S : NewCopy(d, t),
         AnswersTrue
  PROVE  IInv'
<1>1. Typed'
  <2>1. Typed
    BY DEF IInv
  <2>2. tally' \in [Messages -> [Queues -> Tally]] /\ replies' \in [Messages -> Seq(Answers)]
    BY TallyStep DEF AnswersTrue
  <2>3. copies' \in [Live' -> Nat \ {0}] /\ IsFiniteSet(Live')
    BY DEF CopyStep, Swapped
  <2>4. UNCHANGED <<kind, declared, consuming, targets, calls>>
    BY DEF CopyStep
  <2>5. QED
    BY <2>1, <2>2, <2>3, <2>4 DEF Typed
<1>2. \A d \in Live' : CopyInv(d)'
  BY CopiesKept
<1>3. \A m \in Messages : \A q \in Queues : SlotInv(m, q)'
  <2> SUFFICES ASSUME NEW m \in Messages, NEW q \in Queues PROVE SlotInv(m, q)'
    OBVIOUS
  <2>1. CASE m = c.msg /\ q = c.queue
    <3>1. SlotInv(c.msg, c.queue)'
      BY OwnSlot
    <3>2. PICK m1, q1 : m1 = c.msg /\ q1 = c.queue
      OBVIOUS
    <3>3. SlotInv(m1, q1)'
      BY <3>1, <3>2
    <3>4. QED
      BY <2>1, <3>2, <3>3
  <2>2. CASE ~(m = c.msg /\ q = c.queue)
    BY <2>2, OtherSlots
  <2>3. QED
    BY <2>1, <2>2
<1>4. \A m \in Messages : AnswerInv(m)'
  <2> SUFFICES ASSUME NEW m \in Messages PROVE AnswerInv(m)'
    OBVIOUS
  <2>1. (Served(m) => Served(m)') /\ (Spoiled(m) => Spoiled(m)')
    BY AnswersKept
  <2>2. AnswerInv(m) /\ calls' = calls
    BY DEF IInv, CopyStep
  <2>3. QED
    BY <2>1, <2>2 DEF AnswerInv, AnswersTrue
<1>5. ASSUME NEW m \in Messages, NEW q \in Queues PROVE SpoiltTold(m, q, tally[m][q])'
  <2>1. SpoiltTold(m, q, tally[m][q]) /\ SpoiltTold(c.msg, c.queue, t) /\ kind' = kind
    BY DEF IInv, CopyStep
  <2>2. tally'[m][q] = IF m = c.msg /\ q = c.queue THEN t ELSE tally[m][q]
    BY TallyStep
  <2>3. SpoiltTold(m, q, tally'[m][q])
    BY <2>1, <2>2
  <2>4. QED
    BY <2>1, <2>3 DEF SpoiltTold
<1>6. QED
  BY <1>1, <1>2, <1>3, <1>4, <1>5 DEF IInv

LEMMA SilentAnswers ==
  ASSUME IInv, replies' = replies
  PROVE  AnswersTrue
BY DEF IInv, Typed, AnswersTrue

(* What is known of a copy.                                                *)
LEMMA CopyFacts ==
  ASSUME IInv, NEW c \in Live
  PROVE  /\ CopyInv(c) /\ c \in Copies
         /\ tally[c.msg][c.queue] \in Tally
         /\ SpoiltTold(c.msg, c.queue, tally[c.msg][c.queue])
         /\ tally = [tally EXCEPT ![c.msg][c.queue] = tally[c.msg][c.queue]]
         /\ IsFiniteSet({})
         /\ \A d : IsFiniteSet({d})
<1>1. CopyInv(c) /\ c \in Copies
  BY DEF IInv, CopyInv
<1>2. c.msg \in Messages /\ c.queue \in Queues
  BY <1>1 DEF Copies
<1>3. tally \in [Messages -> [Queues -> Tally]]
  BY DEF IInv, Typed
<1>4. tally[c.msg][c.queue] \in Tally
  BY <1>2, <1>3
<1>5. tally = [tally EXCEPT ![c.msg][c.queue] = tally[c.msg][c.queue]]
  BY <1>2, <1>3
<1>6. IsFiniteSet({})
  BY FS_EmptySet
<1>7. \A d : IsFiniteSet({d})
  BY FS_Singleton
<1>8. SpoiltTold(c.msg, c.queue, tally[c.msg][c.queue])
  BY <1>2 DEF IInv
<1>9. QED
  BY <1>1, <1>4, <1>5, <1>6, <1>7, <1>8

(* A copy is replaced by one.                                              *)
Onward(c, d, t) ==
  LET t0 == tally[c.msg][c.queue] IN
  /\ c.pc # "republished" /\ d.pc # "republished" /\ d # c
  /\ d.msg = c.msg /\ d.queue = c.queue
  /\ NewCopy(d, t)
  /\ t \in Tally /\ t.handled >= t0.handled /\ t.failed >= t0.failed
  /\ SpoiltTold(c.msg, c.queue, t)
  /\ Ends(t) = Ends(t0)
  /\ kind[c.msg].call /\ CallTold(c, t0) => CallTold(d, t)
  /\ ~kind[c.msg].call /\ EventTold(c, t0) => EventTold(d, t)

LEMMA OnwardKeeps ==
  ASSUME IInv, NEW c \in Live, NEW d, NEW t, Replace(c, {d}), Onward(c, d, t),
         tally' = [tally EXCEPT ![c.msg][c.queue] = t],
         UNCHANGED <<kind, declared, consuming, targets, calls, cut>>, AnswersTrue
  PROVE  IInv'
<1>1. Swapped(c, {d})
  <2>1. Typed
    BY DEF IInv
  <2>2. IsFiniteSet({d})
    BY CopyFacts
  <2>3. QED
    BY ONLY <2>1, <2>2, Replace(c, {d}), c \in Live, ReplaceSwaps
<1>2. CopyStep(c, {d}, t)
  BY <1>1 DEF CopyStep, Onward
<1>3. Moves(c, {d}, t)
  <2>1. Waiting({d}) = {d}
    BY DEF Waiting, Onward
  <2>2. QED
    BY <2>1 DEF Moves, GoesOn, Onward
<1>4. \A e \in {d} : NewCopy(e, t)
  BY DEF Onward
<1>5. QED
  BY <1>2, <1>3, <1>4, CopyStepKeeps

(* A copy is the last of its message.                                      *)
Over(c, t) ==
  LET t0 == tally[c.msg][c.queue] IN
  /\ c.pc # "republished"
  /\ t \in Tally /\ t.handled >= t0.handled /\ t.failed >= t0.failed
  /\ SpoiltTold(c.msg, c.queue, t)
  /\ Ends(t) = Ends(t0) + 1
  /\ kind[c.msg].call /\ CallTold(c, t0) /\ Ends(t0) = 0 => CallEnded(t)
  /\ ~kind[c.msg].call /\ EventTold(c, t0) /\ Ends(t0) = 0 => EventEnded(t, c.queue)

LEMMA OverKeeps ==
  ASSUME IInv, NEW c \in Live, NEW t, Replace(c, {}), Over(c, t),
         tally' = [tally EXCEPT ![c.msg][c.queue] = t],
         UNCHANGED <<kind, declared, consuming, targets, calls, cut, replies>>
  PROVE  IInv'
<1>1. Swapped(c, {})
  <2>1. Typed
    BY DEF IInv
  <2>2. IsFiniteSet({})
    BY CopyFacts
  <2>3. QED
    BY ONLY <2>1, <2>2, Replace(c, {}), c \in Live, ReplaceSwaps
<1>2. CopyStep(c, {}, t)
  BY <1>1 DEF CopyStep, Over
<1>3. Moves(c, {}, t)
  <2>1. Waiting({}) = {}
    BY DEF Waiting
  <2>2. QED
    BY <2>1 DEF Moves, IsEnded, Over
<1>4. QED
  BY <1>2, <1>3, CopyStepKeeps, SilentAnswers

-----------------------------------------------------------------------------
(* handleMessage                                                           *)

LEMMA DeliverKeeps ==
  ASSUME IInv, NEW c \in Live, NEW x \in Active, Deliver(c, x)
  PROVE  IInv'
<1>1. PICK d : d = [c EXCEPT !.pc = "running", !.by = x]
  OBVIOUS
<1>2. PICK t \in Tally : t = tally[c.msg][c.queue] /\ SpoiltTold(c.msg, c.queue, t)
  BY CopyFacts
<1>3. CopyInv(c) /\ c \in Copies
  BY CopyFacts
<1>4. /\ d.msg = c.msg /\ d.queue = c.queue /\ d.retries = c.retries /\ d.pc = "running"
      /\ d.by = x /\ d \in Copies
  BY ONLY <1>1, <1>3, x \in Active DEF Copies, Pcs
<1>5. x \in declared /\ x.queue = c.queue /\ x # Nobody /\ c.pc = "ready"
  BY QueueNames DEF Deliver, IInv, Typed
<1>6. Onward(c, d, t)
  <2>1. NewCopy(d, t)
    BY <1>3, <1>4, <1>5 DEF NewCopy, CopyInv
  <2>2. CallTold(c, t) => CallTold(d, t)
    BY <1>4, <1>5 DEF CallTold
  <2>3. EventTold(c, t) => EventTold(d, t)
    BY <1>4, <1>5 DEF EventTold
  <2>4. QED
    BY <1>2, <1>4, <1>5, <2>1, <2>2, <2>3 DEF Onward, Tally
<1>7. Replace(c, {d})
  BY <1>1 DEF Deliver
<1>8. tally' = [tally EXCEPT ![c.msg][c.queue] = t]
  BY <1>2, CopyFacts DEF Deliver
<1>9. UNCHANGED <<kind, declared, consuming, targets, calls, cut, replies>>
  BY DEF Deliver, topology, requests, history
<1>10. QED
  BY <1>6, <1>7, <1>8, <1>9, SilentAnswers, OnwardKeeps

LEMMA HandlerSucceedsKeeps ==
  ASSUME IInv, NEW c \in Live, HandlerSucceeds(c)
  PROVE  IInv'
<1>1. PICK d : d = [c EXCEPT !.pc = "handled"]
  OBVIOUS
<1>2. PICK t0 \in Tally : t0 = tally[c.msg][c.queue] /\ SpoiltTold(c.msg, c.queue, t0)
  BY CopyFacts
<1>3. CopyInv(c) /\ c \in Copies
  BY CopyFacts
<1>4. /\ d.msg = c.msg /\ d.queue = c.queue /\ d.retries = c.retries /\ d.pc = "handled"
      /\ d.by = c.by /\ d \in Copies
  BY ONLY <1>1, <1>3 DEF Copies, Pcs
<1>5. PICK t : t = [t0 EXCEPT !.handled = @ + 1]
  OBVIOUS
<1>6. /\ t \in Tally /\ t.handled = t0.handled + 1 /\ t.failed = t0.failed
      /\ t.acked = t0.acked /\ t.dead = t0.dead /\ t.dropped = t0.dropped /\ t.spoilt = t0.spoilt
  BY <1>5 DEF Tally
<1>7. c.pc = "running"
  BY DEF HandlerSucceeds
<1>8. Onward(c, d, t)
  <2>1. NewCopy(d, t)
    BY <1>3, <1>4, <1>6, <1>7 DEF NewCopy, CopyInv, Tally
  <2>2. CallTold(c, t0) => CallTold(d, t)
    BY <1>4, <1>6, <1>7 DEF CallTold
  <2>3. EventTold(c, t0) => EventTold(d, t)
    BY <1>4, <1>6, <1>7 DEF EventTold
  <2>4. SpoiltTold(c.msg, c.queue, t)
    BY <1>2, <1>6 DEF SpoiltTold
  <2>5. QED
    BY <1>2, <1>4, <1>6, <1>7, <2>1, <2>2, <2>3, <2>4 DEF Onward, Tally, Ends
<1>9. Replace(c, {d})
  BY <1>1 DEF HandlerSucceeds, Goto
<1>10. tally' = [tally EXCEPT ![c.msg][c.queue] = t]
  <2>1. tally' = [tally EXCEPT ![c.msg][c.queue]["handled"] = @ + 1]
    BY DEF HandlerSucceeds, Count
  <2>2. QED
    BY <1>2, <1>5, <2>1
<1>11. UNCHANGED <<kind, declared, consuming, targets, calls, cut, replies>>
  BY DEF HandlerSucceeds, topology, requests, history
<1>12. QED
  BY <1>8, <1>9, <1>10, <1>11, SilentAnswers, OnwardKeeps

LEMMA HandlerFailsKeeps ==
  ASSUME IInv, NEW c \in Live, HandlerFails(c)
  PROVE  IInv'
<1>1. PICK d : d = [c EXCEPT !.pc = "failed"]
  OBVIOUS
<1>2. PICK t0 \in Tally : t0 = tally[c.msg][c.queue] /\ SpoiltTold(c.msg, c.queue, t0)
  BY CopyFacts
<1>3. CopyInv(c) /\ c \in Copies
  BY CopyFacts
<1>4. /\ d.msg = c.msg /\ d.queue = c.queue /\ d.retries = c.retries /\ d.pc = "failed"
      /\ d.by = c.by /\ d \in Copies
  BY ONLY <1>1, <1>3 DEF Copies, Pcs
<1>5. PICK spoilt \in {0, 1} :
         /\ spoilt = 1 => ~CommitIsLast(c.queue, kind[c.msg].type)
         /\ tally' = [tally EXCEPT ![c.msg][c.queue].failed = @ + 1,
                                   ![c.msg][c.queue].spoilt = @ + spoilt]
  BY DEF HandlerFails
<1>6. PICK t : t = [t0 EXCEPT !.failed = @ + 1, !.spoilt = @ + spoilt]
  OBVIOUS
<1>7. /\ t \in Tally /\ t.handled = t0.handled /\ t.failed = t0.failed + 1
      /\ t.acked = t0.acked /\ t.dead = t0.dead /\ t.dropped = t0.dropped
      /\ t.spoilt = t0.spoilt + spoilt
  <2>1. t = [handled |-> t0.handled, failed |-> t0.failed + 1,
             spoilt |-> t0.spoilt + spoilt, acked |-> t0.acked, dead |-> t0.dead,
             dropped |-> t0.dropped]
    <3>1. t0 = [handled |-> t0.handled, failed |-> t0.failed, spoilt |-> t0.spoilt,
                acked |-> t0.acked, dead |-> t0.dead, dropped |-> t0.dropped]
      BY <1>2 DEF Tally
    <3>2. QED
      BY <1>6, <3>1
  <2>2. /\ t0.handled \in Nat /\ t0.failed + 1 \in Nat /\ t0.spoilt + spoilt \in Nat
        /\ t0.acked \in Nat /\ t0.dead \in Nat /\ t0.dropped \in Nat
    BY <1>2, <1>5 DEF Tally
  <2>3. t \in Tally
    BY ONLY <2>1, <2>2 DEF Tally
  <2>4. QED
    BY <2>1, <2>3
<1>8. c.pc = "running"
  BY DEF HandlerFails
<1>9. Onward(c, d, t)
  <2>1. NewCopy(d, t)
    BY <1>3, <1>4, <1>7, <1>8 DEF NewCopy, CopyInv, Tally
  <2>2. CallTold(c, t0) => CallTold(d, t)
    BY <1>4, <1>7, <1>8 DEF CallTold
  <2>3. EventTold(c, t0) => EventTold(d, t)
    BY <1>4, <1>7, <1>8 DEF EventTold
  <2>4. SpoiltTold(c.msg, c.queue, t)
    BY <1>2, <1>7, <1>5 DEF SpoiltTold, Tally
  <2>5. QED
    BY <1>2, <1>4, <1>7, <1>8, <2>1, <2>2, <2>3, <2>4 DEF Onward, Tally, Ends
<1>10. Replace(c, {d})
  BY <1>1 DEF HandlerFails, Goto
<1>11. tally' = [tally EXCEPT ![c.msg][c.queue] = t]
  <2>1. c.msg \in Messages /\ c.queue \in Queues
    BY <1>3 DEF Copies
  <2>2. tally \in [Messages -> [Queues -> Tally]]
    BY DEF IInv, Typed
  <2>3. QED
    BY ONLY <1>2, <1>6, <1>5, <2>1, <2>2 DEF Tally
<1>12. UNCHANGED <<kind, declared, consuming, targets, calls, cut, replies>>
  BY DEF HandlerFails, topology, requests, history
<1>13. QED
  BY <1>9, <1>10, <1>11, <1>12, SilentAnswers, OnwardKeeps

(* The answer says what the tally knows of the handler.                    *)
LEMMA ReplyKeeps ==
  ASSUME IInv, NEW c \in Live, Reply(c)
  PROVE  IInv'
<1>1. PICK d : d = [c EXCEPT !.pc = "replied"]
  OBVIOUS
<1>2. PICK t \in Tally : t = tally[c.msg][c.queue] /\ SpoiltTold(c.msg, c.queue, t)
  BY CopyFacts
<1>3. CopyInv(c) /\ c \in Copies
  BY CopyFacts
<1>4. /\ d.msg = c.msg /\ d.queue = c.queue /\ d.retries = c.retries /\ d.pc = "replied"
      /\ d.by = c.by /\ d \in Copies
  BY ONLY <1>1, <1>3 DEF Copies, Pcs
<1>5. c.pc \in {"handled", "failed"} /\ kind[c.msg].call
  BY DEF Reply
<1>6. Onward(c, d, t)
  <2>1. NewCopy(d, t)
    BY <1>3, <1>4, <1>5 DEF NewCopy, CopyInv
  <2>2. CallTold(c, t) => CallTold(d, t)
    BY <1>4, <1>5 DEF CallTold
  <2>3. QED
    BY <1>2, <1>4, <1>5, <2>1, <2>2 DEF Onward, Tally
<1>7. Replace(c, {d})
  BY <1>1 DEF Reply, Goto
<1>8. tally' = [tally EXCEPT ![c.msg][c.queue] = t]
  BY <1>2, CopyFacts DEF Reply
<1>9. UNCHANGED <<kind, declared, consuming, targets, calls, cut>>
  BY DEF Reply, topology, history
<1>10. AnswersTrue
  <2>1. PICK m \in Messages : m = c.msg
    BY <1>3 DEF Copies
  <2>2. PICK a \in Answers : a = Outcome(c.pc)
    BY DEF Outcome, Answers
  <2>3. replies' = [replies EXCEPT ![m] = Append(@, a)]
    BY <2>1, <2>2 DEF Reply
  <2>4. replies \in [Messages -> Seq(Answers)]
    BY DEF IInv, Typed
  <2>5. replies' \in [Messages -> Seq(Answers)]
    BY <2>3, <2>4
  <2>6. /\ a = "resolved" => Served(m)
        /\ a = "rejected" => Spoiled(m)
    <3>1. c.queue \in targets[m] /\ c.queue \in Queues
      BY <1>3, <2>1 DEF CopyInv, Copies
    <3>2. /\ a = "resolved" => tally[m][c.queue].handled > 0
          /\ a = "rejected" => tally[m][c.queue].failed > 0
      BY <1>3, <1>5, <2>1, <2>2 DEF CopyInv, Outcome
    <3>3. QED
      BY <1>5, <2>1, <3>1, <3>2 DEF Served, Spoiled
  <2>7. ASSUME NEW n \in Messages, NEW i \in DOMAIN replies'[n]
        PROVE  \/ i \in DOMAIN replies[n] /\ replies'[n][i] = replies[n][i]
               \/ replies'[n][i] = "resolved" /\ Served(n)
               \/ replies'[n][i] = "rejected" /\ Spoiled(n)
    <3>1. CASE n # m
      BY <2>3, <2>4, <2>7, <3>1
    <3>2. CASE n = m
      <4>1. replies'[m] = Append(replies[m], a) /\ replies[m] \in Seq(Answers)
        BY <2>3, <2>4
      <4>2. (i \in DOMAIN replies[m] /\ replies'[m][i] = replies[m][i]) \/ replies'[m][i] = a
        BY <2>7, <3>2, <4>1
      <4>3. QED
        BY <2>6, <3>2, <4>2 DEF Answers
    <3>3. QED
      BY <3>1, <3>2
  <2>8. QED
    BY <2>5, <2>7 DEF AnswersTrue
<1>11. QED
  BY <1>6, <1>7, <1>8, <1>9, <1>10, OnwardKeeps

LEMMA AckKeeps ==
  ASSUME IInv, NEW c \in Live, Ack(c)
  PROVE  IInv'
<1>1. PICK t0 \in Tally : t0 = tally[c.msg][c.queue] /\ SpoiltTold(c.msg, c.queue, t0)
  BY CopyFacts
<1>2. CopyInv(c) /\ c \in Copies
  BY CopyFacts
<1>3. PICK t : t = [t0 EXCEPT !.acked = @ + 1]
  OBVIOUS
<1>4. /\ t \in Tally /\ t.handled = t0.handled /\ t.failed = t0.failed
      /\ t.acked = t0.acked + 1 /\ t.dead = t0.dead /\ t.dropped = t0.dropped
      /\ t.spoilt = t0.spoilt
  BY <1>3 DEF Tally
<1>5. \/ c.pc = "replied"
      \/ c.pc = "handled" /\ ~kind[c.msg].call
  BY DEF Ack
<1>6. c.retries + 1 <= Attempts(c.queue)
  BY <1>2, BrokerAssumption DEF CopyInv, Copies, Attempts
<1>7. Over(c, t)
  <2>1. ASSUME CallTold(c, t0), kind[c.msg].call, Ends(t0) = 0 PROVE CallEnded(t)
    <3>1. t0.handled + t0.failed = 1
      BY <1>5, <2>1 DEF CallTold
    <3>2. t.acked = 1
      <4>1. t0.acked \in Nat /\ t0.dead \in Nat /\ t0.dropped \in Nat
        BY <1>1 DEF Tally
      <4>2. t0.acked + t0.dead + t0.dropped = 0
        BY <2>1 DEF Ends
      <4>3. t0.acked = 0
        BY ONLY <4>1, <4>2
      <4>4. QED
        BY <1>4, <4>3
    <3>3. QED
      BY <1>4, <3>1, <3>2 DEF CallEnded
  <2>2. ASSUME EventTold(c, t0), ~kind[c.msg].call, Ends(t0) = 0
        PROVE  EventEnded(t, c.queue)
    <3>1. t0.handled = 1 /\ t0.failed = c.retries
      BY <1>5, <2>2 DEF EventTold
    <3>2. t0.acked = 0 /\ t0.dead = 0 /\ t0.dropped = 0
      <4>1. t0.acked \in Nat /\ t0.dead \in Nat /\ t0.dropped \in Nat
        BY <1>1 DEF Tally
      <4>2. t0.acked + t0.dead + t0.dropped = 0
        BY <2>2 DEF Ends
      <4>3. PICK a, e, o : a = t0.acked /\ e = t0.dead /\ o = t0.dropped
        OBVIOUS
      <4>4. a = 0 /\ e = 0 /\ o = 0
        BY ONLY <4>1, <4>2, <4>3
      <4>5. QED
        BY <4>3, <4>4
    <3>3. /\ t.acked = 1 /\ t.dead + t.dropped = 0 /\ t.handled = 1
          /\ t.failed + 1 <= Attempts(c.queue)
      BY <1>4, <1>6, <3>1, <3>2
    <3>4. QED
      BY <3>3 DEF EventEnded
  <2>3. SpoiltTold(c.msg, c.queue, t)
    BY <1>1, <1>4 DEF SpoiltTold
  <2>4. QED
    BY <1>1, <1>4, <1>5, <2>1, <2>2, <2>3 DEF Over, Tally, Ends
<1>8. tally' = [tally EXCEPT ![c.msg][c.queue] = t]
  <2>1. tally' = [tally EXCEPT ![c.msg][c.queue]["acked"] = @ + 1]
    BY DEF Ack, Count
  <2>2. QED
    BY <1>1, <1>3, <2>1
<1>9. Replace(c, {})
  BY DEF Ack
<1>10. UNCHANGED <<kind, declared, consuming, targets, calls, cut, replies>>
  BY DEF Ack, topology, requests, history
<1>11. QED
  BY <1>7, <1>8, <1>9, <1>10, OverKeeps

(* A message is given up when it has been retried to the bound, or at once *)
(* where nothing is retried.                                               *)
LEMMA NackKeeps ==
  ASSUME IInv, NEW c \in Live, Nack(c)
  PROVE  IInv'
<1>1. PICK t0 \in Tally : t0 = tally[c.msg][c.queue] /\ SpoiltTold(c.msg, c.queue, t0)
  BY CopyFacts
<1>2. CopyInv(c) /\ c \in Copies
  BY CopyFacts
<1>3. c.pc = "failed" /\ ~kind[c.msg].call /\ ~ShouldRetry(c)
  BY DEF Nack
<1>4. c.retries + 1 = Attempts(c.queue)
  <2>1. c.by \in declared /\ c.by.queue = c.queue /\ declared \subseteq Active
    BY <1>2, <1>3 DEF CopyInv, IInv, Typed
  <2>2. CASE c.by.retryKey = None
    <3>1. RetryFree(c.queue)
      BY <2>1, <2>2 DEF RetryFree
    <3>2. QED
      BY <1>2, <3>1 DEF CopyInv, Attempts
  <2>3. CASE c.by.retryKey # None
    <3>1. ~RetryFree(c.queue)
      BY <2>1, <2>3, RetryReturns
    <3>2. ~(c.retries < MAX_RETRY_ATTEMPTS) /\ c.retries \in 0..MAX_RETRY_ATTEMPTS
      BY <1>2, <1>3, <2>3 DEF ShouldRetry, Copies
    <3>3. QED
      BY <3>1, <3>2, BrokerAssumption DEF Attempts
  <2>4. QED
    BY <2>2, <2>3
<1>5. PICK t \in Tally :
        /\ t.handled = t0.handled /\ t.failed = t0.failed /\ t.acked = t0.acked
        /\ t.spoilt = t0.spoilt
        /\ t.dead + t.dropped = t0.dead + t0.dropped + 1
        /\ tally' = [tally EXCEPT ![c.msg][c.queue] = t]
  <2>1. tally' = [tally EXCEPT ![c.msg][c.queue]
                     [IF c.by.deadLetter THEN "dead" ELSE "dropped"] = @ + 1]
    BY DEF Nack, Count
  <2>2. CASE c.by.deadLetter
    <3>1. PICK t : t = [t0 EXCEPT !.dead = @ + 1]
      OBVIOUS
    <3>2. /\ t \in Tally /\ t.handled = t0.handled /\ t.failed = t0.failed
          /\ t.acked = t0.acked /\ t.dead = t0.dead + 1 /\ t.dropped = t0.dropped
          /\ t0.dead \in Nat /\ t0.dropped \in Nat /\ t.spoilt = t0.spoilt
      BY <1>1, <3>1 DEF Tally
    <3>3. tally' = [tally EXCEPT ![c.msg][c.queue] = t]
      BY <1>1, <2>1, <2>2, <3>1
    <3>4. t.dead + t.dropped = t0.dead + t0.dropped + 1
      BY <3>2
    <3>5. QED
      BY <3>2, <3>3, <3>4
  <2>3. CASE ~c.by.deadLetter
    <3>1. PICK t : t = [t0 EXCEPT !.dropped = @ + 1]
      OBVIOUS
    <3>2. /\ t \in Tally /\ t.handled = t0.handled /\ t.failed = t0.failed
          /\ t.acked = t0.acked /\ t.dropped = t0.dropped + 1 /\ t.dead = t0.dead
          /\ t0.dropped \in Nat /\ t0.dead \in Nat /\ t.spoilt = t0.spoilt
      BY <1>1, <3>1 DEF Tally
    <3>3. tally' = [tally EXCEPT ![c.msg][c.queue] = t]
      BY <1>1, <2>1, <2>3, <3>1
    <3>4. t.dead + t.dropped = t0.dead + t0.dropped + 1
      BY <3>2
    <3>5. QED
      BY <3>2, <3>3, <3>4
  <2>4. QED
    BY <2>2, <2>3
<1>6. Over(c, t)
  <2>1. EventTold(c, t0) /\ Ends(t0) = 0 => EventEnded(t, c.queue)
    BY <1>1, <1>3, <1>4, <1>5 DEF EventTold, EventEnded, Ends, Tally
  <2>2. SpoiltTold(c.msg, c.queue, t)
    BY <1>1, <1>5 DEF SpoiltTold
  <2>3. QED
    BY <1>1, <1>3, <1>5, <2>1, <2>2 DEF Over, Tally, Ends
<1>7. Replace(c, {})
  BY DEF Nack
<1>8. UNCHANGED <<kind, declared, consuming, targets, calls, cut, replies>>
  BY DEF Nack, topology, requests, history
<1>9. QED
  BY <1>5, <1>6, <1>7, <1>8, OverKeeps

LEMMA AckRetriedKeeps ==
  ASSUME IInv, NEW c \in Live, AckRetried(c)
  PROVE  IInv'
<1>1. PICK t \in Tally : t = tally[c.msg][c.queue] /\ SpoiltTold(c.msg, c.queue, t)
  BY CopyFacts
<1>2. Swapped(c, {})
  <2>1. Typed /\ IsFiniteSet({})
    BY CopyFacts DEF IInv
  <2>2. Replace(c, {})
    BY DEF AckRetried
  <2>3. QED
    BY ONLY <2>1, <2>2, c \in Live, ReplaceSwaps
<1>3. UNCHANGED <<kind, declared, consuming, targets, calls, cut, replies>>
  BY DEF AckRetried, topology, requests, history
<1>4. tally' = [tally EXCEPT ![c.msg][c.queue] = t]
  BY <1>1, CopyFacts DEF AckRetried
<1>5. CopyStep(c, {}, t)
  BY <1>1, <1>2, <1>3, <1>4 DEF CopyStep, Tally
<1>6. Moves(c, {}, t)
  BY <1>1 DEF Moves, AckRetried
<1>7. QED
  BY <1>3, <1>5, <1>6, SilentAnswers, CopyStepKeeps

(* The copy in the retry queue knows one retry more; the one it replaces   *)
(* is only to be acknowledged.                                             *)
LEMMA RetryMessageKeeps ==
  ASSUME IInv, NEW c \in Live, RetryMessage(c)
  PROVE  IInv'
<1>1. PICK r : r = [c EXCEPT !.pc = "republished"]
  OBVIOUS
<1>2. PICK d : d = [c EXCEPT !.pc = "delayed", !.retries = @ + 1, !.by = c.by]
  OBVIOUS
<1>3. PICK t \in Tally : t = tally[c.msg][c.queue] /\ SpoiltTold(c.msg, c.queue, t)
  BY CopyFacts
<1>4. CopyInv(c) /\ c \in Copies
  BY CopyFacts
<1>5. /\ c.pc = "failed" /\ ~kind[c.msg].call
      /\ c.by.retryKey # None /\ c.retries < MAX_RETRY_ATTEMPTS
  BY DEF RetryMessage, ShouldRetry
<1>6. /\ r.msg = c.msg /\ r.queue = c.queue /\ r.retries = c.retries /\ r.pc = "republished"
      /\ r.by = c.by /\ r \in Copies
  BY ONLY <1>1, <1>4 DEF Copies, Pcs
<1>7. /\ d.msg = c.msg /\ d.queue = c.queue /\ d.retries = c.retries + 1 /\ d.pc = "delayed"
      /\ d.by = c.by /\ d \in Copies
  <2>1. c.retries + 1 \in 0..MAX_RETRY_ATTEMPTS /\ c.by \in Active \cup {Nobody}
    BY <1>4, <1>5, BrokerAssumption DEF Copies
  <2>2. QED
    BY ONLY <1>2, <1>4, <2>1 DEF Copies, Pcs
<1>8. /\ c.by \in declared /\ c.by.queue = c.queue /\ c.by # Nobody
      /\ RetryQueues(c.by) = {c.by} /\ ~RetryFree(c.queue)
  <2>1. c.by \in declared /\ c.by.queue = c.queue /\ c.by # Nobody /\ declared \subseteq Active
    BY <1>4, <1>5 DEF CopyInv, IInv, Typed
  <2>2. QED
    BY <1>5, <2>1, RetryReturns
<1>9. Replace(c, {r, d})
  <2>1. {[c EXCEPT !.pc = "delayed", !.retries = @ + 1, !.by = y] : y \in RetryQueues(c.by)} = {d}
    BY <1>2, <1>8
  <2>2. {r} \cup {d} = {r, d}
    OBVIOUS
  <2>3. QED
    BY <1>1, <2>1, <2>2 DEF RetryMessage
<1>10. Swapped(c, {r, d})
  <2>1. IsFiniteSet({r, d})
    <3>1. IsFiniteSet({r} \cup {d}) /\ {r} \cup {d} = {r, d}
      BY CopyFacts, FS_AddElement
    <3>2. QED
      BY <3>1
  <2>2. Typed
    BY DEF IInv
  <2>3. QED
    BY ONLY <1>9, <2>1, <2>2, c \in Live, ReplaceSwaps
<1>11. UNCHANGED <<kind, declared, consuming, targets, calls, cut, replies>>
  BY DEF RetryMessage, topology, requests, history
<1>12. tally' = [tally EXCEPT ![c.msg][c.queue] = t]
  BY <1>3, CopyFacts DEF RetryMessage
<1>13. CopyStep(c, {r, d}, t)
  BY <1>3, <1>6, <1>7, <1>10, <1>11, <1>12 DEF CopyStep, Tally
<1>14. Moves(c, {r, d}, t)
  <2>1. Waiting({r, d}) = {d}
    BY <1>6, <1>7 DEF Waiting
  <2>2. EventTold(c, t) => EventTold(d, t)
    BY <1>5, <1>7 DEF EventTold
  <2>3. QED
    BY <1>3, <1>5, <1>7, <2>1, <2>2 DEF Moves, GoesOn
<1>15. \A e \in {r, d} : NewCopy(e, t)
  <2>1. NewCopy(r, t)
    BY <1>4, <1>5, <1>6, <1>8 DEF NewCopy, CopyInv
  <2>2. NewCopy(d, t)
    BY <1>4, <1>5, <1>7, <1>8 DEF NewCopy, CopyInv
  <2>3. QED
    BY <2>1, <2>2
<1>16. QED
  BY <1>11, <1>13, <1>14, <1>15, SilentAnswers, CopyStepKeeps

(* The delay ends in the queue that the message came from.                 *)
LEMMA EndDelayKeeps ==
  ASSUME IInv, NEW c \in Live, EndDelay(c)
  PROVE  IInv'
<1>1. PICK d : d = Copy(c.msg, c.queue, c.retries, "ready", Nobody)
  OBVIOUS
<1>2. PICK t \in Tally : t = tally[c.msg][c.queue] /\ SpoiltTold(c.msg, c.queue, t)
  BY CopyFacts
<1>3. CopyInv(c) /\ c \in Copies /\ c.pc = "delayed"
  BY CopyFacts DEF EndDelay
<1>4. /\ d.msg = c.msg /\ d.queue = c.queue /\ d.retries = c.retries /\ d.pc = "ready"
      /\ d.by = Nobody /\ d \in Copies
  BY <1>1, <1>3 DEF Copy, Copies, Pcs
<1>5. Replace(c, {d})
  <2>1. c.by \in declared /\ c.by.queue = c.queue /\ c.by.retryKey # None /\ declared \subseteq Active
    BY <1>3 DEF CopyInv, IInv, Typed
  <2>2. Routed(declared, c.by.exchange, c.by.retryKey) = {c.queue}
    BY <2>1, RetryReturns
  <2>3. Ready(c.msg, {c.queue}, c.retries) = {d}
    BY <1>1 DEF Ready
  <2>4. QED
    BY <2>2, <2>3 DEF EndDelay
<1>6. Onward(c, d, t)
  <2>1. NewCopy(d, t)
    BY <1>3, <1>4 DEF NewCopy, CopyInv
  <2>2. CallTold(c, t) => CallTold(d, t)
    BY <1>3 DEF CallTold
  <2>3. EventTold(c, t) => EventTold(d, t)
    BY <1>3, <1>4 DEF EventTold
  <2>4. QED
    BY <1>2, <1>3, <1>4, <2>1, <2>2, <2>3 DEF Onward, Tally
<1>7. tally' = [tally EXCEPT ![c.msg][c.queue] = t]
  BY <1>2, CopyFacts DEF EndDelay
<1>8. UNCHANGED <<kind, declared, consuming, targets, calls, cut, replies>>
  BY DEF EndDelay, topology, requests, history
<1>9. QED
  BY <1>5, <1>6, <1>7, <1>8, SilentAnswers, OnwardKeeps

-----------------------------------------------------------------------------
(* subscribe, publish, request                                             *)

(* Steps that touch no copy.                                               *)
LEMMA QuietKeeps ==
  ASSUME IInv, UNCHANGED <<kind, targets, copies, tally, cut>>,
         declared \subseteq declared', declared' \subseteq Active, consuming' \subseteq declared',
         calls' \in [Messages -> {"none", "pending", "timed out", "closed"} \cup Answers],
         replies' \in [Messages -> Seq(Answers)],
         \A m \in Messages :
           /\ calls'[m] = "resolved" => Served(m)
           /\ calls'[m] = "rejected" => Spoiled(m)
           /\ \A i \in DOMAIN replies'[m] :
                /\ replies'[m][i] = "resolved" => Served(m)
                /\ replies'[m][i] = "rejected" => Spoiled(m)
  PROVE  IInv'
<1>1. Live' = Live
  BY DEF Live, BagToSet
<1>2. Typed'
  BY <1>1 DEF IInv, Typed
<1>3. \A c \in Live' : CopyInv(c)'
  BY <1>1 DEF IInv, CopyInv, RetryFree
<1>4. ASSUME NEW m \in Messages, NEW q \in Queues PROVE SlotInv(m, q)'
  <2>1. Awaiting(m, q)' = Awaiting(m, q)
    BY <1>1 DEF Awaiting
  <2>2. Awaiting(m, q) \subseteq Live
    BY DEF Awaiting
  <2>3. QED
    BY <1>1, <2>1, <2>2, SlotStays
<1>5. ASSUME NEW m \in Messages PROVE AnswerInv(m)'
  BY DEF AnswerInv, Served, Spoiled
<1>6. ASSUME NEW m \in Messages, NEW q \in Queues PROVE SpoiltTold(m, q, tally[m][q])'
  BY DEF IInv, SpoiltTold
<1>7. QED
  BY <1>2, <1>3, <1>4, <1>5, <1>6 DEF IInv

LEMMA SubscribeKeeps ==
  ASSUME IInv, NEW x \in Active, Subscribe(x)
  PROVE  IInv'
<1>1. /\ UNCHANGED <<kind, targets, copies, tally, cut>>
      /\ calls' = calls /\ replies' = replies
      /\ declared' = declared \cup {x} /\ consuming' = consuming \cup {x}
  BY DEF Subscribe, requests, history
<1>2. Typed /\ \A m \in Messages : AnswerInv(m)
  BY DEF IInv
<1>3. QED
  BY <1>1, <1>2, QuietKeeps DEF Typed, AnswerInv

LEMMA TimeoutKeeps ==
  ASSUME IInv, NEW m \in Messages, Timeout(m)
  PROVE  IInv'
<1>1. /\ UNCHANGED <<kind, targets, copies, tally, cut>>
      /\ declared' = declared /\ consuming' = consuming /\ replies' = replies
      /\ calls' = [calls EXCEPT ![m] = "timed out"]
  BY DEF Timeout, topology, history
<1>2. Typed /\ \A n \in Messages : AnswerInv(n)
  BY DEF IInv
<1>3. calls' \in [Messages -> {"none", "pending", "timed out", "closed"} \cup Answers]
  BY <1>1, <1>2 DEF Typed
<1>4. \A n \in Messages : calls'[n] = IF n = m THEN "timed out" ELSE calls[n]
  BY <1>1, <1>2 DEF Typed
<1>5. QED
  BY <1>1, <1>2, <1>3, <1>4, QuietKeeps DEF Typed, AnswerInv

LEMMA HandleRpcReplyKeeps ==
  ASSUME IInv, NEW m \in Messages, HandleRpcReply(m)
  PROVE  IInv'
<1>1. /\ UNCHANGED <<kind, targets, copies, tally, cut>>
      /\ declared' = declared /\ consuming' = consuming
      /\ replies[m] # <<>> /\ replies' = [replies EXCEPT ![m] = Tail(@)]
      /\ calls' = [calls EXCEPT ![m] = IF @ = "pending" THEN Head(replies[m]) ELSE @]
  BY DEF HandleRpcReply, topology, history
<1>2. Typed /\ \A n \in Messages : AnswerInv(n)
  BY DEF IInv
<1>3. PICK s \in Seq(Answers) : s = replies[m]
  BY <1>2 DEF Typed
<1>4. /\ s # <<>> /\ Tail(s) \in Seq(Answers) /\ Head(s) = s[1] /\ 1 \in DOMAIN s
      /\ Head(s) \in Answers
      /\ \A i \in DOMAIN Tail(s) : i + 1 \in DOMAIN s /\ Tail(s)[i] = s[i + 1]
  BY <1>1, <1>3
<1>5. /\ \A n \in Messages : replies'[n] = IF n = m THEN Tail(s) ELSE replies[n]
      /\ replies' \in [Messages -> Seq(Answers)]
  BY <1>1, <1>2, <1>3, <1>4 DEF Typed
<1>6. /\ \A n \in Messages : calls'[n] \in {calls[n]} \cup (IF n = m THEN {Head(s)} ELSE {})
      /\ calls' \in [Messages -> {"none", "pending", "timed out", "closed"} \cup Answers]
  BY <1>1, <1>2, <1>3, <1>4 DEF Typed
<1>7. /\ Head(s) = "resolved" => Served(m)
      /\ Head(s) = "rejected" => Spoiled(m)
      /\ \A i \in DOMAIN Tail(s) : /\ Tail(s)[i] = "resolved" => Served(m)
                                   /\ Tail(s)[i] = "rejected" => Spoiled(m)
  BY <1>2, <1>3, <1>4 DEF AnswerInv
<1>8. ASSUME NEW n \in Messages
      PROVE  /\ calls'[n] = "resolved" => Served(n)
             /\ calls'[n] = "rejected" => Spoiled(n)
             /\ \A i \in DOMAIN replies'[n] :
                  /\ replies'[n][i] = "resolved" => Served(n)
                  /\ replies'[n][i] = "rejected" => Spoiled(n)
  <2>1. CASE n = m
    BY <1>2, <1>5, <1>6, <1>7, <2>1 DEF AnswerInv
  <2>2. CASE n # m
    BY <1>2, <1>5, <1>6, <2>2 DEF AnswerInv
  <2>3. QED
    BY <2>1, <2>2
<1>9. declared \subseteq declared' /\ declared' \subseteq Active /\ consuming' \subseteq declared'
  BY <1>1, <1>2 DEF Typed
<1>10. QED
  BY <1>1, <1>5, <1>6, <1>8, <1>9, QuietKeeps

(* A message that is published is in one copy in each queue it is routed   *)
(* to, and nothing has happened to it yet.                                 *)
LEMMA PublishKeeps ==
  ASSUME IInv, NEW m \in Messages, Publish(m)
  PROVE  IInv'
<1>1. PICK Q : Q = Routed(declared, kind[m].exchange, kind[m].type)
  OBVIOUS
<1>2. /\ targets[m] = NotSent /\ targets' = [targets EXCEPT ![m] = Q]
      /\ copies' = copies (+) SetToBag(Ready(m, targets'[m], 0))
      /\ calls' = [calls EXCEPT ![m] = IF kind[m].call THEN "pending" ELSE "none"]
      /\ UNCHANGED <<kind, declared, consuming, replies, tally, cut>>
  BY <1>1 DEF Publish, topology, history
<1>3. Typed /\ \A c \in Live : CopyInv(c)
  BY DEF IInv
<1>4. Q \subseteq Queues /\ IsFiniteSet(Q)
  <2>1. Q \in SUBSET Queues
    BY <1>1, <1>3 DEF Routed, Queues, Typed
  <2>2. QED
    BY <2>1, FiniteQueues, FS_Subset
<1>5. /\ targets' \in [Messages -> (SUBSET Queues) \cup {NotSent}] /\ targets'[m] = Q
      /\ \A n \in Messages : n # m => targets'[n] = targets[n]
  BY <1>2, <1>3, <1>4 DEF Typed
<1>6. PICK new : new = Ready(m, Q, 0)
  OBVIOUS
<1>7. \A c \in Live : c.msg # m
  BY <1>2, <1>3, QueueNames DEF CopyInv, Copies
<1>8. /\ \A c \in new : /\ c.msg = m /\ c.queue \in Q /\ c.retries = 0 /\ c.pc = "ready"
                        /\ c.by = Nobody /\ c \in Copies
      /\ \A c, d \in new : c.queue = d.queue => c = d
      /\ \A q \in Q : \E c \in new : c.queue = q
  <2>1. 0 \in 0..MAX_RETRY_ATTEMPTS
    BY BrokerAssumption
  <2>2. new = {Copy(m, q, 0, "ready", Nobody) : q \in Q}
    BY <1>6 DEF Ready
  <2>3. ASSUME NEW q \in Q, NEW c, c = Copy(m, q, 0, "ready", Nobody)
        PROVE  /\ c.msg = m /\ c.queue = q /\ c.retries = 0 /\ c.pc = "ready"
               /\ c.by = Nobody /\ c \in Copies
    BY <1>4, <2>1, <2>3 DEF Copy, Copies, Pcs
  <2>4. \A c \in new : \E q \in Q : c = Copy(m, q, 0, "ready", Nobody)
    BY <2>2
  <2>5. \A q \in Q : Copy(m, q, 0, "ready", Nobody) \in new
    BY <2>2
  <2>6. ASSUME NEW c \in new, NEW d \in new, c.queue = d.queue PROVE c = d
    BY <2>3, <2>4, <2>6
  <2>7. ASSUME NEW q \in Q PROVE \E c \in new : c.queue = q
    BY <2>3, <2>5
  <2>8. ASSUME NEW c \in new
        PROVE  /\ c.msg = m /\ c.queue \in Q /\ c.retries = 0 /\ c.pc = "ready"
               /\ c.by = Nobody /\ c \in Copies
    BY <2>3, <2>4
  <2>9. QED
    BY <2>6, <2>7, <2>8
<1>9. new \cap Live = {}
  BY <1>7, <1>8
<1>10. IsFiniteSet(new)
  <2> DEFINE inQueue == [q \in Q |-> Copy(m, q, 0, "ready", Nobody)]
  <2>1. inQueue \in Surjection(Q, new)
    BY <1>6 DEF Surjection, Ready
  <2>2. QED
    BY ONLY <1>4, <2>1, FS_Surjection
<1>11. /\ Live' = Live \cup new
       /\ \A c \in Live : copies'[c] = copies[c]
       /\ \A c \in new : copies'[c] = 1
       /\ copies' \in [Live' -> Nat \ {0}]
  <2>1. copies' = copies (+) SetToBag(new)
    BY <1>2, <1>5, <1>6
  <2>2. DOMAIN SetToBag(new) = new /\ \A c \in new : SetToBag(new)[c] = 1
    BY DEF SetToBag
  <2>3. copies \in [Live -> Nat \ {0}]
    BY <1>3 DEF Typed
  <2>4. copies' = [e \in Live \cup new |-> (IF e \in Live THEN copies[e] ELSE 0)
                                           + (IF e \in new THEN SetToBag(new)[e] ELSE 0)]
    BY <2>1, <2>2, <2>3 DEF (+)
  <2>5. Live' = Live \cup new
    BY <2>4 DEF Live, BagToSet
  <2>6. \A e \in Live \cup new : copies'[e] = IF e \in Live THEN copies[e] ELSE 1
    BY <1>9, <2>2, <2>3, <2>4
  <2>7. copies' \in [Live' -> Nat \ {0}]
    BY <2>3, <2>4, <2>5, <2>6
  <2>8. QED
    BY <1>9, <2>5, <2>6, <2>7
<1>12. Typed'
  <2>1. IsFiniteSet(Live')
    BY <1>3, <1>10, <1>11, FS_Union DEF Typed
  <2>2. calls' \in [Messages -> {"none", "pending", "timed out", "closed"} \cup Answers]
    BY <1>2, <1>3 DEF Typed
  <2>3. QED
    BY <1>2, <1>3, <1>5, <1>11, <2>1, <2>2 DEF Typed
<1>13. \A c \in Live' : CopyInv(c)'
  <2> SUFFICES ASSUME NEW c \in Live' PROVE CopyInv(c)'
    OBVIOUS
  <2>1. CASE c \in new
    BY <1>5, <1>8, <2>1 DEF CopyInv
  <2>2. CASE c \in Live
    <3>1. CopyInv(c) /\ c.msg # m /\ c.msg \in Messages
      BY <1>3, <1>7, <2>2 DEF CopyInv, Copies
    <3>2. QED
      BY <1>2, <1>5, <3>1 DEF CopyInv, RetryFree
  <2>3. QED
    BY <1>11, <2>1, <2>2
<1>14. ASSUME NEW n \in Messages, NEW q \in Queues PROVE SlotInv(n, q)'
  <2>1. CASE n # m
    <3>1. Awaiting(n, q)' = Awaiting(n, q)
      BY <1>8, <1>11, <2>1 DEF Awaiting
    <3>2. \A d \in Awaiting(n, q) : copies'[d] = copies[d] /\ d \in Live'
      BY <1>11 DEF Awaiting
    <3>3. QED
      BY <1>2, <1>5, <2>1, <3>1, <3>2, SlotStays
  <2>2. CASE n = m
    <3>1. tally'[m][q] = NoTally
      BY <1>2, <2>2, QueueNames DEF IInv, SlotInv
    <3>2. Ended(m, q)' = 0
      BY <3>1 DEF Ended, NoTally
    <3>3. CASE q \in Q
      <4>1. PICK c \in new : c.queue = q
        BY <1>8, <3>3
      <4>2. Awaiting(m, q)' = {c}
        BY <1>7, <1>8, <1>11, <4>1 DEF Awaiting
      <4>3. c \in Live' /\ copies'[c] = 1
        BY <1>11, <4>1
      <4>4. (IF kind[m].call THEN CallTold(c, tally[m][q]) ELSE EventTold(c, tally[m][q]))'
        BY <1>8, <3>1, <4>1 DEF CallTold, EventTold, NoTally
      <4>5. OneCopy(m, q)'
        BY <3>2, <4>2, <4>3, <4>4 DEF OneCopy
      <4>6. QED
        BY <1>5, <2>2, <3>3, <4>2, <4>5 DEF SlotInv
    <3>4. CASE q \notin Q
      BY <1>5, <2>2, <3>1, <3>4 DEF SlotInv
    <3>5. QED
      BY <3>3, <3>4
  <2>3. QED
    BY <2>1, <2>2
<1>15. ASSUME NEW n \in Messages PROVE AnswerInv(n)'
  <2>1. AnswerInv(n)
    BY DEF IInv
  <2>2. CASE n # m
    <3>1. calls'[n] = calls[n] /\ targets'[n] = targets[n]
      BY <1>2, <1>3, <1>5, <2>2 DEF Typed
    <3>2. QED
      BY <1>2, <2>1, <3>1 DEF AnswerInv, Served, Spoiled
  <2>3. CASE n = m
    <3>1. ~Served(m) /\ ~Spoiled(m)
      BY <1>2, QueueNames DEF Served, Spoiled
    <3>2. calls'[m] \in {"pending", "none"} /\ replies'[m] = replies[m]
      BY <1>2, <1>3 DEF Typed
    <3>3. QED
      BY <2>1, <2>3, <3>1, <3>2 DEF AnswerInv
  <2>4. QED
    BY <2>2, <2>3
<1>16. ASSUME NEW n \in Messages, NEW q \in Queues PROVE SpoiltTold(n, q, tally[n][q])'
  BY <1>2 DEF IInv, SpoiltTold
<1>17. QED
  BY <1>12, <1>13, <1>14, <1>15, <1>16 DEF IInv

-----------------------------------------------------------------------------
(* A process stops                                                         *)

BackTo(c) == [c EXCEPT !.pc = "ready", !.by = Nobody]

LEMMA BackToFacts ==
  ASSUME NEW c \in Copies
  PROVE  /\ BackTo(c) \in Copies
         /\ BackTo(c).msg = c.msg /\ BackTo(c).queue = c.queue
         /\ BackTo(c).retries = c.retries
         /\ BackTo(c).pc = "ready" /\ BackTo(c).by = Nobody
BY DEF BackTo, Copies, Pcs

(* The copies in back become ready, in a bag.                              *)
HandedBack(back) ==
  /\ copies' \in [Live' -> Nat \ {0}] /\ IsFiniteSet(Live')
  /\ Live' = (Live \ back) \cup {BackTo(c) : c \in back}
  /\ \A d \in Live \ back : d \notin {BackTo(c) : c \in back} => copies'[d] = copies[d]
  /\ \A c \in back :
       /\ \A d \in back : BackTo(d) = BackTo(c) => d = c
       /\ BackTo(c) \notin Live \ back
       => copies'[BackTo(c)] = copies[c]

LEMMA StopHandsBack ==
  ASSUME Typed, NEW back \in SUBSET Live,
         copies' = [c \in Live \ back |-> copies[c]] (+) Returned(back)
  PROVE  HandedBack(back)
<1> DEFINE From(b) == {c \in back : BackTo(c) = b}
           count(b) == BagCardinality([c \in From(b) |-> copies[c]])
           ready == {BackTo(c) : c \in back}
           backTo == [c \in back |-> BackTo(c)]
<1>1. copies \in [Live -> Nat \ {0}] /\ IsFiniteSet(Live) /\ IsFiniteSet(back)
  BY FS_Subset DEF Typed
<1>2. Returned(back) = [b \in ready |-> count(b)]
  BY DEF Returned, BackTo
<1>3. ASSUME NEW b \in ready
      PROVE  /\ count(b) \in Nat \ {0}
             /\ \A c : From(b) = {c} => count(b) = copies[c]
  <2>1. IsFiniteSet(From(b)) /\ From(b) # {} /\ From(b) \subseteq Live
    BY <1>1, FS_Subset
  <2>2. PICK f : f = [c \in From(b) |-> copies[c]]
    OBVIOUS
  <2>3. f \in [From(b) -> Nat \ {0}] /\ \A c \in From(b) : f[c] = copies[c]
    BY <1>1, <2>1, <2>2
  <2>4. PICK F : F = From(b)
    OBVIOUS
  <2>5. /\ BagCardinality(f) \in Nat
        /\ BagCardinality(f) >= 1
        /\ \A c : F = {c} => BagCardinality(f) = f[c]
    <3>1. IsFiniteSet(F) /\ F # {} /\ f \in [F -> Nat \ {0}]
      BY <2>1, <2>3, <2>4
    <3>2. QED
      BY ONLY <3>1, BagFacts
  <2>6. count(b) = BagCardinality(f)
    BY <2>2
  <2> HIDE DEF count, From
  <2>7. QED
    BY <2>3, <2>4, <2>5, <2>6
<1> HIDE DEF count
<1>4. copies' = [e \in (Live \ back) \cup ready |->
                   (IF e \in Live \ back THEN copies[e] ELSE 0)
                   + (IF e \in ready THEN count(e) ELSE 0)]
  <2>1. PICK f : f = [c \in Live \ back |-> copies[c]]
    OBVIOUS
  <2>2. PICK g : g = [b \in ready |-> count(b)]
    OBVIOUS
  <2>3. copies' = f (+) g
    BY <1>2, <2>1, <2>2
  <2>4. f (+) g = [e \in (DOMAIN f) \cup (DOMAIN g) |->
                     (IF e \in DOMAIN f THEN f[e] ELSE 0) + (IF e \in DOMAIN g THEN g[e] ELSE 0)]
    BY DEF (+)
  <2>5. DOMAIN f = Live \ back /\ DOMAIN g = ready
    BY <2>1, <2>2
  <2>6. QED
    BY <2>1, <2>2, <2>3, <2>4, <2>5
<1>5. Live' = (Live \ back) \cup ready
  BY <1>4 DEF Live, BagToSet
<1>6. \A e \in Live' : copies'[e] = (IF e \in Live \ back THEN copies[e] ELSE 0)
                                     + (IF e \in ready THEN count(e) ELSE 0)
  BY <1>4, <1>5
<1>7. copies' \in [Live' -> Nat \ {0}]
  <2>1. DOMAIN copies' = Live' /\ copies' = [e \in Live' |-> copies'[e]]
    BY <1>4, <1>5
  <2>2. ASSUME NEW e \in Live' PROVE copies'[e] \in Nat \ {0}
    <3>1. e \in Live \ back => copies[e] \in Nat \ {0}
      BY <1>1
    <3>2. e \in ready => count(e) \in Nat \ {0}
      BY <1>3
    <3>3. QED
      BY <1>5, <1>6, <3>1, <3>2
  <2>3. QED
    BY <2>1, <2>2
<1>8. IsFiniteSet(Live')
  <2>1. backTo \in Surjection(back, ready)
    BY DEF Surjection
  <2>2. IsFiniteSet(ready)
    BY ONLY <1>1, <2>1, FS_Surjection
  <2>3. IsFiniteSet(Live \ back)
    <3>1. Live \ back \in SUBSET Live
      OBVIOUS
    <3>2. QED
      BY ONLY <1>1, <3>1, FS_Subset
  <2>4. QED
    BY ONLY <1>5, <2>2, <2>3, FS_Union
<1>9. ASSUME NEW d \in Live \ back, d \notin ready PROVE copies'[d] = copies[d]
  BY <1>1, <1>5, <1>6, <1>9
<1>10. ASSUME NEW c \in back, \A d \in back : BackTo(d) = BackTo(c) => d = c,
              BackTo(c) \notin Live \ back
       PROVE  copies'[BackTo(c)] = copies[c]
  <2>1. PICK b \in ready : b = BackTo(c)
    OBVIOUS
  <2>2. From(b) = {c}
    BY <1>10, <2>1
  <2>3. count(b) = copies[c] /\ copies[c] \in Nat
    BY <1>1, <1>3, <2>2
  <2>4. copies'[b] = 0 + count(b)
    BY <1>5, <1>6, <1>10, <2>1
  <2>5. QED
    BY <2>1, <2>3, <2>4
<1>11. QED
  BY <1>5, <1>7, <1>8, <1>9, <1>10 DEF HandedBack

(* Only a message that was handled or republished, or answered, and not    *)
(* acknowledged may now be in more than one copy, or be handled again.     *)
LEMMA StopKeepsSlots ==
  ASSUME IInv, NEW back \in SUBSET Live, HandedBack(back),
         \A c \in back : c.pc # "ready" /\ c.pc # "delayed",
         UNCHANGED <<kind, targets, tally>>,
         cut' = cut \cup {<<c.msg, c.queue>> : c \in {d \in back : d.pc # "running"}},
         NEW m \in Messages, NEW q \in Queues
  PROVE  SlotInv(m, q)'
<1>1. \A c \in Live : /\ c \in Copies /\ BackTo(c).msg = c.msg /\ BackTo(c).queue = c.queue
                      /\ BackTo(c).retries = c.retries /\ BackTo(c).pc = "ready"
                      /\ BackTo(c).by = Nobody
  BY BackToFacts DEF IInv, CopyInv
<1>2. Live' = (Live \ back) \cup {BackTo(c) : c \in back}
  BY DEF HandedBack
<1>3. Ended(m, q)' = Ended(m, q) /\ tally'[m][q] = tally[m][q]
  BY DEF Ended
<1>4. SlotInv(m, q)
  BY DEF IInv
<1>5. Awaiting(m, q) # {} => Awaiting(m, q)' # {}
  <2>1. ASSUME NEW c \in Awaiting(m, q) PROVE Awaiting(m, q)' # {}
    <3>1. CASE c \in back
      <4>1. BackTo(c) \in Awaiting(m, q)'
        BY <1>1, <1>2, <3>1 DEF Awaiting
      <4>2. QED
        BY <4>1
    <3>2. CASE c \notin back
      BY <1>2, <3>2 DEF Awaiting
    <3>3. QED
      BY <3>1, <3>2
  <2>2. QED
    BY <2>1
<1>6. ASSUME q \in targets[m], <<m, q>> \notin cut'
      PROVE  OneCopy(m, q)' \/ OneEnd(m, q)'
  <2>1. \A c \in back : c.msg = m /\ c.queue = q => c.pc = "running" /\ c \in Awaiting(m, q)
    BY <1>6 DEF Awaiting
  <2>2. \A d \in Live' :
          d.msg = m /\ d.queue = q /\ d.pc # "republished"
            => \/ d \in Awaiting(m, q) \ back
               \/ \E c \in Awaiting(m, q) \cap back : d = BackTo(c)
    <3>1. ASSUME NEW d \in Live', d.msg = m, d.queue = q, d.pc # "republished", d \notin Live \ back
          PROVE  \E c \in Awaiting(m, q) \cap back : d = BackTo(c)
      <4>1. PICK c \in back : d = BackTo(c)
        BY <1>2, <3>1
      <4>2. c.msg = m /\ c.queue = q
        BY <1>1, <3>1, <4>1
      <4>3. QED
        BY <2>1, <4>1, <4>2
    <3>2. QED
      BY <3>1 DEF Awaiting
  <2>3. <<m, q>> \notin cut
    BY <1>6
  <2>4. CASE OneEnd(m, q)
    <3>1. Awaiting(m, q)' = {}
      BY <2>2, <2>4 DEF OneEnd, Awaiting
    <3>2. QED
      BY <1>3, <2>4, <3>1 DEF OneEnd
  <2>5. CASE OneCopy(m, q)
    <3>1. PICK c \in Live : /\ Awaiting(m, q) = {c} /\ copies[c] = 1
                            /\ IF kind[m].call THEN CallTold(c, tally[m][q])
                                               ELSE EventTold(c, tally[m][q])
      BY <2>5 DEF OneCopy
    <3>2. c.msg = m /\ c.queue = q
      BY <3>1 DEF Awaiting
    <3>3. PICK d : d = IF c \in back THEN BackTo(c) ELSE c
      OBVIOUS
    <3>4. Awaiting(m, q)' = {d}
      <4>1. d \in Live' /\ d.msg = m /\ d.queue = q /\ d.pc # "republished"
        BY <1>1, <1>2, <3>1, <3>2, <3>3 DEF Awaiting
      <4>2. \A e \in Live' : e.msg = m /\ e.queue = q /\ e.pc # "republished" => e = d
        BY <2>2, <3>1, <3>3
      <4>3. QED
        BY <4>1, <4>2 DEF Awaiting
    <3>5. copies'[d] = 1
      <4>1. CASE c \in back
        <5>1. \A e \in back : BackTo(e) = BackTo(c) => e = c
          BY <1>1, <2>1, <3>1, <3>2
        <5>2. BackTo(c) \notin Live \ back
          BY <1>1, <3>1, <3>2, <4>1 DEF Awaiting
        <5>3. copies'[BackTo(c)] = copies[c]
          BY <4>1, <5>1, <5>2 DEF HandedBack
        <5>4. QED
          BY <3>1, <3>3, <4>1, <5>3
      <4>2. CASE c \notin back
        <5>1. c \notin {BackTo(e) : e \in back}
          BY <1>1, <2>1, <3>1, <3>2, <4>2
        <5>2. QED
          BY <3>1, <3>3, <4>2, <5>1 DEF HandedBack
      <4>3. QED
        BY <4>1, <4>2
    <3>6. /\ CallTold(c, tally[m][q]) => CallTold(d, tally[m][q])
          /\ EventTold(c, tally[m][q]) => EventTold(d, tally[m][q])
      <4>1. CASE c \in back
        <5>1. c.pc = "running" /\ d.pc = "ready" /\ d.retries = c.retries
          BY <1>1, <2>1, <3>2, <3>3, <4>1
        <5>2. QED
          BY <5>1 DEF CallTold, EventTold
      <4>2. CASE c \notin back
        BY <3>3, <4>2
      <4>3. QED
        BY <4>1, <4>2
    <3>7. (IF kind[m].call THEN CallTold(d, tally[m][q]) ELSE EventTold(d, tally[m][q]))'
      BY <3>1, <3>6 DEF CallTold, EventTold
    <3>8. d \in Live'
      BY <3>4 DEF Awaiting
    <3>9. QED
      BY <1>3, <2>5, <3>4, <3>5, <3>7, <3>8 DEF OneCopy
  <2>6. QED
    BY <1>4, <1>6, <2>3, <2>4, <2>5 DEF SlotInv
<1>7. QED
  BY <1>3, <1>4, <1>5, <1>6 DEF SlotInv

LEMMA StopKeeps ==
  ASSUME IInv, NEW s, Stop(s)
  PROVE  IInv'
<1>1. PICK back \in SUBSET Live : back = Unacknowledged(s)
  BY DEF Unacknowledged
<1>2. Typed /\ \A c \in Live : CopyInv(c)
  BY DEF IInv
<1>3. \A c \in back : c.pc # "ready" /\ c.pc # "delayed"
  BY <1>1, <1>2 DEF Unacknowledged, CopyInv
<1>4. /\ copies' = [c \in Live \ back |-> copies[c]] (+) Returned(back)
      /\ cut' = cut \cup {<<c.msg, c.queue>> : c \in {d \in back : d.pc # "running"}}
      /\ consuming' = {x \in consuming : x.service # s}
      /\ calls' = [m \in Messages |-> IF m \in RequestsOf(s) THEN "closed" ELSE calls[m]]
      /\ UNCHANGED <<kind, declared, targets, replies, tally>>
  BY <1>1 DEF Stop
<1>5. HandedBack(back)
  BY <1>2, <1>4, StopHandsBack
<1>6. Typed'
  <2>1. calls' \in [Messages -> {"none", "pending", "timed out", "closed"} \cup Answers]
    BY <1>2, <1>4 DEF Typed
  <2>2. QED
    BY <1>2, <1>4, <1>5, <2>1 DEF Typed, HandedBack
<1>7. \A c \in Live' : CopyInv(c)'
  <2> SUFFICES ASSUME NEW d \in Live' PROVE CopyInv(d)'
    OBVIOUS
  <2>1. CASE d \in Live
    BY <1>2, <1>4, <2>1 DEF CopyInv, RetryFree
  <2>2. CASE d \notin Live
    <3>1. PICK c \in back : d = BackTo(c)
      BY <1>5, <2>2 DEF HandedBack
    <3>2. CopyInv(c) /\ c \in Copies
      BY <1>2, <3>1 DEF CopyInv
    <3>3. /\ d \in Copies /\ d.msg = c.msg /\ d.queue = c.queue /\ d.retries = c.retries
          /\ d.pc = "ready" /\ d.by = Nobody
      BY <3>1, <3>2, BackToFacts
    <3>4. QED
      BY <1>4, <3>2, <3>3 DEF CopyInv, RetryFree
  <2>3. QED
    BY <2>1, <2>2
<1>8. \A m \in Messages : \A q \in Queues : SlotInv(m, q)'
  BY <1>3, <1>4, <1>5, StopKeepsSlots
<1>9. ASSUME NEW m \in Messages PROVE AnswerInv(m)'
  <2>1. AnswerInv(m)
    BY DEF IInv
  <2>2. calls'[m] \in {"closed", calls[m]}
    BY <1>4
  <2>3. QED
    BY <1>4, <2>1, <2>2 DEF AnswerInv, Served, Spoiled
<1>10. ASSUME NEW m \in Messages, NEW q \in Queues PROVE SpoiltTold(m, q, tally[m][q])'
  BY <1>4 DEF IInv, SpoiltTold
<1>11. QED
  BY <1>6, <1>7, <1>8, <1>9, <1>10 DEF IInv

-----------------------------------------------------------------------------
(* The invariant holds                                                     *)

LEMMA InitIInv ==
  Init => IInv
<1> SUFFICES ASSUME Init PROVE IInv
  OBVIOUS
<1>1. Live = {} /\ copies \in [Live -> Nat \ {0}] /\ IsFiniteSet(Live)
  <2>1. copies = [e \in {} |-> 1]
    BY DEF Init, EmptyBag, SetToBag
  <2>2. DOMAIN copies = {}
    BY <2>1
  <2>3. QED
    BY <2>1, <2>2, FS_EmptySet DEF Live, BagToSet
<1>2. NoTally \in Tally
  BY DEF NoTally, Tally
<1>3. Typed
  <2>1. kind \in [Messages -> Kinds] /\ declared \subseteq Active /\ consuming \subseteq declared
    BY DEF Init
  <2>2. targets \in [Messages -> (SUBSET Queues) \cup {NotSent}]
    BY DEF Init
  <2>3. calls \in [Messages -> {"none", "pending", "timed out", "closed"} \cup Answers]
    BY DEF Init
  <2>4. replies \in [Messages -> Seq(Answers)]
    BY DEF Init
  <2>5. tally \in [Messages -> [Queues -> Tally]]
    BY <1>2 DEF Init
  <2>6. QED
    BY <1>1, <2>1, <2>2, <2>3, <2>4, <2>5 DEF Typed
<1>4. \A m \in Messages : \A q \in Queues : SlotInv(m, q)
  BY QueueNames DEF Init, SlotInv
<1>5. \A m \in Messages : AnswerInv(m)
  <2>1. ASSUME NEW m \in Messages PROVE calls[m] = "none" /\ replies[m] = <<>>
    BY DEF Init
  <2>2. QED
    BY <2>1 DEF AnswerInv
<1>6. ASSUME NEW m \in Messages, NEW q \in Queues PROVE SpoiltTold(m, q, tally[m][q])
  BY DEF Init, SpoiltTold, NoTally
<1>7. QED
  BY <1>1, <1>3, <1>4, <1>5, <1>6 DEF IInv

LEMMA NextIInv ==
  IInv /\ [Next]_vars => IInv'
<1> SUFFICES ASSUME IInv, [Next]_vars PROVE IInv'
  OBVIOUS
<1>1. CASE UNCHANGED vars
  <2>1. Live' = Live
    BY <1>1 DEF vars, Live, BagToSet
  <2>2. Typed'
    BY <1>1, <2>1 DEF IInv, Typed, vars
  <2>3. \A c \in Live' : CopyInv(c)'
    BY <1>1, <2>1 DEF IInv, CopyInv, RetryFree, vars
  <2>4. ASSUME NEW m \in Messages, NEW q \in Queues PROVE SlotInv(m, q)'
    <3>1. Awaiting(m, q)' = Awaiting(m, q) /\ Awaiting(m, q) \subseteq Live
      BY <2>1 DEF Awaiting
    <3>2. QED
      BY <1>1, <2>1, <3>1, SlotStays DEF vars
  <2>5. ASSUME NEW m \in Messages PROVE AnswerInv(m)'
    BY <1>1 DEF IInv, AnswerInv, Served, Spoiled, vars
  <2>6. ASSUME NEW m \in Messages, NEW q \in Queues PROVE SpoiltTold(m, q, tally[m][q])'
    BY <1>1 DEF IInv, SpoiltTold, vars
  <2>7. QED
    BY <2>2, <2>3, <2>4, <2>5, <2>6 DEF IInv
<1>2. ASSUME NEW x \in Active, Subscribe(x) PROVE IInv'
  BY <1>2, SubscribeKeeps
<1>3. ASSUME NEW m \in Messages, Timeout(m) PROVE IInv'
  BY <1>3, TimeoutKeeps
<1>4. ASSUME NEW m \in Messages, HandleRpcReply(m) PROVE IInv'
  BY <1>4, HandleRpcReplyKeeps
<1>5. ASSUME NEW c \in Live, Handle(c) PROVE IInv'
  <2>1. ASSUME NEW x \in Active, Deliver(c, x) PROVE IInv'
    BY <2>1, DeliverKeeps
  <2>2. CASE HandlerSucceeds(c)
    BY <2>2, HandlerSucceedsKeeps
  <2>3. CASE HandlerFails(c)
    BY <2>3, HandlerFailsKeeps
  <2>4. CASE Reply(c)
    BY <2>4, ReplyKeeps
  <2>5. CASE Ack(c)
    BY <2>5, AckKeeps
  <2>6. CASE RetryMessage(c)
    BY <2>6, RetryMessageKeeps
  <2>7. CASE AckRetried(c)
    BY <2>7, AckRetriedKeeps
  <2>8. CASE EndDelay(c)
    BY <2>8, EndDelayKeeps
  <2>9. CASE Nack(c)
    BY <2>9, NackKeeps
  <2>10. QED
    BY <1>5, <2>1, <2>2, <2>3, <2>4, <2>5, <2>6, <2>7, <2>8, <2>9 DEF Handle
<1>6. ASSUME NEW m \in Messages, Publish(m) PROVE IInv'
  BY <1>6, PublishKeeps
<1>7. ASSUME NEW s \in Concerned, Stop(s) PROVE IInv'
  BY <1>7, StopKeeps
<1>8. QED
  BY <1>1, <1>2, <1>3, <1>4, <1>5, <1>6, <1>7 DEF Next, Progress

(* In every reachable state the invariant holds.                           *)
THEOREM MessagesAlways == Spec => []IInv
<1>1. QED
  BY InitIInv, NextIInv, PTL DEF Spec

-----------------------------------------------------------------------------
(* What the runs check                                                     *)

(* Pending is a number; it is 0 when no copy awaits, and that of the copy  *)
(* when one does.                                                          *)
LEMMA PendingFacts ==
  ASSUME IInv, NEW m \in Messages, NEW q \in Queues
  PROVE  /\ Pending(m, q) \in Nat
         /\ Awaiting(m, q) = {} => Pending(m, q) = 0
         /\ Awaiting(m, q) # {} => Pending(m, q) >= 1
         /\ \A c : Awaiting(m, q) = {c} => Pending(m, q) = copies[c]
<1>1. PICK D : D = Awaiting(m, q)
  OBVIOUS
<1>2. D \in SUBSET Live
  BY <1>1 DEF Awaiting
<1>3. IsFiniteSet(D)
  <2>1. IsFiniteSet(Live)
    BY DEF IInv, Typed
  <2>2. QED
    BY ONLY <1>2, <2>1, FS_Subset
<1>4. PICK f : f = [c \in D |-> copies[c]]
  OBVIOUS
<1>5. f \in [D -> Nat \ {0}] /\ \A c \in D : f[c] = copies[c]
  BY <1>2, <1>4 DEF IInv, Typed
<1>6. Pending(m, q) = BagCardinality(f)
  BY <1>1, <1>4 DEF Pending, Awaiting
<1>7. /\ BagCardinality(f) \in Nat
      /\ D = {} => BagCardinality(f) = 0
      /\ D # {} => BagCardinality(f) >= 1
      /\ \A c : D = {c} => BagCardinality(f) = f[c]
  BY ONLY <1>3, <1>5, BagFacts
<1>8. \A c : D = {c} => f[c] = copies[c]
  BY <1>5
<1>9. QED
  BY ONLY <1>1, <1>6, <1>7, <1>8

(* The numbers of a tally.                                                 *)
LEMMA TallyFacts ==
  ASSUME IInv, NEW m \in Messages, NEW q \in Queues
  PROVE  /\ tally[m][q].handled \in Nat /\ tally[m][q].failed \in Nat
         /\ tally[m][q].acked \in Nat /\ tally[m][q].dead \in Nat
         /\ tally[m][q].dropped \in Nat /\ tally[m][q].spoilt \in Nat /\ Ended(m, q) \in Nat
<1>1. tally[m][q] \in Tally
  BY DEF IInv, Typed
<1>2. /\ tally[m][q].handled \in Nat /\ tally[m][q].failed \in Nat
      /\ tally[m][q].acked \in Nat /\ tally[m][q].dead \in Nat
      /\ tally[m][q].dropped \in Nat /\ tally[m][q].spoilt \in Nat
  BY <1>1 DEF Tally
<1>3. QED
  BY <1>2 DEF Ended

LEMMA Accounted ==
  IInv => CopiesAccounted
<1> SUFFICES ASSUME IInv, NEW m \in Messages, NEW q \in Queues
             PROVE  LET n == Pending(m, q) + Ended(m, q) IN
                    IF q \in targets[m]
                    THEN /\ n >= 1
                         /\ <<m, q>> \notin cut =>
                              /\ n = 1 /\ tally[m][q].handled <= 1
                              /\ kind[m].call \/ CommitIsLast(q, kind[m].type)
                                   => Effects(m, q) <= 1
                    ELSE n = 0
  BY DEF CopiesAccounted
<1>1. SlotInv(m, q) /\ \A c \in Live : CopyInv(c)
  BY DEF IInv
<1>2. /\ Pending(m, q) \in Nat
      /\ Awaiting(m, q) = {} => Pending(m, q) = 0
      /\ Awaiting(m, q) # {} => Pending(m, q) >= 1
      /\ \A c : Awaiting(m, q) = {c} => Pending(m, q) = copies[c]
  BY PendingFacts
<1>3. /\ tally[m][q].handled \in Nat /\ tally[m][q].failed \in Nat
      /\ tally[m][q].acked \in Nat /\ Ended(m, q) \in Nat /\ tally[m][q].spoilt \in Nat
  BY TallyFacts
<1>4. CASE q \notin targets[m]
  <2>1. Awaiting(m, q) = {}
    BY <1>1, <1>4 DEF Awaiting, CopyInv
  <2>2. Ended(m, q) = 0
    BY <1>1, <1>4 DEF SlotInv, Ended, NoTally
  <2>3. Pending(m, q) = 0
    BY <1>2, <2>1
  <2>4. QED
    BY <1>4, <2>2, <2>3
<1>5. ASSUME q \in targets[m] PROVE Pending(m, q) + Ended(m, q) >= 1
  <2>1. Pending(m, q) >= 1 \/ Ended(m, q) > 0
    BY <1>1, <1>2, <1>5 DEF SlotInv
  <2>2. QED
    BY ONLY <1>2, <1>3, <2>1
<1>6. ASSUME OneCopy(m, q)
      PROVE  /\ Pending(m, q) + Ended(m, q) = 1 /\ tally[m][q].handled <= 1
             /\ kind[m].call => tally[m][q].handled + tally[m][q].failed <= 1
  <2>1. PICK c \in Live : /\ Awaiting(m, q) = {c} /\ copies[c] = 1
                          /\ IF kind[m].call THEN CallTold(c, tally[m][q])
                                             ELSE EventTold(c, tally[m][q])
    BY <1>6 DEF OneCopy
  <2>2. Pending(m, q) = 1 /\ Ended(m, q) = 0
    BY <1>2, <1>6, <2>1 DEF OneCopy
  <2>3. CallTold(c, tally[m][q]) \/ EventTold(c, tally[m][q])
    BY <2>1
  <2>4. tally[m][q].handled <= 1
    BY <1>3, <2>3 DEF CallTold, EventTold
  <2>5. kind[m].call => tally[m][q].handled + tally[m][q].failed <= 1
    BY <1>3, <2>1 DEF CallTold
  <2>6. QED
    BY <2>2, <2>4, <2>5
<1>7. ASSUME OneEnd(m, q)
      PROVE  /\ Pending(m, q) + Ended(m, q) = 1 /\ tally[m][q].handled <= 1
             /\ kind[m].call => tally[m][q].handled + tally[m][q].failed <= 1
  <2>1. Pending(m, q) = 0 /\ Ended(m, q) = 1
    BY <1>2, <1>7 DEF OneEnd
  <2>2. CallEnded(tally[m][q]) \/ EventEnded(tally[m][q], q)
    BY <1>7 DEF OneEnd
  <2>3. tally[m][q].handled <= 1
    BY <1>3, <2>2 DEF CallEnded, EventEnded
  <2>4. kind[m].call => tally[m][q].handled + tally[m][q].failed <= 1
    BY <1>7 DEF OneEnd, CallEnded
  <2>5. QED
    BY <2>1, <2>3, <2>4
<1>8. q \in targets[m] /\ <<m, q>> \notin cut => OneCopy(m, q) \/ OneEnd(m, q)
  BY <1>1 DEF SlotInv
<1>9. ASSUME q \in targets[m], <<m, q>> \notin cut,
             kind[m].call \/ CommitIsLast(q, kind[m].type)
      PROVE  Effects(m, q) <= 1
  <2>1. PICK h, f, s : /\ h = tally[m][q].handled /\ f = tally[m][q].failed
                       /\ s = tally[m][q].spoilt
    OBVIOUS
  <2>2. h \in Nat /\ f \in Nat /\ s \in Nat
    BY <1>3, <2>1
  <2>3. /\ h <= 1
        /\ kind[m].call => h + f <= 1
    BY <1>6, <1>7, <1>8, <1>9, <2>1
  <2>4. /\ s <= f
        /\ CommitIsLast(q, kind[m].type) => s = 0
    BY <2>1 DEF IInv, SpoiltTold
  <2>5. h + s <= 1
    <3>1. CASE kind[m].call
      BY ONLY <2>2, <2>3, <2>4, <3>1
    <3>2. CASE CommitIsLast(q, kind[m].type)
      BY ONLY <2>2, <2>3, <2>4, <3>2
    <3>3. QED
      BY <1>9, <3>1, <3>2
  <2>6. QED
    BY <2>1, <2>5 DEF Effects
<1>10. QED
  BY <1>4, <1>5, <1>6, <1>7, <1>8, <1>9

LEMMA GivenUp ==
  IInv => GivenUpAfterRetries
<1> SUFFICES ASSUME IInv, NEW m \in Messages, NEW x \in Active, ~kind[m].call,
                    <<m, x.queue>> \notin cut
             PROVE  LET t == tally[m][x.queue]
                        attempts == IF x.retryKey = None THEN 1 ELSE MAX_RETRY_ATTEMPTS + 1
                    IN /\ t.handled + t.failed <= attempts
                       /\ t.dead + t.dropped > 0 => t.failed = attempts /\ t.handled = 0
  BY DEF GivenUpAfterRetries
<1>1. PICK q \in Queues : q = x.queue
  BY DEF Queues
<1>2. SlotInv(m, q) /\ \A c \in Live : CopyInv(c)
  BY DEF IInv
<1>3. MAX_RETRY_ATTEMPTS \in Nat
  BY BrokerAssumption
<1>4. RetryFree(q) <=> x.retryKey = None
  <2>1. \A y \in Active : y.queue = x.queue => (x.retryKey = None <=> y.retryKey = None)
    BY RetryKeys, BrokerAssumption
  <2>2. QED
    BY <1>1, <2>1 DEF RetryFree
<1>5. /\ Attempts(q) = IF x.retryKey = None THEN 1 ELSE MAX_RETRY_ATTEMPTS + 1
      /\ Attempts(q) \in Nat /\ Attempts(q) >= 1
      /\ ~RetryFree(q) => Attempts(q) = MAX_RETRY_ATTEMPTS + 1
  BY <1>3, <1>4 DEF Attempts
<1>6. PICK t : t = tally[m][q]
  OBVIOUS
<1>7. /\ t.handled \in Nat /\ t.failed \in Nat /\ t.acked \in Nat /\ t.dead \in Nat
      /\ t.dropped \in Nat /\ Ended(m, q) = t.acked + t.dead + t.dropped
  BY <1>6, TallyFacts DEF Ended
<1>8. SUFFICES /\ t.handled + t.failed <= Attempts(q)
               /\ t.dead + t.dropped > 0 => t.failed = Attempts(q) /\ t.handled = 0
  BY <1>1, <1>5, <1>6
<1>9. CASE q \notin targets[m]
  <2>1. t.handled = 0 /\ t.failed = 0 /\ t.dead = 0 /\ t.dropped = 0
    BY <1>2, <1>6, <1>9 DEF SlotInv, NoTally
  <2>2. QED
    BY <1>5, <2>1
<1>10. CASE OneCopy(m, q)
  <2>1. PICK c \in Live : Awaiting(m, q) = {c} /\ EventTold(c, t)
    BY <1>6, <1>10 DEF OneCopy
  <2>2. c.retries \in 0..MAX_RETRY_ATTEMPTS /\ (RetryFree(q) => c.retries = 0)
    <3>1. c.queue = q
      BY <2>1 DEF Awaiting
    <3>2. QED
      BY <1>2, <3>1 DEF CopyInv, Copies
  <2>3. \/ t.handled = 0 /\ t.failed \in {c.retries, c.retries + 1}
        \/ t.handled = 1 /\ t.failed = c.retries
    BY <2>1 DEF EventTold
  <2>4. PICK n : n = c.retries
    OBVIOUS
  <2>5. t.handled + t.failed <= Attempts(q)
    BY ONLY <1>3, <1>5, <1>7, <2>2, <2>3, <2>4, RetryFree(q) \/ ~RetryFree(q)
  <2>6. t.acked + t.dead + t.dropped = 0
    BY <1>7, <1>10 DEF OneCopy
  <2>7. QED
    BY <1>7, <2>5, <2>6
<1>11. CASE OneEnd(m, q)
  <2>1. EventEnded(t, q)
    BY <1>6, <1>11 DEF OneEnd
  <2>2. QED
    BY <1>5, <1>7, <2>1 DEF EventEnded
<1>12. QED
  BY <1>1, <1>2, <1>9, <1>10, <1>11 DEF SlotInv

LEMMA Answered ==
  IInv => AnsweredAsHandled
<1> SUFFICES ASSUME IInv, NEW m \in Messages
             PROVE  /\ calls[m] = "resolved" => \E q \in targets[m] : tally[m][q].handled > 0
                    /\ calls[m] = "rejected" =>
                         \E q \in targets[m] :
                           /\ tally[m][q].failed > 0
                           /\ <<m, q>> \notin cut =>
                                /\ tally[m][q].handled = 0
                                /\ CommitIsLast(q, kind[m].type) => Effects(m, q) = 0
  BY DEF AnsweredAsHandled
<1>1. AnswerInv(m)
  BY DEF IInv
<1>2. calls[m] = "resolved" => \E q \in targets[m] : tally[m][q].handled > 0
  BY <1>1 DEF AnswerInv, Served
<1>3. ASSUME calls[m] = "rejected"
      PROVE  \E q \in targets[m] :
               /\ tally[m][q].failed > 0
               /\ <<m, q>> \notin cut =>
                    /\ tally[m][q].handled = 0
                    /\ CommitIsLast(q, kind[m].type) => Effects(m, q) = 0
  <2>1. kind[m].call /\ \E q \in targets[m] : q \in Queues /\ tally[m][q].failed > 0
    BY <1>1, <1>3 DEF AnswerInv, Spoiled
  <2>2. PICK q \in targets[m] : q \in Queues /\ tally[m][q].failed > 0
    BY <2>1
  <2>3. ASSUME <<m, q>> \notin cut PROVE tally[m][q].handled = 0
    <3>1. OneCopy(m, q) \/ OneEnd(m, q)
      BY <2>2, <2>3 DEF IInv, SlotInv
    <3>2. (\E c \in Live : CallTold(c, tally[m][q])) \/ CallEnded(tally[m][q])
      BY <2>1, <3>1 DEF OneCopy, OneEnd
    <3>3. tally[m][q].handled \in Nat /\ tally[m][q].failed \in Nat
      BY <2>2, TallyFacts
    <3>4. PICK h, f : h = tally[m][q].handled /\ f = tally[m][q].failed
      OBVIOUS
    <3>5. (h = 0 /\ f = 0) \/ h + f = 1
      BY <3>2, <3>4 DEF CallTold, CallEnded
    <3>6. QED
      BY ONLY <2>2, <3>3, <3>4, <3>5
  <2>4. CommitIsLast(q, kind[m].type) => tally[m][q].spoilt = 0
    BY <2>2 DEF IInv, SpoiltTold
  <2>5. <<m, q>> \notin cut => (CommitIsLast(q, kind[m].type) => Effects(m, q) = 0)
    BY <2>3, <2>4 DEF Effects
  <2>6. QED
    BY <2>2, <2>3, <2>5
<1>4. QED
  BY <1>2, <1>3

(* No copy is lost or made up: a message routed to a queue lives on there  *)
(* or has been acknowledged, dead-lettered or dropped.  Unless a stop      *)
(* found it handled and not acknowledged, it is in one copy, its handler   *)
(* ends well at most once, and if it is a request or nothing follows the   *)
(* handler's COMMIT, it takes effect at most once, failures included.      *)
(* Nothing of the kind holds of an event or a command whose handler        *)
(* publishes after its COMMIT (handleMessage, retryMessage).               *)
THEOREM NoCopyIsLost == Spec => []CopiesAccounted
BY MessagesAlways, Accounted, PTL

(* A message is given up after its first attempt and all its retries have  *)
(* failed, and no sooner; its handler runs no more often than that,        *)
(* whatever effect each run has (shouldRetry, retryMessage).               *)
THEOREM RetriesAreExact == Spec => []GivenUpAfterRetries
BY MessagesAlways, GivenUp, PTL

(* A caller that hears success was served, and one that hears failure was  *)
(* refused and, unless a process stopped, not served as well.  That        *)
(* nothing was done for it holds where nothing follows the handler's       *)
(* COMMIT, and is not claimed of register, refresh or a checkout session   *)
(* (request, reply, handleRpcReply).                                       *)
THEOREM AnswersAreTrue == Spec => []AnsweredAsHandled
BY MessagesAlways, Answered, PTL
=============================================================================
