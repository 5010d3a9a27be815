------------------------------- MODULE Broker -------------------------------
(***************************************************************************)
(* RabbitMqClient on both sides of RabbitMQ: what becomes of a message     *)
(* from its publication to the last of its copies, and of a request until  *)
(* its promise settles.  A handler's acknowledgement, reply and retry are  *)
(* separate messages to the broker, in this order on one connection: a     *)
(* process that stops in between has sent a prefix of them, and what it    *)
(* had not acknowledged is delivered again.                                *)
(*                                                                         *)
(* The broker itself does not fail.  A message that its publisher never    *)
(* got to the broker is one that was never published.                      *)
(***************************************************************************)
EXTENDS Topology, Integers, Sequences, Bags

CONSTANTS Messages,            \* messages that may be published
          Kinds,               \* [type, exchange, from, call]: publications
          Active,              \* the subscriptions of the services that run
          MAX_RETRY_ATTEMPTS,  \* maxAttempts, the same in every handler
          MaxStops             \* bound: how often processes stop

ASSUME BrokerAssumption ==
  /\ Active \subseteq Subscriptions
  /\ MAX_RETRY_ATTEMPTS \in Nat /\ MaxStops \in Nat

VARIABLES kind,      \* kind[m]: what m is; never changes
          declared,  \* subscriptions whose queues and bindings exist
          consuming, \* subscriptions whose service consumes
          targets,   \* targets[m]: the queues m was routed to, if published
          copies,    \* the bag of copies the broker holds
          calls,     \* calls[m]: the promise of a request
          replies,   \* replies[m]: what is on its way to the caller
          tally,     \* tally[m][q]: what has happened to m in queue q
          cut,       \* the <<m, q>> that a stop found handled, unacknowledged
          stops      \* how often processes have stopped

vars == <<kind, declared, consuming, targets, copies, calls, replies, tally,
          cut, stops>>

Queues   == {x.queue : x \in Active}
NoTally  == [handled |-> 0, failed |-> 0, spoilt |-> 0, acked |-> 0,
             dead |-> 0, dropped |-> 0]
NotSent  == {"not published"}

Init == /\ kind \in [Messages -> Kinds]
        /\ declared = {} /\ consuming = {}
        /\ targets = [m \in Messages |-> NotSent]
        /\ copies = EmptyBag
        /\ calls = [m \in Messages |-> "none"]
        /\ replies = [m \in Messages |-> <<>>]
        /\ tally = [m \in Messages |-> [q \in Queues |-> NoTally]]
        /\ cut = {} /\ stops = 0

-----------------------------------------------------------------------------
(* Copies.  ready and delayed copies lie in a queue and in a retry queue;  *)
(* the others are with the consumer "by".                                  *)

Nobody == Subscription(None, None, None, {}, {}, None, FALSE)

Copy(m, q, n, pc, by) ==
  [msg |-> m, queue |-> q, retries |-> n, pc |-> pc, by |-> by]

Live  == BagToSet(copies)
Ready(m, queues, n) == {Copy(m, q, n, "ready", Nobody) : q \in queues}

(* The copy c is replaced by the copies in S.                              *)
Replace(c, S) == copies' = (copies (-) SetToBag({c})) (+) SetToBag(S)

Goto(c, pc) == Replace(c, {[c EXCEPT !.pc = pc]})

Count(c, field) ==
  tally' = [tally EXCEPT ![c.msg][c.queue][field] = @ + 1]

topology == <<declared, consuming>>
requests == <<calls, replies>>
history  == <<cut, stops>>

-----------------------------------------------------------------------------
(* subscribe, publish, request                                             *)

(* BOUND: only the services that a message is for start and stop, and the  *)
(* ones that publish them stop: what the others do changes nothing here.   *)
Consumers == {x.service : x \in {y \in Active : \E m \in Messages :
                                    kind[m].type \in y.branches}}
Concerned == Consumers \cup {kind[m].from : m \in Messages}

(* Queues and bindings outlive the process.  A service subscribes when it  *)
(* starts.                                                                 *)
Subscribe(x) ==
  /\ x.service \in Consumers /\ x \notin consuming
  /\ consuming' = consuming \cup {x}
  /\ declared' = declared \cup {x}
  /\ UNCHANGED <<kind, targets, copies, requests, tally, history>>

(* publish and, for a call, request: the promise is registered before the  *)
(* message is sent.  With no queue bound to its key the message is gone.   *)
Publish(m) ==
  LET k == kind[m] IN
  /\ targets[m] = NotSent
  /\ targets' = [targets EXCEPT ![m] = Routed(declared, k.exchange, k.type)]
  /\ copies' = copies (+) SetToBag(Ready(m, targets'[m], 0))
  /\ calls' = [calls EXCEPT ![m] = IF k.call THEN "pending" ELSE "none"]
  /\ UNCHANGED <<kind, topology, replies, tally, history>>

(* mutant: no timer runs for a request that no queue has taken.            *)
TimeoutRouted(m) ==
  /\ calls[m] = "pending" /\ targets[m] # {}
  /\ calls' = [calls EXCEPT ![m] = "timed out"]
  /\ UNCHANGED <<kind, topology, targets, copies, replies, tally, history>>

(* The timer of a request, set before it is published.                     *)
Timeout(m) ==
  /\ calls[m] = "pending"
  /\ calls' = [calls EXCEPT ![m] = "timed out"]
  /\ UNCHANGED <<kind, topology, targets, copies, replies, tally, history>>

(* handleRpcReply: only the first answer finds the pending request.        *)
HandleRpcReply(m) ==
  /\ replies[m] # <<>>
  /\ replies' = [replies EXCEPT ![m] = Tail(@)]
  /\ calls' = [calls EXCEPT ![m] = IF @ = "pending" THEN Head(replies[m])
                                   ELSE @]
  /\ UNCHANGED <<kind, topology, targets, copies, tally, history>>

-----------------------------------------------------------------------------
(* handleMessage                                                           *)

Deliver(c, x) ==
  /\ c.pc = "ready"
  /\ x \in consuming /\ x.queue = c.queue
  /\ Replace(c, {[c EXCEPT !.pc = "running", !.by = x]})
  /\ UNCHANGED <<kind, topology, targets, requests, tally, history>>

(* The handlers that do nothing after their COMMIT which can fail, or that *)
(* only read.  Of the others, register and refresh open a session, product *)
(* commands write in several steps, and all of order-, inventory- and      *)
(* payment-service publish, after they have committed something.           *)
CommitIsLast(queue, type) ==
  \/ queue \in {"user.events", "user.commands", "cart.commands",
                "notification.events"}
  \/ type \in {"login", "get_categories", "get_product", "list_products",
               "get_order", "list_orders"}

(* The handler has a branch for the type, and ends well.                   *)
HandlerSucceeds(c) ==
  /\ c.pc = "running"
  /\ kind[c.msg].type \in c.by.branches
  /\ Count(c, "handled")
  /\ Goto(c, "handled")
  /\ UNCHANGED <<kind, topology, targets, requests, history>>

(* The handler throws: before its COMMIT, or (spoilt) after it, when a     *)
(* publish, a request or a later write fails.                              *)
HandlerFails(c) ==
  /\ c.pc = "running"
  /\ \E spoilt \in {0, 1} :
       /\ spoilt = 1 => /\ kind[c.msg].type \in c.by.branches
                        /\ ~CommitIsLast(c.queue, kind[c.msg].type)
       /\ tally' = [tally EXCEPT ![c.msg][c.queue].failed = @ + 1,
                                 ![c.msg][c.queue].spoilt = @ + spoilt]
  /\ Goto(c, "failed")
  /\ UNCHANGED <<kind, topology, targets, requests, history>>

(* mutant: an error is answered as a success is.                           *)
OutcomeMuddled(pc) == "resolved"

(* reply: what the caller is told of the handler's outcome.                *)
Outcome(pc) == IF pc = "handled" THEN "resolved" ELSE "rejected"

Reply(c) ==
  /\ c.pc \in {"handled", "failed"} /\ kind[c.msg].call
  /\ replies' = [replies EXCEPT ![c.msg] = Append(@, Outcome(c.pc))]
  /\ Goto(c, "replied")
  /\ UNCHANGED <<kind, topology, targets, calls, tally, history>>

(* ack, after the reply if there is one.                                   *)
Ack(c) ==
  /\ \/ c.pc = "replied"
     \/ c.pc = "handled" /\ ~kind[c.msg].call
  /\ Count(c, "acked")
  /\ Replace(c, {})
  /\ UNCHANGED <<kind, topology, targets, requests, history>>

(* mutant: a message is retried one time less.                             *)
RetryLess(c) == c.by.retryKey # None /\ c.retries + 1 < MAX_RETRY_ATTEMPTS

ShouldRetry(c) == c.by.retryKey # None /\ c.retries < MAX_RETRY_ATTEMPTS

(* The retry queues bound to the key in the service's retry exchange.      *)
RetryQueues(x) == {y \in declared : /\ y.service = x.service
                                    /\ y.retryKey = x.retryKey}

(* retryMessage: a copy that knows one retry more, before the ack.         *)
RetryMessage(c) ==
  /\ c.pc = "failed" /\ ~kind[c.msg].call
  /\ ShouldRetry(c)
  /\ Replace(c, {[c EXCEPT !.pc = "republished"]} \cup
                {[c EXCEPT !.pc = "delayed", !.retries = @ + 1,
                           !.by = y] : y \in RetryQueues(c.by)})
  /\ UNCHANGED <<kind, topology, targets, requests, tally, history>>

AckRetried(c) ==
  /\ c.pc = "republished"
  /\ Replace(c, {})
  /\ UNCHANGED <<kind, topology, targets, requests, tally, history>>

(* The retry queue's TTL ends: back to the exchange, under the retry key.  *)
EndDelay(c) ==
  /\ c.pc = "delayed"
  /\ Replace(c, Ready(c.msg, Routed(declared, c.by.exchange, c.by.retryKey),
                      c.retries))
  /\ UNCHANGED <<kind, topology, targets, requests, tally, history>>

(* nack without requeue: to the dead-letter queue, if there is one.        *)
Nack(c) ==
  /\ c.pc = "failed" /\ ~kind[c.msg].call
  /\ ~ShouldRetry(c)
  /\ Count(c, IF c.by.deadLetter THEN "dead" ELSE "dropped")
  /\ Replace(c, {})
  /\ UNCHANGED <<kind, topology, targets, requests, history>>

-----------------------------------------------------------------------------
(* A process stops, by close or by a crash.  Its requests are rejected, or *)
(* forgotten with it, and no answer finds them; what its consumers have    *)
(* not acknowledged is ready again.                                        *)

Unacknowledged(service) ==
  {c \in Live : c.by # Nobody /\ c.pc # "delayed" /\ c.by.service = service}

(* The bag of what becomes of the copies in S when the consumer is gone.   *)
Returned(S) ==
  LET Back(c) == [c EXCEPT !.pc = "ready", !.by = Nobody]
      From(b) == {c \in S : Back(c) = b}
  IN [b \in {Back(c) : c \in S} |->
        BagCardinality([c \in From(b) |-> copies[c]])]

RequestsOf(service) == {m \in Messages : /\ kind[m].from = service
                                         /\ calls[m] = "pending"}

Stop(service) ==
  LET back == Unacknowledged(service) IN
  /\ stops < MaxStops
  /\ stops' = stops + 1
  /\ consuming' = {x \in consuming : x.service # service}
  /\ copies' = [c \in Live \ back |-> copies[c]] (+) Returned(back)
  /\ cut' = cut \cup {<<c.msg, c.queue>> :
                        c \in {d \in back : d.pc # "running"}}
  /\ calls' = [m \in Messages |-> IF m \in RequestsOf(service) THEN "closed"
                                  ELSE calls[m]]
  /\ UNCHANGED <<kind, declared, targets, replies, tally>>

-----------------------------------------------------------------------------
(* One step of the consumer of c, or of the broker for c.                  *)
Handle(c) == \/ \E x \in Active : Deliver(c, x)
             \/ HandlerSucceeds(c) \/ HandlerFails(c)
             \/ Reply(c) \/ Ack(c)
             \/ RetryMessage(c) \/ AckRetried(c) \/ EndDelay(c) \/ Nack(c)

(* What happens by itself: a service that is down is started again, the    *)
(* broker delivers what is ready, a handler ends, timers fire.             *)
Progress == \/ \E x \in Active : Subscribe(x)
            \/ \E m \in Messages : Timeout(m) \/ HandleRpcReply(m)
            \/ \E c \in Live : Handle(c)

Next == \/ Progress
        \/ \E m \in Messages : Publish(m)
        \/ \E s \in Concerned : Stop(s)

Fairness == WF_vars(Progress)

Spec == Init /\ [][Next]_vars /\ Fairness

-----------------------------------------------------------------------------
(* Properties                                                              *)

(* The copies of m that live for queue q, but for those that a retry has   *)
(* already replaced.                                                       *)
Pending(m, q) ==
  LET live == {c \in Live : c.msg = m /\ c.queue = q /\ c.pc # "republished"}
  IN BagCardinality([c \in live |-> copies[c]])

(* How often the handler has taken effect.                                 *)
Effects(m, q) == tally[m][q].handled + tally[m][q].spoilt

Ended(m, q) == tally[m][q].acked + tally[m][q].dead + tally[m][q].dropped

(* A message that was routed to a queue is never lost: it lives on, or it  *)
(* was acknowledged, dead-lettered or dropped, and retries bring it back   *)
(* to that queue and to no other.  Unless a process stopped with it        *)
(* handled, or a retry published, and not acknowledged, it is in one copy; *)
(* its handler ends well at most once; and it takes effect at most once    *)
(* if it is a request or nothing follows its handler's COMMIT, however     *)
(* often it is delivered and retried.  An event or a command whose handler *)
(* publishes after its COMMIT may take effect at every attempt, without    *)
(* any stop: there the services' own idempotency checks must hold          *)
(* (handleMessage, retryMessage).                                          *)
CopiesAccounted ==
  \A m \in Messages, q \in Queues :
    LET n == Pending(m, q) + Ended(m, q) IN
    IF q \in targets[m]
    THEN /\ n >= 1
         /\ <<m, q>> \notin cut =>
              /\ n = 1 /\ tally[m][q].handled <= 1
              /\ kind[m].call \/ CommitIsLast(q, kind[m].type) => Effects(m, q) <= 1
    ELSE n = 0

(* A message is given up after the first attempt and maxAttempts retries   *)
(* have failed, no earlier and no later; where there is no retry queue     *)
(* (user.events and its user_registered), after the first failure.  So     *)
(* often, and no more, does a handler run, with whatever effect.           *)
GivenUpAfterRetries ==
  \A m \in Messages : \A x \in Active :
    LET t == tally[m][x.queue]
        attempts == IF x.retryKey = None THEN 1 ELSE MAX_RETRY_ATTEMPTS + 1
    IN (~kind[m].call /\ <<m, x.queue>> \notin cut)
       => /\ t.handled + t.failed <= attempts
          /\ t.dead + t.dropped > 0 => t.failed = attempts /\ t.handled = 0

(* A caller whose request resolves has been served, and one whose request  *)
(* is rejected was refused, whatever answers were late.  Unless a process  *)
(* stopped meanwhile, the rejected request was not also served, and may be *)
(* repeated if nothing follows its handler's COMMIT: then it took no       *)
(* effect.  One to register, to refresh or to create a checkout session    *)
(* may have taken effect and be rejected all the same; and after a timeout *)
(* the caller knows nothing.                                               *)
AnsweredAsHandled ==
  \A m \in Messages :
    /\ calls[m] = "resolved" => \E q \in targets[m] : tally[m][q].handled > 0
    /\ calls[m] = "rejected" =>
         \E q \in targets[m] :
           /\ tally[m][q].failed > 0
           /\ <<m, q>> \notin cut =>
                /\ tally[m][q].handled = 0
                /\ CommitIsLast(q, kind[m].type) => Effects(m, q) = 0

(* Every message is settled in the end: no copy is left in a queue or in a *)
(* retry queue, and no request waits for ever, be its queue not declared,  *)
(* its answer lost or its handler failing each time.                       *)
EverythingSettles ==
  \A m \in Messages :
    (targets[m] # NotSent)
      ~> (calls[m] # "pending" /\ \A c \in Live : c.msg # m)
=============================================================================
