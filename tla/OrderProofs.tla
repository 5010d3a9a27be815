---------------------------- MODULE OrderProofs ----------------------------
(***************************************************************************)
(* Proofs about order-service, for every set of orders, carts, handlers at *)
(* once and statuses an administrator sets, and every number of jobs.      *)
(***************************************************************************)
EXTENDS Order, FiniteSetTheorems, SequenceTheorems, TLAPS

Handlers == StockEvents \cup PaymentEvents \cup
            {"update_status", "mark_payment_pending", "fail_checkout"}

(* What a job may still have to publish.                                   *)
Outs == {<<>>, <<"order_created", "reserve_stock">>, <<"reserve_stock">>,
         <<"order_created">>, <<"request_payment">>, <<"order_cancelled">>,
         <<"order_confirmed", "confirm_stock", "clear_cart">>,
         <<"confirm_stock", "clear_cart">>, <<"clear_cart">>,
         <<"order_cancelled", "release_stock">>, <<"release_stock">>}

Has(out, m) == \E i \in 1..Len(out) : out[i] = m

GoodJob == {job \in Job :
  /\ job.out \in Outs
  /\ job.pc = "publish" <=> job.out # <<>>
  /\ job.pc \in {"read", "write"} => job.kind \in Handlers
  /\ job.kind = "update_status" => job.target \in AdminStatuses
  /\ job.pc = "write" => Accepts(job.kind, job.seen)}

Typed ==
  /\ orders  \in [Orders -> [status : Statuses, cart : Carts \cup {NoCart},
                            payment : {"NONE", "PENDING", "APPROVED", "REJECTED"}]]
  /\ history \in [Orders -> Seq(Statuses \ {"NONE"})]
  /\ answer  \in [Orders -> {"none", "PENDING", "FAILED"}]
  /\ sent    \in [Orders -> [Messages -> Nat]]
  /\ jobs    \in [Workers -> GoodJob \cup {Idle}]
  /\ unsaid  \subseteq Orders
  /\ started \in 0..MaxJobs

(* The messages that follow a decision, and the status it is known by.     *)
Decision == [m \in {"order_created", "confirm_stock", "clear_cart", "release_stock"} |->
               CASE m = "order_created" -> "PENDING"
                 [] m = "release_stock" -> "CANCELLED"
                 [] OTHER               -> "CONFIRMED"]
Settling == DOMAIN Decision

Tells(w, m, o) == /\ jobs[w].pc = "publish" /\ jobs[w].order = o
                  /\ Has(jobs[w].out, m)

Tellers(m, o) == {w \in Workers : Tells(w, m, o)}

(* A decision's message has been sent, or a handler is about to send it, no *)
(* more often than the decision was made.                                  *)
ToldInv(o) == \A m \in Settling :
                sent[o][m] + Cardinality(Tellers(m, o)) <= TimesIn(Decision[m], o)

CreatedInv(o) ==
  /\ orders[o].status = "NONE" => history[o] = <<>>
  /\ "PENDING" \notin AdminStatuses => TimesIn("PENDING", o) <= 1

ApprovedInv(o) ==
  "CONFIRMED" \notin AdminStatuses /\ orders[o].status = "CONFIRMED"
    => orders[o].payment = "APPROVED"

OrderInv(o) == ToldInv(o) /\ CreatedInv(o) /\ ApprovedInv(o)

IInv == Typed /\ \A o \in Orders : OrderInv(o)

-----------------------------------------------------------------------------
(* Messages and jobs                                                       *)

(* What is left of a job's messages when the first is published, and what  *)
(* it held.                                                                *)
LEMMA OutsAre ==
  ASSUME NEW out \in Outs
  PROVE  /\ out \in Seq(Messages) /\ Len(out) \in Nat
         /\ out # <<>> =>
              /\ Head(out) \in Messages
              /\ Len(out) > 1 => Tail(out) \in Outs \ {<<>>}
              /\ Has(out, Head(out))
              /\ Len(out) > 1 => ~Has(Tail(out), Head(out))
              /\ Len(out) > 1 => \A m : Has(Tail(out), m) => Has(out, m)
              /\ Len(out) <= 1 => \A m : Has(out, m) => m = Head(out)
              /\ Len(out) > 1 => \A m : Has(out, m) => m = Head(out) \/ Has(Tail(out), m)
         /\ ~\E m : Has(<<>>, m)
<1>1. out \in Seq(Messages) /\ Len(out) \in Nat
  <2>1. \/ out = <<>>
        \/ \E a \in Messages : out = <<a>>
        \/ \E a, b \in Messages : out = <<a, b>>
        \/ \E a, b, c \in Messages : out = <<a, b, c>>
    BY DEF Outs, Messages
  <2>2. CASE out = <<>>
    BY <2>2
  <2>3. ASSUME NEW a \in Messages, out = <<a>>
        PROVE  out \in Seq(Messages) /\ Len(out) \in Nat
    BY <2>3
  <2>4. ASSUME NEW a \in Messages, NEW b \in Messages, out = <<a, b>>
        PROVE  out \in Seq(Messages) /\ Len(out) \in Nat
    BY <2>4
  <2>5. ASSUME NEW a \in Messages, NEW b \in Messages, NEW c \in Messages,
               out = <<a, b, c>>
        PROVE  out \in Seq(Messages) /\ Len(out) \in Nat
    BY <2>5
  <2>6. QED
    BY <2>1, <2>2, <2>3, <2>4, <2>5
<1>2. ~\E m : Has(<<>>, m)
  BY DEF Has
<1>3. ASSUME out # <<>>, Len(out) > 1
      PROVE  /\ Head(out) \in Messages
             /\ Tail(out) \in Outs \ {<<>>}
             /\ Has(out, Head(out)) /\ ~Has(Tail(out), Head(out))
             /\ \A m : Has(Tail(out), m) => Has(out, m)
             /\ \A m : Has(out, m) => m = Head(out) \/ Has(Tail(out), m)
  <2>1. CASE out = <<"order_created", "reserve_stock">>
    BY <2>1 DEF Outs, Messages, Has
  <2>2. CASE out = <<"order_confirmed", "confirm_stock", "clear_cart">>
    BY <2>2 DEF Outs, Messages, Has
  <2>3. CASE out = <<"confirm_stock", "clear_cart">>
    BY <2>3 DEF Outs, Messages, Has
  <2>4. CASE out = <<"order_cancelled", "release_stock">>
    BY <2>4 DEF Outs, Messages, Has
  <2>5. QED
    BY <1>3, <2>1, <2>2, <2>3, <2>4, SMTT(30) DEF Outs
<1>4. ASSUME out # <<>>, ~(Len(out) > 1)
      PROVE  /\ Head(out) \in Messages /\ Has(out, Head(out))
             /\ \A m : Has(out, m) => m = Head(out)
  <2>1. \E m \in Messages : out = <<m>>
    BY <1>4 DEF Outs, Messages
  <2>2. QED
    BY <2>1 DEF Has
<1>5. QED
  BY <1>1, <1>2, <1>3, <1>4

(* A list of one message.                                                  *)
LEMMA HasOne ==
  ASSUME NEW m, NEW n, Has(<<m>>, n)
  PROVE  n = m
<1>1. PICK i \in 1..Len(<<m>>) : <<m>>[i] = n
  BY DEF Has
<1>2. Len(<<m>>) = 1 /\ <<m>>[1] = m
  OBVIOUS
<1>3. QED
  BY <1>1, <1>2

(* A job that goes on to publish, and one that goes on otherwise.          *)
LEMMA SayIsGood ==
  ASSUME NEW job \in GoodJob, NEW messages \in Outs \ {<<>>},
         NEW then \in {"idle", "open session", "await stock", "await payment"}
  PROVE  /\ Say(job, messages, then) \in GoodJob
         /\ Say(job, messages, then).pc = "publish"
         /\ Say(job, messages, then).order = job.order
         /\ Say(job, messages, then).out = messages
<1> DEFINE new == [job EXCEPT !.pc = "publish", !.seen = "NONE", !.out = messages,
                              !.then = then]
<1>1. /\ new.pc = "publish" /\ new.order = job.order /\ new.out = messages
      /\ new.kind = job.kind /\ new.target = job.target
  BY DEF GoodJob, Job
<1>2. new \in Job
  <2>1. messages \in Seq(Messages) /\ job \in Job /\ "NONE" \in Statuses
    BY OutsAre DEF GoodJob, Statuses
  <2>2. QED
    BY <2>1 DEF Job
<1>3. new \in GoodJob
  BY <1>1, <1>2 DEF GoodJob
<1>4. QED
  BY <1>1, <1>3 DEF Say

(* A job of a checkout that goes on without writing or publishing.         *)
LEMMA GoesOn ==
  ASSUME NEW job \in GoodJob, job.pc # "publish",
         NEW pc \in {"insert", "open session"}
  PROVE  /\ [job EXCEPT !.pc = pc] \in GoodJob
         /\ [job EXCEPT !.pc = pc].pc = pc
BY DEF GoodJob, Job

(* The step of a job: where it goes, and that it leaves the others alone.  *)
Goes(w, job) == /\ jobs' \in [Workers -> GoodJob \cup {Idle}]
                /\ jobs'[w] = job
                /\ \A x \in Workers \ {w} : jobs'[x] = jobs[x]

(* A step of a job moves that job, and no other.                           *)
LEMMA GotoGoes ==
  ASSUME Typed, NEW w \in Workers, NEW job \in GoodJob \cup {Idle}, Goto(w, job)
  PROVE  Goes(w, job)
BY DEF Typed, Goto, Goes

(* The steps that write nothing and publish nothing.                       *)
Begins(w) ==
  \/ \E o \in Orders, kind \in Commands, cart \in Carts : Start(w, o, kind, cart, "NONE")
  \/ \E o \in Orders, kind \in StockEvents \cup PaymentEvents :
       Start(w, o, kind, NoCart, "NONE")
  \/ \E o \in Orders, target \in AdminStatuses : UpdateOrderStatus(w, o, target)

Refused(w) == InsertOrder(w) /\ orders[jobs[w].order].status # "NONE"

Quietly(w) == Begins(w) \/ FindKey(w) \/ Refused(w) \/ OpenSession(w) \/ StockReply(w)
              \/ PaymentReply(w) \/ PaymentError(w) \/ Read(w) \/ Fail(w)

Quiet(w) ==
  /\ UNCHANGED <<orders, history, answer, sent>>
  /\ \A x \in Workers \ {w} : jobs'[x] = jobs[x]
  /\ \A m \in Settling : \A o : Tells(w, m, o)' => Tells(w, m, o)

(* The steps that write nothing and publish nothing keep the types, and    *)
(* leave no handler with a message to publish that it had not before.      *)
LEMMA QuietlyIs ==
  ASSUME Typed, NEW w \in Workers, Quietly(w)
  PROVE  Typed' /\ Quiet(w)
<1>0. jobs[w] \in GoodJob \cup {Idle} /\ (jobs[w].pc # "idle" => jobs[w] \in GoodJob)
  BY DEF Typed, Idle
<1>1. ASSUME NEW job \in GoodJob \cup {Idle}, Goto(w, job),
             \A m \in Settling : ~Has(job.out, m) \/ job.pc = "idle",
             UNCHANGED <<orders, history, answer, sent>>,
             started' \in 0..MaxJobs, unsaid' \subseteq Orders
      PROVE  Typed' /\ Quiet(w)
  <2>1. Goes(w, job)
    BY <1>1, GotoGoes
  <2>2. QED
    BY <1>1, <2>1 DEF Goes, Typed, Quiet, Tells
<1>2. ASSUME NEW job \in GoodJob, job.pc # "publish"
      PROVE  \A m \in Settling : ~Has(job.out, m)
  BY <1>2, OutsAre DEF GoodJob
<1>3. ASSUME NEW o \in Orders, NEW kind, NEW cart \in Carts \cup {NoCart},
             NEW target \in AdminStatuses \cup {"NONE"},
             kind \in Commands \/ kind \in StockEvents \cup PaymentEvents
               \/ (kind = "update_status" /\ target \in AdminStatuses),
             Start(w, o, kind, cart, target)
      PROVE  Typed' /\ Quiet(w)
  <2> DEFINE job == [pc |-> IF kind \in Commands THEN "find key" ELSE "read",
                     kind |-> kind, order |-> o, cart |-> cart, target |-> target,
                     seen |-> "NONE", out |-> <<>>, then |-> "idle"]
  <2>1. job \in Job
    <3>1. job.pc \in {"find key", "read"} /\ "NONE" \in Statuses /\ <<>> \in Seq(Messages)
      BY DEF Statuses
    <3>2. kind \in Commands \cup StockEvents \cup PaymentEvents \cup
               {"update_status", "mark_payment_pending", "fail_checkout"}
      BY <1>3
    <3>3. QED
      BY <3>1, <3>2 DEF Job
  <2>2. job.pc \in {"find key", "read"} /\ job.out = <<>> /\ job.kind = kind
        /\ job.target = target /\ (job.pc = "read" => kind \notin Commands)
    OBVIOUS
  <2>3. job.kind = "update_status" => job.target \in AdminStatuses
    BY <1>3, <2>2 DEF Commands, StockEvents, PaymentEvents
  <2>4. Goto(w, job) /\ started' \in 0..MaxJobs
        /\ UNCHANGED <<orders, history, answer, sent, unsaid>>
    <3>1. started < MaxJobs /\ started' = started + 1 /\ Goto(w, job)
          /\ UNCHANGED <<orders, history, answer, sent, unsaid>>
      BY <1>3 DEF Start
    <3>2. started' \in 0..MaxJobs
      <4>1. started \in Int /\ 0 <= started /\ MaxJobs \in Int
        BY OrderAssumption DEF Typed
      <4>2. started < MaxJobs /\ started' = started + 1
        BY <3>1
      <4>3. QED
        BY ONLY <4>1, <4>2
    <3>3. QED
      BY <3>1, <3>2
  <2> HIDE DEF job
  <2>5. job.out \in Outs /\ (job.pc \in {"read", "write"} => job.kind \in Handlers)
    BY <1>3, <2>2 DEF Outs, Handlers
  <2>6. job \in GoodJob
    BY <2>1, <2>2, <2>3, <2>5 DEF GoodJob
  <2>7. QED
    BY <1>1, <1>2, <2>2, <2>4, <2>6 DEF Typed
<1>4. CASE Begins(w)
  BY <1>3, <1>4 DEF Begins, UpdateOrderStatus
<1>5. CASE FindKey(w)
  <2>1. jobs[w] \in GoodJob /\ jobs[w].pc = "find key"
    BY <1>0, <1>5 DEF FindKey
  <2>2. PICK job \in {[jobs[w] EXCEPT !.pc = "insert"],
                      [jobs[w] EXCEPT !.pc = "open session"], Idle} : Goto(w, job)
    BY <1>5 DEF FindKey
  <2>3. job = Idle \/ (job \in GoodJob /\ job.pc # "publish")
    BY <2>1, <2>2, GoesOn
  <2>4. UNCHANGED <<orders, history, answer, sent, unsaid, started>>
    BY <1>5 DEF FindKey
  <2>5. QED
    BY <1>1, <1>2, <2>2, <2>3, <2>4 DEF Idle, Typed
<1>6. CASE Refused(w)
  BY <1>1, <1>6 DEF Refused, InsertOrder, Idle, Typed
<1>7. CASE OpenSession(w)
  <2>1. jobs[w] \in GoodJob
    BY <1>0, <1>7 DEF OpenSession
  <2>2. PICK job \in {Say(jobs[w], <<"reserve_stock">>, "await stock"),
                      Say(jobs[w], <<"request_payment">>, "await payment"), Idle} :
          Goto(w, job)
    BY <1>7 DEF OpenSession
  <2>3. UNCHANGED <<orders, history, answer, sent, unsaid, started>>
    BY <1>7 DEF OpenSession
  <2>4. ASSUME NEW m \in {"reserve_stock", "request_payment"},
               NEW then \in {"await stock", "await payment"},
               job = Say(jobs[w], <<m>>, then)
        PROVE  Typed' /\ Quiet(w)
    <3>1. <<m>> \in Outs \ {<<>>}
      BY DEF Outs
    <3>2. job \in GoodJob /\ job.out = <<m>>
      <4>1. PICK out : out = <<m>>
        OBVIOUS
      <4>2. out \in Outs \ {<<>>} /\ jobs[w] \in GoodJob
            /\ then \in {"idle", "open session", "await stock", "await payment"}
        BY <2>1, <3>1, <4>1
      <4>4. Say(jobs[w], out, then) \in GoodJob /\ Say(jobs[w], out, then).out = out
        BY ONLY <4>2, SayIsGood
      <4>5. QED
        BY <2>4, <4>1, <4>4
    <3>3. \A n \in Settling : ~Has(job.out, n)
      <4>1. \A n : Has(<<m>>, n) => n = m
        BY HasOne
      <4>2. m \notin Settling
        BY DEF Settling, Decision
      <4>3. QED
        BY <3>2, <4>1, <4>2
    <3>4. QED
      BY <1>1, <2>2, <2>3, <3>2, <3>3 DEF Typed
  <2>5. CASE job = Idle
    BY <1>1, <2>2, <2>3, <2>5 DEF Idle, Typed
  <2>6. QED
    BY <2>2, <2>4, <2>5
<1>8. CASE StockReply(w) \/ PaymentError(w)
  <2>1. jobs[w] \in GoodJob /\ jobs[w].pc # "publish"
    BY <1>0, <1>8 DEF StockReply, PaymentError
  <2>2. PICK kind \in {"mark_payment_pending", "fail_checkout"} :
          Goto(w, [jobs[w] EXCEPT !.pc = "read", !.kind = kind])
    BY <1>8 DEF StockReply, PaymentError
  <2> DEFINE job == [jobs[w] EXCEPT !.pc = "read", !.kind = kind]
  <2>3. job \in GoodJob /\ job.pc = "read"
    BY <2>1 DEF GoodJob, Job, Handlers
  <2>4. UNCHANGED <<orders, history, answer, sent, unsaid, started>>
    BY <1>8 DEF StockReply, PaymentError
  <2> HIDE DEF job
  <2>5. QED
    BY <1>1, <1>2, <2>2, <2>3, <2>4 DEF job, Typed
<1>9. CASE PaymentReply(w)
  <2>1. Goto(w, Idle) /\ UNCHANGED <<orders, history, answer, sent, unsaid, started>>
    BY <1>9 DEF PaymentReply
  <2>2. QED
    BY <1>1, <2>1 DEF Idle, Typed
<1>10. CASE Read(w)
  <2> DEFINE status == orders[jobs[w].order].status
             job == [jobs[w] EXCEPT !.pc = "write", !.seen = status]
  <2>1. jobs[w] \in GoodJob /\ jobs[w].pc = "read"
    BY <1>0, <1>10 DEF Read
  <2>2. status \in Statuses
    BY <2>1 DEF Typed, GoodJob, Job
  <2>3. Goto(w, IF Accepts(jobs[w].kind, status) THEN job ELSE Idle)
        /\ UNCHANGED <<orders, history, answer, sent, unsaid, started>>
    BY <1>10 DEF Read
  <2> HIDE DEF status
  <2>4. job \in Job /\ job.pc = "write" /\ job.seen = status /\ job.out = jobs[w].out
        /\ job.kind = jobs[w].kind /\ job.target = jobs[w].target
    BY <2>1, <2>2 DEF GoodJob, Job
  <2> HIDE DEF job
  <2>5. Accepts(jobs[w].kind, status) => job \in GoodJob
    BY <2>1, <2>4 DEF GoodJob
  <2>6. QED
    BY <1>1, <1>2, <2>3, <2>4, <2>5 DEF Idle, Typed
<1>11. CASE Fail(w)
  <2>1. unsaid' \subseteq Orders
    BY <1>0, <1>11 DEF Fail, Typed, GoodJob, Job
  <2>2. QED
    BY <1>1, <1>11, <2>1 DEF Fail, Idle, Typed
<1>12. QED
  BY <1>4, <1>5, <1>6, <1>7, <1>8, <1>9, <1>10, <1>11 DEF Quietly

-----------------------------------------------------------------------------
(* Counting                                                                *)

Count(h, x) == Cardinality({i \in DOMAIN h : h[i] = x})

(* How often a status is in a history, when one is written to it.          *)
LEMMA CountAppend ==
  ASSUME NEW S, NEW h \in Seq(S), NEW y \in S, NEW x
  PROVE  /\ Count(h, x) \in Nat
         /\ Count(Append(h, y), x) = Count(h, x) + IF y = x THEN 1 ELSE 0
<1> DEFINE at == {i \in DOMAIN h : h[i] = x}
           l == Len(h) + 1
<1>1. IsFiniteSet(at)
  <2>1. IsFiniteSet(1..Len(h))
    BY FS_Interval
  <2>2. at \subseteq 1..Len(h)
    OBVIOUS
  <2>3. QED
    BY <2>1, <2>2, FS_Subset
<1>2. {i \in DOMAIN Append(h, y) : Append(h, y)[i] = x}
        = at \cup (IF y = x THEN {l} ELSE {})
  OBVIOUS
<1>3. l \notin at
  OBVIOUS
<1>4. Cardinality(at) \in Nat
  BY <1>1, FS_CardinalityType
<1>5. Cardinality(at \cup {l}) = Cardinality(at) + 1
  BY <1>1, <1>3, FS_AddElement
<1>6. CASE y = x
  BY <1>2, <1>4, <1>5, <1>6 DEF Count
<1>7. CASE y # x
  <2>1. {i \in DOMAIN Append(h, y) : Append(h, y)[i] = x} = at
    BY <1>2, <1>7
  <2>2. Count(Append(h, y), x) = Cardinality(at)
    BY <2>1 DEF Count
  <2>3. Count(h, x) = Cardinality(at)
    BY DEF Count
  <2> HIDE DEF at
  <2>4. QED
    BY <1>4, <1>7, <2>2, <2>3
<1>8. QED
  BY <1>6, <1>7

(* How often a status is in a history to which one or two are written.     *)
LEMMA CountTwo ==
  ASSUME NEW S, NEW h \in Seq(S), NEW a \in S, NEW b \in S, NEW x
  PROVE  /\ h \o <<>> = h
         /\ h \o <<b>> = Append(h, b)
         /\ h \o <<a, b>> = Append(Append(h, a), b)
         /\ Count(h, x) \in Nat
         /\ Count(h \o <<b>>, x) = Count(h, x) + IF b = x THEN 1 ELSE 0
         /\ Count(h \o <<a, b>>, x) = Count(h, x) + (IF a = x THEN 1 ELSE 0)
                                                  + (IF b = x THEN 1 ELSE 0)
<1>1. /\ h \o <<>> = h
      /\ h \o <<b>> = Append(h, b)
      /\ h \o <<a, b>> = Append(Append(h, a), b)
  OBVIOUS
<1>2. Append(h, a) \in Seq(S)
  OBVIOUS
<1>3. PICK g : g = Append(h, a)
  OBVIOUS
<1>4. /\ Count(h, x) \in Nat
      /\ Count(Append(h, b), x) = Count(h, x) + IF b = x THEN 1 ELSE 0
      /\ Count(Append(h, a), x) = Count(h, x) + IF a = x THEN 1 ELSE 0
  BY CountAppend
<1>5. Count(Append(g, b), x) = Count(g, x) + IF b = x THEN 1 ELSE 0
  <2>1. g \in Seq(S)
    BY <1>2, <1>3
  <2> HIDE <1>3
  <2>2. QED
    BY ONLY <2>1, b \in S, CountAppend
<1>6. QED
  BY ONLY <1>1, <1>3, <1>4, <1>5

(* How many handlers are about to say something.                           *)
LEMMA TellersCount ==
  ASSUME NEW m, NEW o
  PROVE  /\ IsFiniteSet(Tellers(m, o)) /\ Cardinality(Tellers(m, o)) \in Nat
         /\ Cardinality(Tellers(m, o))' \in Nat
BY OrderAssumption, FS_Subset, FS_CardinalityType DEF Tellers

(* No handler more that is about to say it.                                *)
LEMMA TellersLess ==
  ASSUME NEW m, NEW o, \A x \in Workers : Tells(x, m, o)' => Tells(x, m, o)
  PROVE  Cardinality(Tellers(m, o))' <= Cardinality(Tellers(m, o))
BY TellersCount, FS_Subset DEF Tellers

-----------------------------------------------------------------------------
(* The statuses a transaction writes                                       *)

Cancelling == {"stock_reservation_failed", "payment_failed", "fail_checkout"}
Pending    == {"payment_pending", "preference_created"}
Reserving  == {"stock_reserved", "mark_payment_pending"}

(* At most two statuses, of which the second is known by the handler.      *)
StepsAre(job, now, a, b) ==
  /\ a \in {"STOCK_RESERVED", "FAILED", "PAID"} /\ b \in Statuses \ {"NONE"}
  /\ Transitions(job, now) \in {<<>>, <<b>>, <<a, b>>}
  /\ job.kind = "payment_succeeded" =>
       b = "CONFIRMED" /\ Transitions(job, now) # <<>>
  /\ job.kind \in Cancelling =>
       b = "CANCELLED" /\ Transitions(job, now) # <<>>
  /\ job.kind \in Reserving => b = "PAYMENT_PENDING"
  /\ job.kind \in Pending =>
       b = "PAYMENT_PENDING" /\ (Transitions(job, now) = <<>> => now = "PAYMENT_PENDING")
  /\ job.kind = "update_status" => b = job.target /\ b \in AdminStatuses

(* The statuses that transitionStatus writes for a handler.                *)
LEMMA TransitionsAre ==
  ASSUME NEW job \in GoodJob, job.pc = "write", NEW now
  PROVE  \E a, b : StepsAre(job, now, a, b)
<1> USE DEF Transitions, StepsAre, Unless, Reopening, Cancelling, Pending, Reserving,
        Statuses, StockEvents, PaymentEvents
<1>1. job.kind \in Handlers
  BY DEF GoodJob
<1>2. CASE job.kind \in Reserving
  <2>1. Transitions(job, now) \in {<<>>, <<"STOCK_RESERVED", "PAYMENT_PENDING">>}
    BY <1>2
  <2>2. StepsAre(job, now, "STOCK_RESERVED", "PAYMENT_PENDING")
    BY <1>2, <2>1
  <2>3. QED
    BY <2>2
<1>3. CASE job.kind = "payment_succeeded"
  <2>1. Tail(<<"PAID", "CONFIRMED">>) = <<"CONFIRMED">>
    OBVIOUS
  <2>2. Transitions(job, now) \in {<<"CONFIRMED">>, <<"PAID", "CONFIRMED">>}
    BY <1>3, <2>1
  <2>3. StepsAre(job, now, "PAID", "CONFIRMED")
    BY <1>3, <2>2
  <2>4. QED
    BY <2>3
<1>4. CASE job.kind \in Cancelling
  <2>1. Tail(<<"FAILED", "CANCELLED">>) = <<"CANCELLED">>
    OBVIOUS
  <2>2. Transitions(job, now) \in {<<"CANCELLED">>, <<"FAILED", "CANCELLED">>}
    BY <1>4, <2>1
  <2>3. StepsAre(job, now, "FAILED", "CANCELLED")
    BY <1>4, <2>2
  <2>4. QED
    BY <2>3
<1>5. CASE job.kind \in Pending
  <2>1. Tail(<<"PAYMENT_PENDING">>) = <<>>
    OBVIOUS
  <2>2. Transitions(job, now) = <<"PAYMENT_PENDING">>
        \/ (Transitions(job, now) = <<>> /\ now = "PAYMENT_PENDING")
    BY <1>5, <2>1
  <2>3. StepsAre(job, now, "PAID", "PAYMENT_PENDING")
    BY <1>5, <2>2
  <2>4. QED
    BY <2>3
<1>6. CASE job.kind = "update_status"
  <2>1. Tail(<<job.target>>) = <<>>
    OBVIOUS
  <2>2. Transitions(job, now) \in {<<job.target>>, <<>>}
    BY <1>6, <2>1
  <2>3. job.target \in AdminStatuses /\ job.target \in Statuses \ {"NONE"}
    BY <1>6, OrderAssumption DEF GoodJob
  <2>4. StepsAre(job, now, "PAID", job.target)
    BY <1>6, <2>2, <2>3
  <2>5. QED
    BY <2>4
<1>7. QED
  BY <1>1, <1>2, <1>3, <1>4, <1>5, <1>6 DEF Handlers

(* What a transaction leaves when it commits, and what its handler is then *)
(* about to say.                                                           *)
Wrote(w, a, b) ==
  LET o == jobs[w].order
      h == history[o]
  IN /\ StepsAre(jobs[w], orders[o].status, a, b)
     /\ \/ /\ Transitions(jobs[w], orders[o].status) = <<>>
           /\ history'[o] = h /\ orders'[o].status = orders[o].status
        \/ /\ history'[o] = h \o <<b>> \/ history'[o] = h \o <<a, b>>
           /\ history'[o] \in Seq(Statuses \ {"NONE"})
           /\ Transitions(jobs[w], orders[o].status) # <<>>
           /\ orders'[o].status = b
     /\ orders'[o].payment = PaymentStatus(jobs[w].kind, orders[o].payment)
     /\ \A p \in Orders \ {o} : orders'[p] = orders[p] /\ history'[p] = history[p]
     /\ \A x \in Workers \ {w} : jobs'[x] = jobs[x]
     /\ \A m \in Settling : \A p : Tells(w, m, p)' =>
          /\ p = o
          /\ \/ jobs[w].kind = "payment_succeeded" /\ m \in {"confirm_stock", "clear_cart"}
             \/ jobs[w].kind \in Cancelling /\ m = "release_stock"
     /\ UNCHANGED <<answer, sent>>

(* What a handler that has committed is about to say.                      *)
SaysAfter(w, job) ==
  /\ job \in GoodJob \cup {Idle}
  /\ job = Idle \/ (job.pc = "publish" /\ job.order = jobs[w].order)
  /\ job # Idle => \A m \in Settling : Has(job.out, m) =>
       \/ jobs[w].kind = "payment_succeeded" /\ m \in {"confirm_stock", "clear_cart"}
       \/ jobs[w].kind \in Cancelling /\ m = "release_stock"

(* A handler that has committed says what follows from its decision.       *)
LEMMA CommittedIs ==
  ASSUME NEW w \in Workers, jobs[w] \in GoodJob, jobs[w].pc = "write", NEW status
  PROVE  SaysAfter(w, Committed(w, status))
<1>1. SaysAfter(w, Idle)
  BY DEF SaysAfter
<1>2. ASSUME NEW messages \in Outs \ {<<>>},
             NEW then \in {"idle", "open session", "await stock", "await payment"},
             \A m \in Settling : Has(messages, m) =>
                   \/ jobs[w].kind = "payment_succeeded" /\ m \in {"confirm_stock", "clear_cart"}
                   \/ jobs[w].kind \in Cancelling /\ m = "release_stock"
      PROVE  SaysAfter(w, Say(jobs[w], messages, then))
  <2>1. PICK job : job = Say(jobs[w], messages, then)
    OBVIOUS
  <2>2. job \in GoodJob /\ job.pc = "publish" /\ job.order = jobs[w].order
        /\ job.out = messages
    BY ONLY <2>1, jobs[w] \in GoodJob, messages \in Outs \ {<<>>}, SayIsGood,
       then \in {"idle", "open session", "await stock", "await payment"}, ZenonT(120)
  <2>3. SaysAfter(w, job)
    BY <1>2, <2>2 DEF SaysAfter
  <2>4. QED
    BY <2>1, <2>3
<1>3. jobs[w].kind \in Handlers
  BY DEF GoodJob
<1>4. \A m \in Settling : ~Has(<<"request_payment">>, m)
  BY HasOne DEF Settling, Decision
<1>5. \A m \in Settling : ~Has(<<"order_cancelled">>, m)
  BY HasOne DEF Settling, Decision
<1>6. \A m \in Settling : Has(<<"order_cancelled", "release_stock">>, m) =>
         m = "release_stock"
  BY DEF Settling, Decision, Has
<1>7. \A m \in Settling : Has(<<"order_confirmed", "confirm_stock", "clear_cart">>, m) =>
         m \in {"confirm_stock", "clear_cart"}
  BY DEF Settling, Decision, Has
<1>8. /\ <<"request_payment">> \in Outs \ {<<>>} /\ <<"order_cancelled">> \in Outs \ {<<>>}
      /\ <<"order_cancelled", "release_stock">> \in Outs \ {<<>>}
      /\ <<"order_confirmed", "confirm_stock", "clear_cart">> \in Outs \ {<<>>}
  BY DEF Outs
<1>9. CASE jobs[w].kind = "mark_payment_pending"
  <2>1. SaysAfter(w, Say(jobs[w], <<"request_payment">>, "await payment"))
    BY <1>2, <1>4, <1>8
  <2>2. QED
    BY <1>1, <1>9, <2>1 DEF Committed
<1>10. CASE jobs[w].kind = "stock_reserved"
  <2>1. SaysAfter(w, Say(jobs[w], <<"request_payment">>, "idle"))
    BY <1>2, <1>4, <1>8
  <2>2. QED
    BY <1>10, <2>1, <1>8 DEF Committed, Announcements
<1>11. CASE jobs[w].kind = "stock_reservation_failed"
  <2>1. SaysAfter(w, Say(jobs[w], <<"order_cancelled">>, "idle"))
    BY <1>2, <1>5, <1>8
  <2>2. QED
    BY <1>11, <2>1, <1>8 DEF Committed, Announcements
<1>12. CASE jobs[w].kind \in {"payment_failed", "fail_checkout"}
  <2>1. SaysAfter(w, Say(jobs[w], <<"order_cancelled", "release_stock">>, "idle"))
    BY <1>2, <1>6, <1>8, <1>12 DEF Cancelling
  <2>2. QED
    BY <1>12, <2>1, <1>8 DEF Committed, Announcements
<1>13. CASE jobs[w].kind = "payment_succeeded"
  <2>1. SaysAfter(w, Say(jobs[w], <<"order_confirmed", "confirm_stock", "clear_cart">>, "idle"))
    BY <1>2, <1>7, <1>8, <1>13
  <2>2. QED
    BY <1>13, <2>1, <1>8 DEF Committed, Announcements
<1>14. CASE jobs[w].kind \in {"payment_pending", "preference_created", "update_status"}
  <2>1. Announcements(jobs[w].kind) = <<>>
    BY <1>14 DEF Announcements
  <2>2. QED
    BY <1>1, <1>14, <2>1 DEF Committed
<1>15. QED
  BY <1>3, <1>9, <1>10, <1>11, <1>12, <1>13, <1>14 DEF Handlers, StockEvents, PaymentEvents

(* The step from a transaction's first UPDATE to its COMMIT.               *)
LEMMA WriteIs ==
  ASSUME Typed, NEW w \in Workers, Write(w)
  PROVE  /\ jobs[w] \in GoodJob /\ jobs[w].pc = "write" /\ jobs[w].order \in Orders
         /\ Typed'
         /\ \E a, b : Wrote(w, a, b)
<1> DEFINE o == jobs[w].order
           now == orders[o].status
           steps == Transitions(jobs[w], now)
           status == IF steps = <<>> THEN now ELSE steps[Len(steps)]
           payment == PaymentStatus(jobs[w].kind, orders[o].payment)
<1>1. jobs[w] \in GoodJob /\ jobs[w].pc = "write"
  <2>1. jobs[w].pc = "write"
    BY DEF Write
  <2>2. jobs[w] \in GoodJob \cup {Idle}
    BY DEF Typed
  <2>3. jobs[w] # Idle
    BY <2>1 DEF Idle
  <2>4. QED
    BY <2>1, <2>2, <2>3
<1>2. o \in Orders /\ orders[o] \in [status : Statuses, cart : Carts \cup {NoCart},
                            payment : {"NONE", "PENDING", "APPROVED", "REJECTED"}]
      /\ history[o] \in Seq(Statuses \ {"NONE"})
  BY <1>1, ZenonT(60) DEF Typed, GoodJob, Job
<1>3. /\ orders' = [orders EXCEPT ![o].status = status,
                          ![o].payment = PaymentStatus(jobs[w].kind, orders[o].payment)]
      /\ history' = [history EXCEPT ![o] = history[o] \o steps]
      /\ Goto(w, Committed(w, status))
      /\ UNCHANGED <<answer, sent, unsaid, started>>
  BY DEF Write
<1>4. PICK a, b : StepsAre(jobs[w], now, a, b)
  BY <1>1, TransitionsAre
<1> HIDE DEF o, now
<1>5. /\ a \in Statuses \ {"NONE"} /\ b \in Statuses \ {"NONE"}
      /\ steps \in {<<>>, <<b>>, <<a, b>>}
  BY <1>4 DEF StepsAre, Statuses
<1>6. /\ steps = <<>> => status = now
      /\ steps # <<>> => status = b
  BY <1>5
<1> HIDE DEF steps, status
<1>7. /\ steps = <<>> => history[o] \o steps = history[o]
      /\ steps # <<>> => history[o] \o steps = history[o] \o <<b>>
                         \/ history[o] \o steps = history[o] \o <<a, b>>
      /\ history[o] \o steps \in Seq(Statuses \ {"NONE"})
  <2>1. PICK S, h : S = Statuses \ {"NONE"} /\ h = history[o]
    OBVIOUS
  <2>2. h \in Seq(S) /\ a \in S /\ b \in S
    BY <1>2, <1>5, <2>1
  <2>3. h \o <<>> = h /\ h \o <<b>> \in Seq(S) /\ h \o <<a, b>> \in Seq(S)
    BY ONLY <2>2
  <2>4. QED
    BY <1>5, <2>1, <2>2, <2>3
<1>8. now \in Statuses /\ now = orders[o].status
  BY <1>2 DEF now
<1>9. payment \in {"NONE", "PENDING", "APPROVED", "REJECTED"}
  BY <1>2 DEF PaymentStatus
<1> HIDE DEF payment
<1>10. orders' = [orders EXCEPT ![o] = [orders[o] EXCEPT !.status = status, !.payment = payment]]
  BY <1>2, <1>3 DEF payment, Typed
<1> DEFINE row == [orders[o] EXCEPT !.status = status, !.payment = payment]
<1>11. /\ row \in [status : Statuses, cart : Carts \cup {NoCart},
                   payment : {"NONE", "PENDING", "APPROVED", "REJECTED"}]
       /\ row.status = status /\ row.payment = payment
  BY <1>2, <1>5, <1>6, <1>8, <1>9
<1> HIDE DEF row
<1>12. /\ orders'[o] = row /\ \A p \in Orders \ {o} : orders'[p] = orders[p]
       /\ history'[o] = history[o] \o steps
       /\ \A p \in Orders \ {o} : history'[p] = history[p]
  BY <1>2, <1>3, <1>10 DEF row, Typed
<1>13. PICK job : job = Committed(w, status)
  OBVIOUS
<1>14. /\ job \in GoodJob \cup {Idle}
       /\ job = Idle \/ (job.pc = "publish" /\ job.order = o)
       /\ job # Idle => \A m \in Settling : Has(job.out, m) =>
            \/ jobs[w].kind = "payment_succeeded" /\ m \in {"confirm_stock", "clear_cart"}
            \/ jobs[w].kind \in Cancelling /\ m = "release_stock"
  <2>1. SaysAfter(w, job)
    BY <1>1, <1>13, CommittedIs
  <2>2. QED
    BY <2>1 DEF SaysAfter, o
<1>15. Goes(w, job)
  BY <1>3, <1>13, <1>14, GotoGoes
<1>16. Typed'
  <2>1. orders' \in [Orders -> [status : Statuses, cart : Carts \cup {NoCart},
                       payment : {"NONE", "PENDING", "APPROVED", "REJECTED"}]]
    BY <1>2, <1>10, <1>11 DEF Typed, row
  <2>2. history' \in [Orders -> Seq(Statuses \ {"NONE"})]
    BY <1>2, <1>3, <1>7 DEF Typed
  <2>3. QED
    BY <1>3, <1>15, <2>1, <2>2 DEF Typed, Goes
<1>17. \A m \in Settling : \A p : Tells(w, m, p)' =>
          /\ p = o
          /\ \/ jobs[w].kind = "payment_succeeded" /\ m \in {"confirm_stock", "clear_cart"}
             \/ jobs[w].kind \in Cancelling /\ m = "release_stock"
  BY <1>14, <1>15 DEF Goes, Tells, Idle
<1>18. Wrote(w, a, b)
  BY <1>3, <1>4, <1>6, <1>7, <1>8, <1>11, <1>12, <1>15, <1>17
     DEF Wrote, Goes, o, now, steps, payment
<1>19. QED
  BY <1>1, <1>2, <1>16, <1>18 DEF o

(* A checkout makes its order: the row, its first status, and order_created *)
(* to be said.                                                             *)
Creates(w) ==
  LET o == jobs[w].order IN
  /\ jobs[w].pc = "insert" /\ o \in Orders /\ orders[o].status = "NONE"
  /\ orders'[o].status = "PENDING" /\ orders'[o].payment = "NONE"
  /\ history'[o] = Append(history[o], "PENDING")
  /\ \A p \in Orders \ {o} : orders'[p] = orders[p] /\ history'[p] = history[p]
  /\ \A x \in Workers \ {w} : jobs'[x] = jobs[x]
  /\ \A m \in Settling : \A p : Tells(w, m, p)' => p = o /\ m = "order_created"
  /\ UNCHANGED <<answer, sent>>

(* The INSERT that the unique keys let through.                            *)
LEMMA CreatesIs ==
  ASSUME Typed, NEW w \in Workers, InsertOrder(w), ~Refused(w)
  PROVE  Typed' /\ Creates(w)
<1> DEFINE o == jobs[w].order
           row == [status |-> "PENDING", cart |-> jobs[w].cart, payment |-> "NONE"]
<1>1. jobs[w] \in GoodJob /\ jobs[w].pc = "insert"
  BY DEF InsertOrder, Typed, Idle
<1>2. orders[o].status = "NONE" /\ Inserted(w)
  BY DEF InsertOrder, Refused
<1>3. o \in Orders /\ jobs[w].cart \in Carts \cup {NoCart}
      /\ history[o] \in Seq(Statuses \ {"NONE"})
  BY <1>1 DEF Typed, GoodJob, Job
<1>4. row \in [status : Statuses, cart : Carts \cup {NoCart},
               payment : {"NONE", "PENDING", "APPROVED", "REJECTED"}]
      /\ "PENDING" \in Statuses \ {"NONE"}
  BY <1>3 DEF Statuses
<1>5. /\ orders' = [orders EXCEPT ![o] = row]
      /\ history' = [history EXCEPT ![o] = Append(history[o], "PENDING")]
      /\ UNCHANGED <<answer, sent, unsaid, started>>
  BY <1>2 DEF Inserted
<1>6. PICK job : /\ Goto(w, job) /\ job \in GoodJob /\ job.order = o
                 /\ \A m \in Settling : Has(job.out, m) => m = "order_created"
  <2>1. PICK one, two : one = <<"order_created">> /\ two = <<"order_created", "reserve_stock">>
    OBVIOUS
  <2>2. one \in Outs \ {<<>>} /\ two \in Outs \ {<<>>}
    BY <2>1 DEF Outs
  <2>3. \A m \in Settling : Has(one, m) \/ Has(two, m) => m = "order_created"
    BY <2>1 DEF Has, Settling, Decision
  <2>4. /\ Say(jobs[w], two, "idle") \in GoodJob /\ Say(jobs[w], two, "idle").order = o
        /\ Say(jobs[w], two, "idle").out = two
    BY ONLY <1>1, <2>2, SayIsGood, ZenonT(120)
  <2>5. /\ Say(jobs[w], one, "open session") \in GoodJob
        /\ Say(jobs[w], one, "open session").order = o
        /\ Say(jobs[w], one, "open session").out = one
    BY ONLY <1>1, <2>2, SayIsGood, ZenonT(120)
  <2>6. Goto(w, Say(jobs[w], two, "idle")) \/ Goto(w, Say(jobs[w], one, "open session"))
    BY <1>2, <2>1 DEF Inserted
  <2>7. QED
    BY <2>3, <2>4, <2>5, <2>6
<1>7. Goes(w, job)
  BY <1>6, GotoGoes
<1> HIDE DEF row
<1>8. Typed'
  <2>1. history' \in [Orders -> Seq(Statuses \ {"NONE"})]
    BY <1>3, <1>4, <1>5 DEF Typed
  <2>2. QED
    BY <1>3, <1>4, <1>5, <1>7, <2>1 DEF Typed, Goes
<1>9. Creates(w)
  <2>1. orders'[o] = row /\ row.status = "PENDING" /\ row.payment = "NONE"
        /\ history'[o] = Append(history[o], "PENDING")
        /\ \A p \in Orders \ {o} : orders'[p] = orders[p] /\ history'[p] = history[p]
    BY <1>3, <1>5 DEF Typed, row
  <2>2. \A m \in Settling : \A p : Tells(w, m, p)' => p = o /\ m = "order_created"
    BY <1>6, <1>7 DEF Goes, Tells
  <2>3. QED
    BY <1>1, <1>2, <1>3, <1>5, <1>7, <2>1, <2>2 DEF Creates, Goes
<1>10. QED
  BY <1>8, <1>9

(* A handler publishes the first message it has left.                      *)
Publishes(w, n, o) ==
  /\ o \in Orders /\ n \in Messages /\ Tells(w, n, o) /\ ~Tells(w, n, o)'
  /\ sent'[o][n] = sent[o][n] + 1
  /\ \A m \in Messages \ {n} : sent'[o][m] = sent[o][m]
  /\ \A p \in Orders \ {o} : sent'[p] = sent[p]
  /\ \A m, p : Tells(w, m, p)' => Tells(w, m, p)
  /\ \A m : Tells(w, m, o) /\ m # n => Tells(w, m, o)'
  /\ \A x \in Workers \ {w} : jobs'[x] = jobs[x]
  /\ UNCHANGED <<orders, history, answer>>

(* The step that publishes one message.                                    *)
LEMMA PublishIs ==
  ASSUME Typed, NEW w \in Workers, Publish(w)
  PROVE  Typed' /\ \E n, o : Publishes(w, n, o)
<1>0. PICK o, out : o = jobs[w].order /\ out = jobs[w].out
  OBVIOUS
<1> DEFINE more == [jobs[w] EXCEPT !.out = Tail(out)]
           last == [jobs[w] EXCEPT !.out = <<>>, !.pc = jobs[w].then]
<1>1. jobs[w] \in GoodJob /\ jobs[w].pc = "publish"
  BY DEF Publish, Typed, Idle
<1>2. o \in Orders /\ out \in Outs \ {<<>>} /\ sent[o] \in [Messages -> Nat]
  BY <1>0, <1>1 DEF Typed, GoodJob, Job
<1>3. PICK n : n = Head(out)
  OBVIOUS
<1>4. /\ sent' = [sent EXCEPT ![o] = [sent[o] EXCEPT ![n] = sent[o][n] + 1]]
      /\ Goto(w, IF Len(out) > 1 THEN more
                 ELSE IF jobs[w].then = "idle" THEN Idle ELSE last)
      /\ UNCHANGED <<orders, history, answer, unsaid, started>>
  BY <1>0, <1>2, <1>3 DEF Publish, Typed
<1>5. /\ n \in Messages /\ Has(out, n)
      /\ Len(out) > 1 => /\ Tail(out) \in Outs \ {<<>>} /\ ~Has(Tail(out), n)
                         /\ \A m : Has(Tail(out), m) => Has(out, m)
                         /\ \A m : Has(out, m) => m = n \/ Has(Tail(out), m)
      /\ ~(Len(out) > 1) => \A m : Has(out, m) => m = n
  BY <1>2, <1>3, OutsAre
<1>6. ASSUME Len(out) > 1
      PROVE  more \in GoodJob /\ more.pc = "publish" /\ more.order = o
             /\ more.out = Tail(out)
  <2>1. Tail(out) \in Seq(Messages)
    BY <1>5, <1>6, OutsAre
  <2>2. PICK rest : rest = Tail(out)
    OBVIOUS
  <2>3. [jobs[w] EXCEPT !.out = rest] \in Job
        /\ [jobs[w] EXCEPT !.out = rest].pc = "publish"
        /\ [jobs[w] EXCEPT !.out = rest].order = o
        /\ [jobs[w] EXCEPT !.out = rest].out = rest
        /\ [jobs[w] EXCEPT !.out = rest].kind = jobs[w].kind
        /\ [jobs[w] EXCEPT !.out = rest].target = jobs[w].target
    BY <1>0, <1>1, <2>1, <2>2 DEF GoodJob, Job
  <2>4. QED
    BY <1>1, <1>5, <1>6, <2>2, <2>3 DEF GoodJob
<1>7. ASSUME jobs[w].then # "idle"
      PROVE  last \in GoodJob /\ last.pc # "publish"
  <2>1. PICK none : none = <<>>
    OBVIOUS
  <2>2. none \in Seq(Messages) /\ none \in Outs
    BY <2>1 DEF Outs
  <2>3. /\ [jobs[w] EXCEPT !.out = none, !.pc = jobs[w].then] \in Job
        /\ [jobs[w] EXCEPT !.out = none, !.pc = jobs[w].then].pc = jobs[w].then
        /\ [jobs[w] EXCEPT !.out = none, !.pc = jobs[w].then].out = none
        /\ [jobs[w] EXCEPT !.out = none, !.pc = jobs[w].then].kind = jobs[w].kind
        /\ [jobs[w] EXCEPT !.out = none, !.pc = jobs[w].then].target = jobs[w].target
        /\ jobs[w].then \in {"open session", "await stock", "await payment"}
    BY <1>1, <1>7, <2>2 DEF GoodJob, Job
  <2>4. QED
    BY <1>1, <2>1, <2>2, <2>3 DEF GoodJob
<1> HIDE DEF more, last
<1>8. PICK job : Goto(w, job) /\ job = IF Len(out) > 1 THEN more
                                       ELSE IF jobs[w].then = "idle" THEN Idle ELSE last
  BY <1>4
<1>9. /\ job \in GoodJob \cup {Idle}
      /\ Len(out) > 1 => job.pc = "publish" /\ job.order = o /\ job.out = Tail(out)
      /\ ~(Len(out) > 1) => job.pc # "publish"
  BY <1>6, <1>7, <1>8 DEF Idle
<1>10. Goes(w, job)
  BY <1>8, <1>9, GotoGoes
<1>11. /\ sent' \in [Orders -> [Messages -> Nat]]
       /\ sent'[o][n] = sent[o][n] + 1
       /\ \A m \in Messages \ {n} : sent'[o][m] = sent[o][m]
       /\ \A p \in Orders \ {o} : sent'[p] = sent[p]
  BY <1>2, <1>4, <1>5 DEF Typed
<1>12. Typed'
  BY <1>4, <1>10, <1>11 DEF Typed, Goes
<1>13. /\ \A m : Tells(w, m, o) <=> Has(out, m)
       /\ \A m, p : Tells(w, m, p) => p = o
  BY <1>0, <1>1 DEF Tells
<1>14. /\ \A m : Tells(w, m, o)' <=> Len(out) > 1 /\ Has(Tail(out), m)
       /\ \A m, p : Tells(w, m, p)' => p = o
  BY <1>9, <1>10 DEF Goes, Tells
<1>15. Publishes(w, n, o)
  BY <1>2, <1>4, <1>5, <1>10, <1>11, <1>13, <1>14 DEF Publishes, Goes
<1>16. QED
  BY <1>12, <1>15

-----------------------------------------------------------------------------
(* The invariant                                                           *)

(* One handler more that is about to say it, at most.                      *)
LEMMA TellersMore ==
  ASSUME NEW w \in Workers, NEW m, NEW o,
         \A x \in Workers \ {w} : Tells(x, m, o)' => Tells(x, m, o)
  PROVE  Cardinality(Tellers(m, o))' <= Cardinality(Tellers(m, o)) + 1
<1>1. IsFiniteSet(Tellers(m, o)) /\ IsFiniteSet(Tellers(m, o) \cup {w})
  BY TellersCount, FS_AddElement
<1>2. Tellers(m, o)' \subseteq Tellers(m, o) \cup {w}
  BY DEF Tellers
<1>3. Cardinality(Tellers(m, o)') <= Cardinality(Tellers(m, o) \cup {w})
  BY <1>1, <1>2, FS_Subset
<1>4. Cardinality(Tellers(m, o) \cup {w}) <= Cardinality(Tellers(m, o)) + 1
  BY <1>1, FS_AddElement, FS_CardinalityType
<1>5. /\ Cardinality(Tellers(m, o)) \in Nat /\ Cardinality(Tellers(m, o) \cup {w}) \in Nat
      /\ Cardinality(Tellers(m, o)') \in Nat
  BY <1>1, <1>2, FS_Subset, FS_CardinalityType
<1>6. QED
  BY <1>3, <1>4, <1>5

(* One handler fewer, when it has said it.                                 *)
LEMMA TellersFewer ==
  ASSUME NEW w \in Workers, NEW m, NEW o, Tells(w, m, o), ~Tells(w, m, o)',
         \A x \in Workers \ {w} : Tells(x, m, o)' => Tells(x, m, o)
  PROVE  Cardinality(Tellers(m, o))' <= Cardinality(Tellers(m, o)) - 1
<1>1. IsFiniteSet(Tellers(m, o)) /\ w \in Tellers(m, o)
  BY TellersCount DEF Tellers
<1>2. Tellers(m, o)' \subseteq Tellers(m, o) \ {w}
  BY DEF Tellers
<1>3. IsFiniteSet(Tellers(m, o) \ {w})
      /\ Cardinality(Tellers(m, o) \ {w}) = Cardinality(Tellers(m, o)) - 1
  BY <1>1, FS_RemoveElement
<1>4. Cardinality(Tellers(m, o)') <= Cardinality(Tellers(m, o) \ {w})
  BY <1>2, <1>3, FS_Subset
<1>5. QED
  BY <1>3, <1>4

(* What is said of an order, and how often its decisions were made.        *)
LEMMA Counted ==
  ASSUME Typed, NEW o \in Orders, NEW m \in Settling
  PROVE  /\ sent[o][m] \in Nat /\ Cardinality(Tellers(m, o)) \in Nat
         /\ history[o] \in Seq(Statuses \ {"NONE"})
         /\ \A s : TimesIn(s, o) = Count(history[o], s) /\ Count(history[o], s) \in Nat
<1>1. sent[o][m] \in Nat /\ history[o] \in Seq(Statuses \ {"NONE"})
  BY DEF Typed, Settling, Decision, Messages
<1>2. "PENDING" \in Statuses \ {"NONE"}
  BY DEF Statuses
<1>3. ASSUME NEW s
      PROVE  TimesIn(s, o) = Count(history[o], s) /\ Count(history[o], s) \in Nat
  <2>1. TimesIn(s, o) = Count(history[o], s)
    BY DEF TimesIn, Count
  <2>2. Count(history[o], s) \in Nat
    BY <1>1, <1>2, CountAppend
  <2>3. QED
    BY <2>1, <2>2
<1>4. QED
  BY <1>1, <1>3, TellersCount

(* The steps that write nothing and publish nothing keep the invariant.    *)
LEMMA QuietKeeps ==
  ASSUME Typed, Typed', NEW o \in Orders, OrderInv(o),
         \A m \in Settling : \A x \in Workers : Tells(x, m, o)' => Tells(x, m, o),
         UNCHANGED <<orders, history, sent>>
  PROVE  OrderInv(o)'
<1>1. CreatedInv(o)' /\ ApprovedInv(o)'
  BY DEF OrderInv, CreatedInv, ApprovedInv, TimesIn
<1>2. ASSUME NEW m \in Settling
      PROVE  sent'[o][m] + Cardinality(Tellers(m, o))' <= TimesIn(Decision[m], o)'
  <2>1. Cardinality(Tellers(m, o))' <= Cardinality(Tellers(m, o))
    BY <1>2, TellersLess
  <2>2. /\ sent[o][m] \in Nat /\ Cardinality(Tellers(m, o)) \in Nat
        /\ \A s : TimesIn(s, o) \in Nat
    BY Counted
  <2>3. Cardinality(Tellers(m, o))' \in Nat
    BY TellersCount
  <2>4. sent[o][m] + Cardinality(Tellers(m, o)) <= TimesIn(Decision[m], o)
    BY DEF OrderInv, ToldInv
  <2>5. sent'[o][m] = sent[o][m] /\ TimesIn(Decision[m], o)' = TimesIn(Decision[m], o)
    BY DEF TimesIn
  <2>6. PICK a, b, c, d : /\ a = sent[o][m] /\ b = Cardinality(Tellers(m, o))
                          /\ c = Cardinality(Tellers(m, o))' /\ d = TimesIn(Decision[m], o)
    OBVIOUS
  <2>7. a + c <= d
    BY <2>1, <2>2, <2>3, <2>4, <2>6
  <2>8. QED
    BY <2>5, <2>6, <2>7
<1>3. QED
  BY <1>1, <1>2 DEF OrderInv, ToldInv

(* A step that says something keeps the invariant.                         *)
LEMMA PublishKeeps ==
  ASSUME Typed, Typed', NEW w \in Workers, NEW n, NEW p, Publishes(w, n, p),
         NEW o \in Orders, OrderInv(o)
  PROVE  OrderInv(o)'
<1>1. CreatedInv(o)' /\ ApprovedInv(o)'
  BY DEF OrderInv, CreatedInv, ApprovedInv, TimesIn, Publishes
<1>2. ASSUME NEW m \in Settling
      PROVE  sent'[o][m] + Cardinality(Tellers(m, o))' <= TimesIn(Decision[m], o)'
  <2>1. \A x \in Workers : Tells(x, m, o)' => Tells(x, m, o)
    BY DEF Publishes, Tells
  <2>2. /\ sent[o][m] \in Nat /\ Cardinality(Tellers(m, o)) \in Nat
        /\ \A s : TimesIn(s, o) \in Nat
    BY Counted
  <2>3. Cardinality(Tellers(m, o))' \in Nat
    BY TellersCount
  <2>4. sent[o][m] + Cardinality(Tellers(m, o)) <= TimesIn(Decision[m], o)
    BY DEF OrderInv, ToldInv
  <2>5. TimesIn(Decision[m], o)' = TimesIn(Decision[m], o)
    BY DEF TimesIn, Publishes
  <2>6. m \in Messages
    BY DEF Settling, Decision, Messages
  <2>7. CASE o = p /\ m = n
    <3>1. Cardinality(Tellers(m, o))' <= Cardinality(Tellers(m, o)) - 1
      BY <2>1, <2>7, TellersFewer DEF Publishes
    <3>2. sent'[o][m] = sent[o][m] + 1
      BY <2>7 DEF Publishes
    <3>3. QED
      BY <2>2, <2>3, <2>4, <2>5, <3>1, <3>2
  <2>8. CASE ~(o = p /\ m = n)
    <3>1. sent'[o][m] = sent[o][m]
      BY <2>6, <2>8 DEF Publishes
    <3>2. Cardinality(Tellers(m, o))' <= Cardinality(Tellers(m, o))
      BY <2>1, TellersLess
    <3>3. QED
      BY <2>2, <2>3, <2>4, <2>5, <3>1, <3>2
  <2>9. QED
    BY <2>7, <2>8
<1>3. QED
  BY <1>1, <1>2 DEF OrderInv, ToldInv

(* The step that makes an order keeps the invariant.                       *)
LEMMA CreatesKeeps ==
  ASSUME Typed, Typed', NEW w \in Workers, Creates(w), NEW o \in Orders, OrderInv(o)
  PROVE  OrderInv(o)'
<1>1. \A x \in Workers \ {w} : \A m : Tells(x, m, o)' => Tells(x, m, o)
  BY DEF Creates, Tells
<1>2. CASE o # jobs[w].order
  <2>1. \A m \in Settling : \A x \in Workers : Tells(x, m, o)' => Tells(x, m, o)
    BY <1>1, <1>2 DEF Creates
  <2>2. orders'[o] = orders[o] /\ history'[o] = history[o] /\ sent' = sent
    BY <1>2 DEF Creates
  <2>3. CreatedInv(o)' /\ ApprovedInv(o)'
    BY <2>2 DEF OrderInv, CreatedInv, ApprovedInv, TimesIn
  <2>4. ASSUME NEW m \in Settling
        PROVE  sent'[o][m] + Cardinality(Tellers(m, o))' <= TimesIn(Decision[m], o)'
    <3>1. Cardinality(Tellers(m, o))' <= Cardinality(Tellers(m, o))
      BY <2>1, TellersLess
    <3>2. /\ sent[o][m] \in Nat /\ Cardinality(Tellers(m, o)) \in Nat
          /\ Cardinality(Tellers(m, o))' \in Nat
          /\ \A s : TimesIn(s, o) \in Nat
      BY Counted, TellersCount
    <3>3. sent[o][m] + Cardinality(Tellers(m, o)) <= TimesIn(Decision[m], o)
      BY DEF OrderInv, ToldInv
    <3>4. sent'[o][m] = sent[o][m] /\ TimesIn(Decision[m], o)' = TimesIn(Decision[m], o)
      BY <2>2 DEF TimesIn
    <3>5. QED
      BY <3>1, <3>2, <3>3, <3>4
  <2>5. QED
    BY <2>3, <2>4 DEF OrderInv, ToldInv
<1>3. CASE o = jobs[w].order
  <2>1. /\ orders'[o].status = "PENDING" /\ orders[o].status = "NONE"
        /\ history'[o] = Append(history[o], "PENDING") /\ sent' = sent
    BY <1>3 DEF Creates
  <2>2. ASSUME NEW s
        PROVE  /\ TimesIn(s, o) \in Nat
               /\ TimesIn(s, o)' = TimesIn(s, o) + IF s = "PENDING" THEN 1 ELSE 0
    <3>1. TimesIn(s, o)' = Count(history'[o], s)
      BY DEF TimesIn, Count
    <3>2. TimesIn(s, o) = Count(history[o], s) /\ history[o] \in Seq(Statuses \ {"NONE"})
      <4>1. "confirm_stock" \in Settling
        BY DEF Settling, Decision
      <4>2. QED
        BY <4>1, Counted
    <3>3. "PENDING" \in Statuses \ {"NONE"}
      BY DEF Statuses
    <3>4. QED
      BY <2>1, <3>1, <3>2, <3>3, CountAppend
  <2>3. CreatedInv(o)'
    <3>1. history[o] = <<>>
      BY <2>1 DEF OrderInv, CreatedInv
    <3>2. TimesIn("PENDING", o) = 0
      <4>1. {i \in DOMAIN history[o] : history[o][i] = "PENDING"} = {}
        BY <3>1
      <4>2. QED
        BY <4>1, FS_EmptySet DEF TimesIn
    <3>3. QED
      BY <2>1, <2>2, <3>2 DEF CreatedInv
  <2>4. ApprovedInv(o)'
    BY <2>1 DEF ApprovedInv
  <2>5. ASSUME NEW m \in Settling
        PROVE  sent'[o][m] + Cardinality(Tellers(m, o))' <= TimesIn(Decision[m], o)'
    <3>1. /\ sent[o][m] \in Nat /\ Cardinality(Tellers(m, o)) \in Nat
          /\ Cardinality(Tellers(m, o))' \in Nat
      BY Counted, TellersCount
    <3>2. sent[o][m] + Cardinality(Tellers(m, o)) <= TimesIn(Decision[m], o)
      BY DEF OrderInv, ToldInv
    <3>3. CASE m = "order_created"
      <4>1. Decision[m] = "PENDING"
        BY <3>3 DEF Decision
      <4>2. Cardinality(Tellers(m, o))' <= Cardinality(Tellers(m, o)) + 1
        BY <1>1, TellersMore
      <4>3. TimesIn("PENDING", o)' = TimesIn("PENDING", o) + 1 /\ TimesIn("PENDING", o) \in Nat
        BY <2>2
      <4>4. QED
        BY <2>1, <3>1, <3>2, <4>1, <4>2, <4>3
    <3>4. CASE m # "order_created"
      <4>1. \A x \in Workers : Tells(x, m, o)' => Tells(x, m, o)
        BY <1>1, <3>4 DEF Creates
      <4>2. Cardinality(Tellers(m, o))' <= Cardinality(Tellers(m, o))
        BY <4>1, TellersLess
      <4>3. TimesIn(Decision[m], o)' >= TimesIn(Decision[m], o)
            /\ TimesIn(Decision[m], o) \in Nat /\ TimesIn(Decision[m], o)' \in Nat
        BY <2>2
      <4>4. QED
        BY <2>1, <3>1, <3>2, <4>2, <4>3
    <3>5. QED
      BY <3>3, <3>4
  <2>6. QED
    BY <2>3, <2>4, <2>5 DEF OrderInv, ToldInv
<1>4. QED
  BY <1>2, <1>3

(* What a transaction adds to a history.                                   *)
LEMMA WroteCounts ==
  ASSUME Typed, Typed', NEW w \in Workers, NEW a, NEW b, Wrote(w, a, b),
         NEW o \in Orders, NEW s
  PROVE  /\ TimesIn(s, o) \in Nat /\ TimesIn(s, o)' \in Nat
         /\ TimesIn(s, o)' >= TimesIn(s, o)
         /\ o = jobs[w].order /\ Transitions(jobs[w], orders[o].status) # <<>> /\ s = b =>
              TimesIn(s, o)' >= TimesIn(s, o) + 1
         /\ s # a /\ s # b => TimesIn(s, o)' = TimesIn(s, o)
<1>1. history[o] \in Seq(Statuses \ {"NONE"}) /\ history'[o] \in Seq(Statuses \ {"NONE"})
  BY DEF Typed
<1>2. PICK h, g : h = history[o] /\ g = history'[o]
  OBVIOUS
<1>3. TimesIn(s, o) = Count(h, s) /\ TimesIn(s, o)' = Count(g, s)
  BY <1>2 DEF TimesIn, Count
<1>4. a \in Statuses \ {"NONE"} /\ b \in Statuses \ {"NONE"}
  BY DEF Wrote, StepsAre, Statuses
<1>5. \/ g = h /\ ~(o = jobs[w].order /\ Transitions(jobs[w], orders[o].status) # <<>>)
      \/ g = h \o <<b>> \/ g = h \o <<a, b>>
  BY <1>2 DEF Wrote
<1>6. /\ Count(h, s) \in Nat
      /\ Count(h \o <<b>>, s) = Count(h, s) + IF b = s THEN 1 ELSE 0
      /\ Count(h \o <<a, b>>, s) = Count(h, s) + (IF a = s THEN 1 ELSE 0)
                                              + (IF b = s THEN 1 ELSE 0)
  <2>1. PICK S : S = Statuses \ {"NONE"}
    OBVIOUS
  <2>2. h \in Seq(S) /\ a \in S /\ b \in S
    BY <1>1, <1>2, <1>4, <2>1
  <2>3. QED
    BY ONLY <2>2, CountTwo
<1>7. PICK n, k : n = Count(h, s) /\ k = Count(g, s)
  OBVIOUS
<1>8. \/ k = n /\ ~(o = jobs[w].order /\ Transitions(jobs[w], orders[o].status) # <<>>)
      \/ k = n + IF b = s THEN 1 ELSE 0
      \/ k = n + (IF a = s THEN 1 ELSE 0) + (IF b = s THEN 1 ELSE 0)
  BY <1>5, <1>6, <1>7
<1>9. n \in Nat
  BY <1>6, <1>7
<1>10. /\ k \in Nat /\ k >= n
       /\ o = jobs[w].order /\ Transitions(jobs[w], orders[o].status) # <<>> /\ s = b =>
            k >= n + 1
       /\ s # a /\ s # b => k = n
  BY ONLY <1>8, <1>9
<1>11. QED
  BY ONLY <1>3, <1>7, <1>9, <1>10

(* The step that commits a transaction keeps the invariant.                *)
LEMMA WriteKeeps ==
  ASSUME Typed, Typed', NEW w \in Workers, jobs[w] \in GoodJob, jobs[w].pc = "write",
         NEW a, NEW b,
         Wrote(w, a, b), NEW o \in Orders, OrderInv(o)
  PROVE  OrderInv(o)'
<1> DEFINE steps == Transitions(jobs[w], orders[o].status)
<1>0. o = jobs[w].order => StepsAre(jobs[w], orders[o].status, a, b)
  BY DEF Wrote
<1>1. /\ a \in {"STOCK_RESERVED", "FAILED", "PAID"} /\ b # "NONE"
      /\ b \in {"CONFIRMED", "CANCELLED", "PAYMENT_PENDING"} \/ b \in AdminStatuses
  <2>1. jobs[w].kind \in Handlers
    BY DEF GoodJob
  <2>2. QED
    BY <2>1 DEF Wrote, StepsAre, Handlers, StockEvents, PaymentEvents, Cancelling,
                Pending, Reserving
<1>2. o = jobs[w].order =>
        \/ steps = <<>> /\ history'[o] = history[o] /\ orders'[o].status = orders[o].status
        \/ steps # <<>> /\ orders'[o].status = b
  BY DEF Wrote
<1>3. o # jobs[w].order => orders'[o] = orders[o] /\ history'[o] = history[o]
  BY DEF Wrote
<1>4. \A s : /\ TimesIn(s, o) \in Nat /\ TimesIn(s, o)' \in Nat
             /\ TimesIn(s, o)' >= TimesIn(s, o)
             /\ s # a /\ s # b => TimesIn(s, o)' = TimesIn(s, o)
             /\ o = jobs[w].order /\ steps # <<>> /\ s = b =>
                  TimesIn(s, o)' >= TimesIn(s, o) + 1
  BY WroteCounts
<1>5. CreatedInv(o)'
  <2>1. "PENDING" \notin AdminStatuses => TimesIn("PENDING", o)' = TimesIn("PENDING", o)
    BY <1>1, <1>4
  <2>2. orders'[o].status = "NONE" => orders[o].status = "NONE" /\ history'[o] = history[o]
    BY <1>1, <1>2, <1>3
  <2>3. CreatedInv(o)
    BY DEF OrderInv
  <2> HIDE DEF steps
  <2>4. orders'[o].status = "NONE" => history'[o] = <<>>
    BY <2>2, <2>3 DEF CreatedInv
  <2>5. "PENDING" \notin AdminStatuses => TimesIn("PENDING", o)' <= 1
    BY <2>1, <2>3 DEF CreatedInv
  <2>6. QED
    BY <2>4, <2>5 DEF CreatedInv
<1>6. ApprovedInv(o)'
  <2>1. ApprovedInv(o)
    BY DEF OrderInv
  <2>2. CASE o # jobs[w].order
    BY <1>3, <2>1, <2>2 DEF ApprovedInv
  <2>3. CASE o = jobs[w].order
    <3>1. StepsAre(jobs[w], orders[o].status, a, b)
          /\ orders'[o].payment = PaymentStatus(jobs[w].kind, orders[o].payment)
      BY <1>0, <2>3 DEF Wrote
    <3>2. \/ steps = <<>> /\ orders'[o].status = orders[o].status
          \/ steps # <<>> /\ orders'[o].status = b
      BY <1>2, <2>3
    <3>3. jobs[w].kind \in Handlers
      BY DEF GoodJob
    <3>4. CASE jobs[w].kind = "payment_succeeded"
      BY <3>1, <3>4 DEF ApprovedInv, PaymentStatus
    <3>5. CASE jobs[w].kind \in Cancelling \cup Pending
      <4>1. orders'[o].status # "CONFIRMED"
        BY <3>1, <3>2, <3>5 DEF StepsAre, Cancelling, Pending
      <4>2. QED
        BY <4>1 DEF ApprovedInv
    <3>6. CASE jobs[w].kind \in Reserving \cup {"update_status"}
      <4>1. orders'[o].payment = orders[o].payment
        BY <3>1, <3>6 DEF PaymentStatus, Reserving
      <4>2. "CONFIRMED" \notin AdminStatuses /\ orders'[o].status = "CONFIRMED" =>
              orders[o].status = "CONFIRMED"
        BY <3>1, <3>2, <3>6 DEF StepsAre, Reserving
      <4>3. QED
        BY <2>1, <4>1, <4>2 DEF ApprovedInv
    <3>7. QED
      BY <3>3, <3>4, <3>5, <3>6
         DEF Handlers, StockEvents, PaymentEvents, Cancelling, Pending, Reserving
  <2>4. QED
    BY <2>2, <2>3
<1>7. ASSUME NEW m \in Settling
      PROVE  sent'[o][m] + Cardinality(Tellers(m, o))' <= TimesIn(Decision[m], o)'
  <2>1. /\ sent[o][m] \in Nat /\ Cardinality(Tellers(m, o)) \in Nat
        /\ Cardinality(Tellers(m, o))' \in Nat
    BY Counted, TellersCount
  <2>2. sent[o][m] + Cardinality(Tellers(m, o)) <= TimesIn(Decision[m], o)
    BY DEF OrderInv, ToldInv
  <2>3. sent' = sent
    BY DEF Wrote
  <2>4. \A x \in Workers \ {w} : Tells(x, m, o)' => Tells(x, m, o)
    BY DEF Wrote, Tells
  <2>5. /\ TimesIn(Decision[m], o) \in Nat /\ TimesIn(Decision[m], o)' \in Nat
        /\ TimesIn(Decision[m], o)' >= TimesIn(Decision[m], o)
    BY <1>4
  <2>6. CASE Tells(w, m, o)'
    <3>1. /\ o = jobs[w].order
          /\ \/ jobs[w].kind = "payment_succeeded" /\ m \in {"confirm_stock", "clear_cart"}
             \/ jobs[w].kind \in Cancelling /\ m = "release_stock"
      BY <2>6 DEF Wrote
    <3>2. steps # <<>> /\ Decision[m] = b
      BY <1>0, <3>1 DEF StepsAre, Decision
    <3>3. TimesIn(Decision[m], o)' >= TimesIn(Decision[m], o) + 1
      BY <1>4, <3>1, <3>2
    <3>4. Cardinality(Tellers(m, o))' <= Cardinality(Tellers(m, o)) + 1
      BY <2>4, TellersMore
    <3>5. QED
      BY <2>1, <2>2, <2>3, <2>5, <3>3, <3>4
  <2>7. CASE ~Tells(w, m, o)'
    <3>1. \A x \in Workers : Tells(x, m, o)' => Tells(x, m, o)
      BY <2>4, <2>7
    <3>2. Cardinality(Tellers(m, o))' <= Cardinality(Tellers(m, o))
      BY <3>1, TellersLess
    <3>3. QED
      BY <2>1, <2>2, <2>3, <2>5, <3>2
  <2>8. QED
    BY <2>6, <2>7
<1>8. QED
  BY <1>5, <1>6, <1>7 DEF OrderInv, ToldInv

(* The invariant holds at first.                                           *)
LEMMA InitIInv ==
  ASSUME Init
  PROVE  IInv
<1>1. Typed
  <2>1. <<>> \in Seq(Statuses \ {"NONE"}) /\ "NONE" \in Statuses /\ 0 \in 0..MaxJobs
    BY OrderAssumption DEF Statuses
  <2>2. QED
    BY <2>1 DEF Init, Typed, NoOrder
<1>2. ASSUME NEW o \in Orders
      PROVE  OrderInv(o)
  <2>1. \A s : TimesIn(s, o) = 0
    <3>1. ASSUME NEW s
          PROVE  {i \in DOMAIN history[o] : history[o][i] = s} = {}
      BY DEF Init
    <3>2. QED
      BY <3>1, FS_EmptySet DEF TimesIn
  <2>2. ASSUME NEW m \in Settling
        PROVE  sent[o][m] + Cardinality(Tellers(m, o)) <= TimesIn(Decision[m], o)
    <3>1. Tellers(m, o) = {}
      BY DEF Init, Idle, Tellers, Tells
    <3>2. sent[o][m] = 0
      BY DEF Init, Settling, Decision, Messages
    <3>3. Cardinality(Tellers(m, o)) = 0
      BY <3>1, FS_EmptySet
    <3>4. QED
      BY <2>1, <3>2, <3>3
  <2>3. CreatedInv(o) /\ ApprovedInv(o)
    BY <2>1 DEF Init, NoOrder, CreatedInv, ApprovedInv
  <2>4. QED
    BY <2>2, <2>3 DEF OrderInv, ToldInv
<1>3. QED
  BY <1>1, <1>2 DEF IInv

(* Every step keeps the invariant.                                         *)
LEMMA NextIInv ==
  ASSUME IInv, [Next]_vars
  PROVE  IInv'
<1> USE DEF IInv
<1>1. CASE UNCHANGED vars
  <2>1. Typed'
    BY <1>1 DEF vars, Typed
  <2>2. \A o, m : \A x \in Workers : Tells(x, m, o)' => Tells(x, m, o)
    BY <1>1 DEF vars, Tells
  <2>3. QED
    BY <1>1, <2>1, <2>2, QuietKeeps DEF vars
<1>2. ASSUME NEW w \in Workers, Quietly(w)
      PROVE  IInv'
  <2>1. Typed' /\ Quiet(w)
    BY <1>2, QuietlyIs
  <2>2. \A m \in Settling : \A o : \A x \in Workers : Tells(x, m, o)' => Tells(x, m, o)
    BY <2>1 DEF Quiet, Tells
  <2>3. UNCHANGED <<orders, history, sent>>
    BY <2>1 DEF Quiet
  <2>4. QED
    BY <2>1, <2>2, <2>3, QuietKeeps
<1>3. ASSUME NEW w \in Workers, InsertOrder(w), ~Refused(w)
      PROVE  IInv'
  <2>1. Typed' /\ Creates(w)
    BY <1>3, CreatesIs
  <2>2. QED
    BY <2>1, CreatesKeeps
<1>4. ASSUME NEW w \in Workers, Write(w)
      PROVE  IInv'
  <2>1. PICK a, b : Wrote(w, a, b)
    BY <1>4, WriteIs
  <2>2. Typed' /\ jobs[w] \in GoodJob /\ jobs[w].pc = "write"
    BY <1>4, WriteIs
  <2>3. QED
    BY <2>1, <2>2, WriteKeeps
<1>5. ASSUME NEW w \in Workers, Publish(w)
      PROVE  IInv'
  <2>1. PICK n, p : Publishes(w, n, p)
    BY <1>5, PublishIs
  <2>2. Typed'
    BY <1>5, PublishIs
  <2>3. QED
    BY <2>1, <2>2, PublishKeeps
<1>6. ASSUME NEW p \in Orders, NEW result \in {"PENDING", "FAILED"},
             InventoryAnswers(p, result)
      PROVE  IInv'
  <2>1. Typed'
    BY <1>6 DEF InventoryAnswers, Typed
  <2>2. \A o, m : \A x \in Workers : Tells(x, m, o)' => Tells(x, m, o)
    BY <1>6 DEF InventoryAnswers, Tells
  <2>3. UNCHANGED <<orders, history, sent>>
    BY <1>6 DEF InventoryAnswers
  <2>4. QED
    BY <2>1, <2>2, <2>3, QuietKeeps
<1>7. CASE Next
  BY <1>2, <1>3, <1>4, <1>5, <1>6, <1>7 DEF Next, Proceed, Quietly, Begins
<1>8. QED
  BY <1>1, <1>7

(* The invariant holds in every state.                                     *)
LEMMA IInvAlways == Spec => []IInv
<1>1. Init => IInv
  BY InitIInv
<1>2. IInv /\ [Next]_vars => IInv'
  BY NextIInv
<1>3. QED
  BY <1>1, <1>2, PTL DEF Spec

(* However jobs interleave, stop and fail, rows, histories, counters and   *)
(* jobs keep their types: no handler comes to a statement that its record  *)
(* does not provide for.                                                   *)
THEOREM TypeIsKept == Spec => []TypeOK
<1>1. IInv => TypeOK
  BY DEF IInv, Typed, TypeOK, GoodJob
<1>2. QED
  BY <1>1, IInvAlways, PTL

(* For each committed decision a settling command goes out once at most,   *)
(* and none without one, whatever an administrator sets meanwhile.         *)
THEOREM NothingIsToldTwice == Spec => []AnnouncedAsDecided
<1>1. ASSUME IInv
      PROVE  AnnouncedAsDecided
  <2>1. ASSUME NEW o \in Orders, NEW m \in Settling
        PROVE  sent[o][m] <= TimesIn(Decision[m], o)
    <3>1. sent[o][m] + Cardinality(Tellers(m, o)) <= TimesIn(Decision[m], o)
      BY <1>1 DEF IInv, OrderInv, ToldInv
    <3>2. /\ sent[o][m] \in Nat /\ Cardinality(Tellers(m, o)) \in Nat
          /\ \A s : TimesIn(s, o) \in Nat
      BY <1>1, Counted DEF IInv
    <3>3. QED
      BY <3>1, <3>2
  <2>2. QED
    BY <2>1 DEF AnnouncedAsDecided, Settling, Decision
<1>2. QED
  BY <1>1, IInvAlways, PTL

(* If no administrator sets PENDING, checkouts with one key make one order *)
(* and announce it at most once, however they interleave, retry and fail.  *)
THEOREM OneOrderPerKey ==
  ASSUME "PENDING" \notin AdminStatuses
  PROVE  Spec => []CreatedOnce
<1>1. ASSUME IInv
      PROVE  CreatedOnce
  <2>1. ASSUME NEW o \in Orders
        PROVE  sent[o]["order_created"] <= 1 /\ TimesIn("PENDING", o) <= 1
    <3>1. "order_created" \in Settling /\ Decision["order_created"] = "PENDING"
      BY DEF Settling, Decision
    <3>2. sent[o]["order_created"] + Cardinality(Tellers("order_created", o))
            <= TimesIn("PENDING", o)
      BY <1>1, <3>1 DEF IInv, OrderInv, ToldInv
    <3>3. /\ sent[o]["order_created"] \in Nat
          /\ Cardinality(Tellers("order_created", o)) \in Nat
          /\ TimesIn("PENDING", o) \in Nat
      BY <1>1, <3>1, Counted DEF IInv
    <3>4. TimesIn("PENDING", o) <= 1
      BY <1>1 DEF IInv, OrderInv, CreatedInv
    <3>5. QED
      BY <3>2, <3>3, <3>4
  <2>2. QED
    BY <2>1 DEF CreatedOnce
<1>2. QED
  BY <1>1, IInvAlways, PTL

(* If no administrator sets CONFIRMED, a confirmed order is one whose      *)
(* payment was approved, whatever overlaps it.                             *)
THEOREM NoneConfirmedUnpaid ==
  ASSUME "CONFIRMED" \notin AdminStatuses
  PROVE  Spec => []ConfirmedMeansApproved
<1>1. IInv => ConfirmedMeansApproved
  BY DEF IInv, OrderInv, ApprovedInv, ConfirmedMeansApproved
<1>2. QED
  BY <1>1, IInvAlways, PTL

-----------------------------------------------------------------------------
(* The handlers of an order one after the other                            *)

Past(s) == s \notin {"NONE", "PENDING"}

(* What a job knows of its order's status: the stock is reserved for an    *)
(* order there is, a payment is asked for when its stock is reserved, and  *)
(* the status that a transaction has read is still the order's.            *)
Fits(job, s) ==
  /\ \/ job.then = "await stock" \/ job.pc = "await stock"
     \/ job.kind = "mark_payment_pending"
     => s # "NONE"
  /\ \/ job.then = "await payment" \/ job.pc = "await payment"
     \/ job.kind \in PaymentEvents \cup {"fail_checkout"}
     \/ Has(job.out, "request_payment")
     => Past(s)
  /\ job.pc = "write" => job.seen = s

JobInv(w) == jobs[w].pc # "idle" => Fits(jobs[w], orders[jobs[w].order].status)

Chain(h) == \A i \in 1..(Len(h) - 1) : <<h[i], h[i + 1]>> \in Forward

Once(s, o) == TimesIn(s, o) <= IF orders[o].status = s THEN 1 ELSE 0

Live == {"NONE", "PENDING", "PAYMENT_PENDING", "CONFIRMED", "CANCELLED"}

SerialInv(o) ==
  /\ orders[o].status \in Live
  /\ orders[o].status # "NONE" =>
       history[o] # <<>> /\ history[o][Len(history[o])] = orders[o].status
  /\ Chain(history[o])
  /\ sent[o]["request_payment"] > 0 => Past(orders[o].status)
  /\ orders[o].payment = "APPROVED" => orders[o].status = "CONFIRMED"
  /\ Once("CONFIRMED", o) /\ Once("CANCELLED", o)

SInv == /\ IInv /\ NoOverlap
        /\ \A o \in Orders : SerialInv(o)
        /\ \A w \in Workers : JobInv(w)

(* A job that goes on to publish still fits its order.                     *)
LEMMA SayFits ==
  ASSUME NEW job \in GoodJob, NEW messages \in Outs \ {<<>>},
         NEW then \in {"idle", "open session", "await stock", "await payment"}, NEW s,
         then = "await stock" \/ job.kind = "mark_payment_pending" => s # "NONE",
         \/ then = "await payment" \/ job.kind \in PaymentEvents \cup {"fail_checkout"}
         \/ Has(messages, "request_payment")
         => Past(s)
  PROVE  Fits(Say(job, messages, then), s)
<1>1. PICK new : new = Say(job, messages, then)
  OBVIOUS
<1>2. new.pc = "publish" /\ new.out = messages
  BY ONLY <1>1, job \in GoodJob, messages \in Outs \ {<<>>}, SayIsGood,
     then \in {"idle", "open session", "await stock", "await payment"}
<1>3. new.then = then /\ new.kind = job.kind
  BY <1>1 DEF Say, GoodJob, Job
<1>4. QED
  BY <1>1, <1>2, <1>3 DEF Fits

(* What a transaction writes that has read the status it finds.            *)
Moves(job, s) ==
  \/ /\ Transitions(job, s) = <<>>
     /\ job.kind \in {"mark_payment_pending"} \cup Pending
     /\ job.kind \in Pending => s = "PAYMENT_PENDING"
  \/ /\ Transitions(job, s) = <<"STOCK_RESERVED", "PAYMENT_PENDING">>
     /\ s = "PENDING" /\ job.kind \in Reserving
  \/ /\ Transitions(job, s) = <<"FAILED", "CANCELLED">>
     /\ s \in {"PENDING", "PAYMENT_PENDING"} /\ job.kind \in Cancelling
  \/ /\ Transitions(job, s) = <<"PAID", "CONFIRMED">>
     /\ s = "PAYMENT_PENDING" /\ job.kind = "payment_succeeded"

(* A transaction that wrote on what is still the order's status moves it   *)
(* along the saga, or leaves it.                                           *)
LEMMA MovesAre ==
  ASSUME AdminStatuses = {}, NEW job \in GoodJob, job.pc = "write", NEW s \in Live,
         Fits(job, s)
  PROVE  Moves(job, s)
<1>1. job.kind \in Handlers \ {"update_status"} /\ Accepts(job.kind, s) /\ job.seen = s
  BY DEF GoodJob, Fits
<1>2. CASE job.kind \in Reserving
  <2>1. job.kind = "stock_reserved" => s = "PENDING"
    BY <1>1, <1>2 DEF Accepts, StockEvents
  <2>2. Transitions(job, s) = IF s = "PENDING" THEN <<"STOCK_RESERVED", "PAYMENT_PENDING">>
                                               ELSE <<>>
    BY <1>1, <1>2 DEF Transitions, Reserving
  <2>3. QED
    BY <1>2, <2>1, <2>2 DEF Moves, Reserving, Pending
<1>3. CASE job.kind = "stock_reservation_failed"
  <2>1. s = "PENDING"
    BY <1>1, <1>3 DEF Accepts, StockEvents
  <2>2. Transitions(job, s) = <<"FAILED", "CANCELLED">>
    BY <1>3 DEF Transitions
  <2>3. QED
    BY <1>3, <2>1, <2>2 DEF Moves, Cancelling
<1>4. CASE job.kind \in PaymentEvents \cup {"fail_checkout"}
  <2>1. Past(s) /\ s \in {"PAYMENT_PENDING", "CONFIRMED", "CANCELLED"}
    BY <1>4 DEF Fits, Live, Past
  <2>2. ~IsTerminalOrder(s)
    BY <1>1, <1>4 DEF Accepts, StockEvents, PaymentEvents
  <2>3. s = "PAYMENT_PENDING"
    BY <2>1, <2>2 DEF IsTerminalOrder
  <2>4. CASE job.kind = "payment_succeeded"
    <3>1. Transitions(job, s) = <<"PAID", "CONFIRMED">>
      BY <2>3, <2>4 DEF Transitions, Unless
    <3>2. QED
      BY <2>3, <2>4, <3>1 DEF Moves
  <2>5. CASE job.kind = "payment_failed"
    <3>1. Transitions(job, s) = <<"FAILED", "CANCELLED">>
      BY <2>3, <2>5 DEF Transitions, Unless
    <3>2. QED
      BY <2>3, <2>5, <3>1 DEF Moves, Cancelling
  <2>6. CASE job.kind = "fail_checkout"
    <3>1. Transitions(job, s) = <<"FAILED", "CANCELLED">>
      BY <1>1, <2>3, <2>6 DEF Transitions, Unless
    <3>2. QED
      BY <2>3, <2>6, <3>1 DEF Moves, Cancelling
  <2>7. CASE job.kind \in Pending
    <3>1. Tail(<<"PAYMENT_PENDING">>) = <<>>
      OBVIOUS
    <3>2. Transitions(job, s) = <<>>
      BY <2>3, <2>7, <3>1 DEF Transitions, Reopening, Unless, Pending
    <3>3. QED
      BY <2>3, <2>7, <3>2 DEF Moves
  <2>8. QED
    BY <1>4, <2>4, <2>5, <2>6, <2>7 DEF PaymentEvents, Pending
<1>5. QED
  BY <1>1, <1>2, <1>3, <1>4 DEF Handlers, StockEvents, Reserving

(* Two statuses more, each of which may follow the one before.             *)
LEMMA ChainGrows ==
  ASSUME NEW S, NEW h \in Seq(S), NEW a \in S, NEW b \in S, h # <<>>, Chain(h),
         <<h[Len(h)], a>> \in Forward, <<a, b>> \in Forward
  PROVE  LET g == h \o <<a, b>> IN Chain(g) /\ g # <<>> /\ g[Len(g)] = b
<1> DEFINE g == h \o <<a, b>>
           n == Len(h)
<1>1. /\ Len(g) = n + 2 /\ n \in Nat \ {0}
      /\ \A i \in 1..n : g[i] = h[i]
      /\ g[n + 1] = a /\ g[n + 2] = b
  OBVIOUS
<1> HIDE DEF g
<1>2. ASSUME NEW i \in 1..(Len(g) - 1)
      PROVE  <<g[i], g[i + 1]>> \in Forward
  <2>1. i < n \/ i = n \/ i = n + 1
    BY <1>1, <1>2
  <2>2. CASE i < n
    <3>1. i \in 1..(n - 1) /\ i \in 1..n /\ i + 1 \in 1..n
      BY <1>1, <1>2, <2>2
    <3>2. g[i] = h[i] /\ g[i + 1] = h[i + 1]
      BY <1>1, <3>1
    <3>3. QED
      BY <3>1, <3>2 DEF Chain
  <2>3. CASE i = n
    <3>1. g[n] = h[n] /\ g[n + 1] = a
      BY <1>1
    <3>2. QED
      BY <2>3, <3>1
  <2>4. CASE i = n + 1
    <3>1. g[n + 1] = a /\ g[n + 1 + 1] = b
      BY <1>1
    <3>2. QED
      BY <2>4, <3>1
  <2>5. QED
    BY <2>1, <2>2, <2>3, <2>4
<1>3. g # <<>>
  BY <1>1
<1>4. QED
  BY <1>1, <1>2, <1>3 DEF Chain, g

(* The job of a handler that takes a step, when its order's status stays.  *)
LEMMA OwnJobFits ==
  ASSUME AdminStatuses = {}, SInv, NEW w \in Workers,
         Quietly(w) \/ Publish(w)
  PROVE  JobInv(w)'
<1>0. Typed /\ JobInv(w) /\ \A o \in Orders : SerialInv(o)
  BY DEF SInv, IInv
<1>1. ASSUME jobs[w].pc # "idle"
      PROVE  /\ jobs[w] \in GoodJob
             /\ jobs[w].order \in Orders /\ Fits(jobs[w], orders[jobs[w].order].status)
  <2>1. jobs[w] \in GoodJob
    BY <1>0, <1>1 DEF Typed, Idle
  <2>2. jobs[w].order \in Orders
    BY <2>1, ZenonT(60) DEF GoodJob, Job
  <2>3. QED
    BY <1>0, <1>1, <2>1, <2>2 DEF JobInv
<1>2. orders' = orders
  BY <1>0, QuietlyIs, PublishIs DEF Quiet, Publish
<1>3. ASSUME NEW job, Goto(w, job),
             job.pc = "idle" \/ Fits(job, orders[job.order].status)
      PROVE  JobInv(w)'
  <2>1. jobs'[w] = job
    BY <1>0, <1>3 DEF Goto, Typed
  <2>2. QED
    BY <1>2, <1>3, <2>1 DEF JobInv
<1>4. ASSUME NEW o \in Orders, NEW kind \in Commands \cup StockEvents \cup PaymentEvents,
             NEW cart \in Carts \cup {NoCart}, Start(w, o, kind, cart, "NONE")
      PROVE  JobInv(w)'
  <2> DEFINE job == [pc |-> IF kind \in Commands THEN "find key" ELSE "read",
                     kind |-> kind, order |-> o, cart |-> cart, target |-> "NONE",
                     seen |-> "NONE", out |-> <<>>, then |-> "idle"]
  <2>1. Goto(w, job) /\ Delivered(o, kind)
    BY <1>4 DEF Start
  <2>2. /\ job.pc \in {"find key", "read"} /\ job.then = "idle" /\ job.kind = kind
        /\ job.order = o /\ job.out = <<>>
    OBVIOUS
  <2> HIDE DEF job
  <2>3. ~Has(job.out, "request_payment")
    <3>1. ~Has(<<>>, "request_payment")
      BY DEF Has
    <3>2. QED
      BY <2>2, <3>1
  <2>4. kind \in PaymentEvents => Past(orders[o].status)
    BY <1>0, <2>1 DEF Delivered, SerialInv, PaymentEvents, StockEvents, Commands
  <2>5. kind \notin {"mark_payment_pending", "fail_checkout"}
    BY DEF Commands, StockEvents, PaymentEvents
  <2>6. Fits(job, orders[job.order].status)
    BY <2>2, <2>3, <2>4, <2>5 DEF Fits
  <2>7. QED
    BY <1>3, <2>1, <2>6
<1>5. CASE Begins(w)
  BY <1>4, <1>5 DEF Begins
<1>6. CASE FindKey(w)
  <2>1. PICK job \in {[jobs[w] EXCEPT !.pc = "insert"],
                      [jobs[w] EXCEPT !.pc = "open session"], Idle} : Goto(w, job)
    BY <1>6 DEF FindKey
  <2>2. CASE job = Idle
    BY <1>3, <2>1, <2>2 DEF Idle
  <2>3. CASE job # Idle
    <3>1. jobs[w].pc # "idle"
      BY <1>6 DEF FindKey
    <3>2. /\ job.pc \in {"insert", "open session"} /\ job.then = jobs[w].then
          /\ job.kind = jobs[w].kind /\ job.order = jobs[w].order /\ job.out = jobs[w].out
      BY <1>1, <2>1, <2>3, <3>1 DEF GoodJob, Job
    <3>3. Fits(job, orders[job.order].status)
      BY <1>1, <3>1, <3>2 DEF Fits
    <3>4. QED
      BY <1>3, <2>1, <3>3
  <2>4. QED
    BY <2>2, <2>3
<1>7. CASE Refused(w) \/ PaymentReply(w) \/ Fail(w)
  <2>1. Goto(w, Idle)
    BY <1>7 DEF Refused, InsertOrder, PaymentReply, Fail
  <2>2. QED
    BY <1>3, <2>1 DEF Idle
<1>8. CASE OpenSession(w)
  <2>0. jobs[w] \in GoodJob /\ Fits(jobs[w], orders[jobs[w].order].status)
    BY <1>1, <1>8 DEF OpenSession
  <2>1. PICK s : s = orders[jobs[w].order].status
    OBVIOUS
  <2>2. \/ s = "PENDING" /\ Goto(w, Say(jobs[w], <<"reserve_stock">>, "await stock"))
        \/ /\ s \in {"PAYMENT_PENDING", "STOCK_RESERVED"}
           /\ Goto(w, Say(jobs[w], <<"request_payment">>, "await payment"))
        \/ Goto(w, Idle)
    BY <1>8, <2>1 DEF OpenSession
  <2>3. PICK one, two : one = <<"reserve_stock">> /\ two = <<"request_payment">>
    OBVIOUS
  <2>4. one \in Outs \ {<<>>} /\ two \in Outs \ {<<>>} /\ ~Has(one, "request_payment")
    BY <2>3, HasOne DEF Outs
  <2>5. ASSUME s = "PENDING"
        PROVE  /\ Fits(Say(jobs[w], one, "await stock"), s)
               /\ Say(jobs[w], one, "await stock").order = jobs[w].order
    <3>1. PICK then : then = "await stock"
      OBVIOUS
    <3>2. then \in {"idle", "open session", "await stock", "await payment"}
      BY <3>1
    <3>3. /\ then = "await stock" \/ jobs[w].kind = "mark_payment_pending" => s # "NONE"
          /\ \/ then = "await payment" \/ jobs[w].kind \in PaymentEvents \cup {"fail_checkout"}
             \/ Has(one, "request_payment")
             => Past(s)
      BY <2>0, <2>1, <2>4, <2>5, <3>1 DEF Fits
    <3>4. Fits(Say(jobs[w], one, then), s)
      BY ONLY <2>0, <2>4, <3>2, <3>3, SayFits
    <3>5. Say(jobs[w], one, then).order = jobs[w].order
      <4>1. jobs[w] \in GoodJob /\ one \in Outs \ {<<>>}
        BY <2>0, <2>4
      <4>2. QED
        BY ONLY <3>2, <4>1, SayIsGood, ZenonT(120)
    <3>6. QED
      BY <3>1, <3>4, <3>5
  <2>6. ASSUME s \in {"PAYMENT_PENDING", "STOCK_RESERVED"}
        PROVE  /\ Fits(Say(jobs[w], two, "await payment"), s)
               /\ Say(jobs[w], two, "await payment").order = jobs[w].order
    <3>1. PICK then : then = "await payment"
      OBVIOUS
    <3>2. then \in {"idle", "open session", "await stock", "await payment"}
      BY <3>1
    <3>3. /\ then = "await stock" \/ jobs[w].kind = "mark_payment_pending" => s # "NONE"
          /\ \/ then = "await payment" \/ jobs[w].kind \in PaymentEvents \cup {"fail_checkout"}
             \/ Has(two, "request_payment")
             => Past(s)
      BY <2>0, <2>1, <2>4, <2>6, <3>1 DEF Fits, Past
    <3>4. Fits(Say(jobs[w], two, then), s)
      BY ONLY <2>0, <2>4, <3>2, <3>3, SayFits
    <3>5. Say(jobs[w], two, then).order = jobs[w].order
      <4>1. jobs[w] \in GoodJob /\ two \in Outs \ {<<>>}
        BY <2>0, <2>4
      <4>2. QED
        BY ONLY <3>2, <4>1, SayIsGood, ZenonT(120)
    <3>6. QED
      BY <3>1, <3>4, <3>5
  <2>7. QED
    BY <1>3, <2>1, <2>2, <2>3, <2>5, <2>6 DEF Idle
<1>9. CASE StockReply(w) \/ PaymentError(w)
  <2>1. jobs[w] \in GoodJob /\ Fits(jobs[w], orders[jobs[w].order].status)
    BY <1>1, <1>9 DEF StockReply, PaymentError
  <2>2. PICK kind : /\ Goto(w, [jobs[w] EXCEPT !.pc = "read", !.kind = kind])
                    /\ \/ kind = "mark_payment_pending" /\ jobs[w].pc = "await stock"
                       \/ kind = "fail_checkout" /\ jobs[w].pc = "await payment"
    BY <1>9 DEF StockReply, PaymentError
  <2>3. PICK job : job = [jobs[w] EXCEPT !.pc = "read", !.kind = kind]
    OBVIOUS
  <2>4. /\ job.pc = "read" /\ job.kind = kind /\ job.then = jobs[w].then
        /\ job.order = jobs[w].order /\ job.out = jobs[w].out
    BY <2>1, <2>3 DEF GoodJob, Job
  <2>5. Fits(job, orders[job.order].status)
    BY <2>1, <2>2, <2>4 DEF Fits, PaymentEvents
  <2>6. QED
    BY <1>3, <2>2, <2>3, <2>5
<1>10. CASE Read(w)
  <2>1. jobs[w] \in GoodJob /\ Fits(jobs[w], orders[jobs[w].order].status)
    BY <1>1, <1>10 DEF Read
  <2>2. PICK s : s = orders[jobs[w].order].status
    OBVIOUS
  <2>3. Goto(w, [jobs[w] EXCEPT !.pc = "write", !.seen = s]) \/ Goto(w, Idle)
    BY <1>10, <2>2 DEF Read
  <2>4. PICK job : job = [jobs[w] EXCEPT !.pc = "write", !.seen = s]
    OBVIOUS
  <2>5. /\ job.pc = "write" /\ job.seen = s /\ job.kind = jobs[w].kind
        /\ job.then = jobs[w].then /\ job.order = jobs[w].order /\ job.out = jobs[w].out
    BY <2>1, <2>4 DEF GoodJob, Job
  <2>6. Fits(job, orders[job.order].status)
    BY <2>1, <2>2, <2>5 DEF Fits
  <2>7. QED
    BY <1>3, <2>3, <2>4, <2>6 DEF Idle
<1>11. CASE Publish(w)
  <2>1. /\ jobs[w] \in GoodJob /\ Fits(jobs[w], orders[jobs[w].order].status)
        /\ jobs[w].pc = "publish"
    BY <1>1, <1>11 DEF Publish
  <2>2. PICK out, rest, none : out = jobs[w].out /\ rest = Tail(out) /\ none = <<>>
    OBVIOUS
  <2>3. \/ Len(out) > 1 /\ Goto(w, [jobs[w] EXCEPT !.out = rest])
        \/ Goto(w, Idle)
        \/ jobs[w].then # "idle" /\ Goto(w, [jobs[w] EXCEPT !.out = none, !.pc = jobs[w].then])
    <3>1. Goto(w, IF Len(jobs[w].out) > 1 THEN [jobs[w] EXCEPT !.out = Tail(jobs[w].out)]
                  ELSE IF jobs[w].then = "idle" THEN Idle
                  ELSE [jobs[w] EXCEPT !.out = <<>>, !.pc = jobs[w].then])
      BY <1>11 DEF Publish
    <3>2. QED
      BY <2>2, <3>1
  <2>4. Len(out) > 1 => \A m : Has(rest, m) => Has(out, m)
    BY <2>1, <2>2, OutsAre DEF GoodJob
  <2>5. ~Has(none, "request_payment")
    BY <2>2 DEF Has
  <2>6. PICK one, two : /\ one = [jobs[w] EXCEPT !.out = rest]
                        /\ two = [jobs[w] EXCEPT !.out = none, !.pc = jobs[w].then]
    OBVIOUS
  <2>7. /\ one.pc = "publish" /\ one.kind = jobs[w].kind /\ one.then = jobs[w].then
        /\ one.order = jobs[w].order /\ one.out = rest
        /\ two.pc = jobs[w].then /\ two.kind = jobs[w].kind /\ two.then = jobs[w].then
        /\ two.order = jobs[w].order /\ two.out = none
        /\ jobs[w].then \in {"idle", "open session", "await stock", "await payment"}
    BY <2>1, <2>6 DEF GoodJob, Job
  <2>8. Len(out) > 1 => Fits(one, orders[one.order].status)
    BY <2>1, <2>2, <2>4, <2>7 DEF Fits
  <2>9. Fits(two, orders[two.order].status)
    BY <2>1, <2>5, <2>7 DEF Fits
  <2>10. QED
    BY <1>3, <2>3, <2>6, <2>8, <2>9 DEF Idle
<1>12. QED
  BY <1>5, <1>6, <1>7, <1>8, <1>9, <1>10, <1>11 DEF Quietly

(* The job of another handler, when an order's status moves on.            *)
LEMMA OtherJobFits ==
  ASSUME Typed, NEW x \in Workers, JobInv(x), jobs'[x] = jobs[x],
         \A o \in Orders :
           \/ orders'[o].status = orders[o].status
           \/ /\ orders'[o].status # "NONE" /\ ~InTransaction(x, o)
              /\ Past(orders[o].status) => Past(orders'[o].status)
  PROVE  JobInv(x)'
<1>1. CASE jobs[x].pc = "idle"
  BY <1>1 DEF JobInv
<1>2. CASE jobs[x].pc # "idle"
  <2>1. jobs[x] \in GoodJob
    BY <1>2 DEF Typed, Idle
  <2>2. PICK o : o = jobs[x].order
    OBVIOUS
  <2>3. o \in Orders /\ Fits(jobs[x], orders[o].status)
    BY <1>2, <2>1, <2>2 DEF GoodJob, Job, JobInv
  <2>4. Fits(jobs[x], orders'[o].status)
    <3>1. CASE orders'[o].status = orders[o].status
      BY <2>3, <3>1
    <3>2. CASE /\ orders'[o].status # "NONE" /\ ~InTransaction(x, o)
               /\ Past(orders[o].status) => Past(orders'[o].status)
      <4>1. jobs[x].pc # "write"
        BY <2>2, <3>2 DEF InTransaction
      <4>2. QED
        BY <2>3, <3>2, <4>1 DEF Fits
    <3>3. QED
      BY <2>3, <3>1, <3>2
  <2>5. jobs'[x] = jobs[x] /\ jobs[x].order = o
    BY <2>2
  <2>6. QED
    BY <2>4, <2>5 DEF JobInv
<1>3. QED
  BY <1>1, <1>2

(* The step that makes an order, with the handlers one after the other.    *)
LEMMA CreatesSerially ==
  ASSUME AdminStatuses = {}, SInv, IInv', NEW w \in Workers, InsertOrder(w), ~Refused(w)
  PROVE  (\A o \in Orders : SerialInv(o)') /\ \A x \in Workers : JobInv(x)'
<1>0. /\ IInv /\ Typed /\ \A o \in Orders : SerialInv(o)
      /\ \A x \in Workers : JobInv(x)
  BY DEF SInv, IInv
<1>1. Creates(w)
  BY <1>0, CreatesIs
<1>2. PICK c \in Orders : c = jobs[w].order
  BY <1>1 DEF Creates
<1>3. /\ jobs[w].pc = "insert" /\ orders[c].status = "NONE"
      /\ orders'[c].status = "PENDING" /\ orders'[c].payment = "NONE"
      /\ history'[c] = Append(history[c], "PENDING")
      /\ \A p \in Orders \ {c} : orders'[p] = orders[p] /\ history'[p] = history[p]
      /\ \A x \in Workers \ {w} : jobs'[x] = jobs[x]
      /\ sent' = sent
  BY <1>1, <1>2 DEF Creates
<1>4. ASSUME NEW o \in Orders
      PROVE  SerialInv(o)'
  <2>0. SerialInv(o)
    BY <1>0
  <2>1. CASE o # c
    BY <1>3, <2>0, <2>1 DEF SerialInv, Once, TimesIn
  <2>2. CASE o = c
    <3>1. history[c] = <<>>
      BY <1>0, <1>3 DEF IInv, OrderInv, CreatedInv
    <3>2. history'[c] = <<"PENDING">>
      BY <1>3, <3>1
    <3>3. PICK h : h = <<"PENDING">>
      OBVIOUS
    <3>4. h # <<>> /\ h[Len(h)] = "PENDING" /\ Chain(h) /\ DOMAIN h = {1} /\ h[1] = "PENDING"
      BY <3>3 DEF Chain
    <3>5. ASSUME NEW s \in {"CONFIRMED", "CANCELLED"}
          PROVE  TimesIn(s, c)' = 0
      <4>1. {i \in DOMAIN h : h[i] = s} = {}
        BY <3>4, <3>5
      <4>2. QED
        BY <3>2, <3>3, <4>1, FS_EmptySet DEF TimesIn
    <3>6. Once("CONFIRMED", c)' /\ Once("CANCELLED", c)'
      BY <1>3, <3>5 DEF Once
    <3>7. sent[c]["request_payment"] > 0 => FALSE
      BY <1>3, <2>0, <2>2 DEF SerialInv, Past
    <3>8. QED
      BY <1>3, <2>2, <3>2, <3>3, <3>4, <3>6, <3>7 DEF SerialInv, Live
  <2>3. QED
    BY <2>1, <2>2
<1>5. ASSUME NEW x \in Workers \ {w}
      PROVE  JobInv(x)'
  <2>1. ~InTransaction(x, c)
    <3>1. SUFFICES ASSUME InTransaction(x, c)
                   PROVE  FALSE
      OBVIOUS
    <3>2. jobs[x] \in GoodJob /\ jobs[x].pc = "write" /\ jobs[x].order = c
      BY <1>0, <3>1 DEF InTransaction, Typed, Idle
    <3>3. Fits(jobs[x], "NONE")
      BY <1>0, <1>3, <3>2 DEF JobInv
    <3>4. Moves(jobs[x], "NONE")
      BY <3>2, <3>3, MovesAre DEF Live
    <3>5. QED
      BY <3>3, <3>4 DEF Moves, Fits
  <2>2. \A o \in Orders :
           \/ orders'[o].status = orders[o].status
           \/ /\ orders'[o].status # "NONE" /\ ~InTransaction(x, o)
              /\ Past(orders[o].status) => Past(orders'[o].status)
    BY <1>3, <2>1 DEF Past
  <2>3. JobInv(x) /\ jobs'[x] = jobs[x]
    BY <1>0, <1>3
  <2>4. QED
    BY <1>0, <2>2, <2>3, OtherJobFits
<1>6. JobInv(w)'
  <2>1. jobs[w] \in GoodJob /\ Fits(jobs[w], "NONE")
    BY <1>0, <1>2, <1>3 DEF Typed, Idle, JobInv
  <2>2. jobs[w].kind \notin PaymentEvents \cup {"fail_checkout", "mark_payment_pending"}
    BY <2>1 DEF Fits, Past
  <2>3. PICK one, two : one = <<"order_created">> /\ two = <<"order_created", "reserve_stock">>
    OBVIOUS
  <2>4. one \in Outs \ {<<>>} /\ two \in Outs \ {<<>>}
    BY <2>3 DEF Outs
  <2>5. ~Has(one, "request_payment") /\ ~Has(two, "request_payment")
    BY <2>3 DEF Has
  <2>6. Goto(w, Say(jobs[w], two, "idle")) \/ Goto(w, Say(jobs[w], one, "open session"))
    BY <1>2, <1>3, <2>3 DEF InsertOrder, Inserted
  <2>7. ASSUME NEW messages \in {one, two}, NEW then \in {"idle", "open session"},
               Goto(w, Say(jobs[w], messages, then))
        PROVE  JobInv(w)'
    <3>1. messages \in Outs \ {<<>>}
          /\ then \in {"idle", "open session", "await stock", "await payment"}
      BY <2>4
    <3>2. /\ then = "await stock" \/ jobs[w].kind = "mark_payment_pending" => "PENDING" # "NONE"
          /\ \/ then = "await payment" \/ jobs[w].kind \in PaymentEvents \cup {"fail_checkout"}
             \/ Has(messages, "request_payment")
             => Past("PENDING")
      BY <2>2, <2>5, <2>7
    <3>3. Fits(Say(jobs[w], messages, then), "PENDING")
      BY <2>1, <3>1, <3>2, SayFits
    <3>4. Say(jobs[w], messages, then) \in GoodJob
          /\ Say(jobs[w], messages, then).order = jobs[w].order
      <4>1. jobs[w] \in GoodJob
        BY <2>1
      <4>2. QED
        BY ONLY <3>1, <4>1, SayIsGood, ZenonT(120)
    <3>5. PICK job : job = Say(jobs[w], messages, then)
      OBVIOUS
    <3>6. jobs'[w] = job
      BY <1>0, <2>7, <3>5 DEF Goto, Typed
    <3>7. job.order = c /\ Fits(job, "PENDING")
      BY <1>2, <3>3, <3>4, <3>5
    <3>8. QED
      BY <1>3, <3>6, <3>7 DEF JobInv
  <2>8. QED
    BY <2>6, <2>7
<1>7. QED
  BY <1>4, <1>5, <1>6

(* How a transaction leaves the row and the history of its order, with the *)
(* handlers one after the other.                                           *)
Trail(t) == CASE t = "PAYMENT_PENDING" -> <<"STOCK_RESERVED", "PAYMENT_PENDING">>
              [] t = "CANCELLED"       -> <<"FAILED", "CANCELLED">>
              [] t = "CONFIRMED"       -> <<"PAID", "CONFIRMED">>

MovesTo(kind, s, t) ==
  \/ t = "PAYMENT_PENDING" /\ s = "PENDING" /\ kind \in Reserving
  \/ t = "CANCELLED" /\ s \in {"PENDING", "PAYMENT_PENDING"} /\ kind \in Cancelling
  \/ t = "CONFIRMED" /\ s = "PAYMENT_PENDING" /\ kind = "payment_succeeded"

Decides(w, o, t) ==
  LET s == orders[o].status IN
  /\ orders'[o].status = t
  /\ \/ /\ t = s /\ history'[o] = history[o]
        /\ jobs[w].kind \in {"mark_payment_pending"} \cup Pending
        /\ jobs[w].kind \in Pending => s = "PAYMENT_PENDING"
     \/ MovesTo(jobs[w].kind, s, t) /\ history'[o] = history[o] \o Trail(t)

(* The transaction of a handler, when no other is between its read and its *)
(* write.                                                                  *)
LEMMA DecidesIs ==
  ASSUME AdminStatuses = {}, SInv, NEW w \in Workers, Write(w)
  PROVE  \E o \in Orders : \E t : /\ o = jobs[w].order /\ Decides(w, o, t)
                              /\ Goto(w, Committed(w, t))
<1>0. IInv /\ Typed /\ JobInv(w) /\ \A o \in Orders : SerialInv(o)
  BY DEF SInv, IInv
<1>1. jobs[w] \in GoodJob /\ jobs[w].pc = "write" /\ jobs[w].order \in Orders
  BY <1>0, WriteIs
<1>2. PICK o, s : o \in Orders /\ o = jobs[w].order /\ s = orders[o].status
  BY <1>1
<1>3. s \in Live /\ Fits(jobs[w], s)
  BY <1>0, <1>1, <1>2 DEF SerialInv, JobInv
<1>4. Moves(jobs[w], s)
  BY <1>1, <1>3, MovesAre
<1>5. PICK steps : steps = Transitions(jobs[w], s)
  OBVIOUS
<1>6. /\ orders' = [orders EXCEPT ![o].status = IF steps = <<>> THEN s ELSE steps[Len(steps)],
                          ![o].payment = PaymentStatus(jobs[w].kind, orders[o].payment)]
      /\ history' = [history EXCEPT ![o] = history[o] \o steps]
      /\ Goto(w, Committed(w, IF steps = <<>> THEN s ELSE steps[Len(steps)]))
  BY <1>2, <1>5 DEF Write
<1>7. PICK t : t = IF steps = <<>> THEN s ELSE steps[Len(steps)]
  OBVIOUS
<1>8. orders'[o].status = t /\ history'[o] = history[o] \o steps
  BY <1>0, <1>2, <1>6, <1>7 DEF Typed
<1>9. \/ /\ steps = <<>> /\ t = s
         /\ jobs[w].kind \in {"mark_payment_pending"} \cup Pending
         /\ jobs[w].kind \in Pending => s = "PAYMENT_PENDING"
      \/ MovesTo(jobs[w].kind, s, t) /\ steps = Trail(t)
  <2>1. CASE steps = <<>>
    <3>1. /\ jobs[w].kind \in {"mark_payment_pending"} \cup Pending
          /\ jobs[w].kind \in Pending => s = "PAYMENT_PENDING"
      BY <1>4, <1>5, <2>1 DEF Moves
    <3>2. QED
      BY <1>7, <2>1, <3>1
  <2>2. CASE steps = <<"STOCK_RESERVED", "PAYMENT_PENDING">>
    <3>1. t = "PAYMENT_PENDING" /\ steps = Trail("PAYMENT_PENDING")
      BY <1>7, <2>2 DEF Trail
    <3>2. s = "PENDING" /\ jobs[w].kind \in Reserving
      BY <1>4, <1>5, <2>2 DEF Moves
    <3>3. QED
      BY <3>1, <3>2 DEF MovesTo
  <2>3. CASE steps = <<"FAILED", "CANCELLED">>
    <3>1. t = "CANCELLED" /\ steps = Trail("CANCELLED")
      BY <1>7, <2>3 DEF Trail
    <3>2. s \in {"PENDING", "PAYMENT_PENDING"} /\ jobs[w].kind \in Cancelling
      BY <1>4, <1>5, <2>3 DEF Moves
    <3>3. QED
      BY <3>1, <3>2 DEF MovesTo
  <2>4. CASE steps = <<"PAID", "CONFIRMED">>
    <3>1. t = "CONFIRMED" /\ steps = Trail("CONFIRMED")
      BY <1>7, <2>4 DEF Trail
    <3>2. s = "PAYMENT_PENDING" /\ jobs[w].kind = "payment_succeeded"
      BY <1>4, <1>5, <2>4 DEF Moves
    <3>3. QED
      BY <3>1, <3>2 DEF MovesTo
  <2>5. QED
    BY <1>4, <1>5, <2>1, <2>2, <2>3, <2>4 DEF Moves
<1>10. steps = <<>> => history[o] \o steps = history[o]
  <2>1. history[o] \in Seq(Statuses \ {"NONE"})
    BY <1>0, <1>2, SMTT(30) DEF Typed
  <2>2. QED
    BY <2>1
<1>11. Decides(w, o, t)
  BY <1>2, <1>8, <1>9, <1>10 DEF Decides
<1>12. QED
  BY <1>2, <1>6, <1>7, <1>11

TrailFollows(s, t) ==
  \E a, b \in Statuses \ {"NONE"} :
    /\ Trail(t) = <<a, b>> /\ b = t /\ a \notin {"CONFIRMED", "CANCELLED"}
    /\ <<s, a>> \in Forward /\ <<a, b>> \in Forward

(* The two statuses a decision writes follow each other, and the one       *)
(* before.                                                                 *)
LEMMA TrailIs ==
  ASSUME NEW kind, NEW s, NEW t, MovesTo(kind, s, t)
  PROVE  /\ TrailFollows(s, t)
         /\ s \in {"PENDING", "PAYMENT_PENDING"} /\ Past(t)
<1>1. CASE t = "PAYMENT_PENDING"
  <2>1. Trail(t) = <<"STOCK_RESERVED", "PAYMENT_PENDING">> /\ s = "PENDING"
    BY <1>1 DEF Trail, MovesTo
  <2>2. QED
    BY <1>1, <2>1 DEF TrailFollows, Statuses, Forward, Past
<1>2. CASE t = "CANCELLED"
  <2>1. Trail(t) = <<"FAILED", "CANCELLED">> /\ s \in {"PENDING", "PAYMENT_PENDING"}
    BY <1>2 DEF Trail, MovesTo
  <2>2. QED
    BY <1>2, <2>1 DEF TrailFollows, Statuses, Forward, Past
<1>3. CASE t = "CONFIRMED"
  <2>1. Trail(t) = <<"PAID", "CONFIRMED">> /\ s = "PAYMENT_PENDING"
    BY <1>3 DEF Trail, MovesTo
  <2>2. QED
    BY <1>3, <2>1 DEF TrailFollows, Statuses, Forward, Past
<1>4. QED
  BY <1>1, <1>2, <1>3 DEF MovesTo

(* A transaction that has decided and has something to say fits what it    *)
(* has written.                                                            *)
LEMMA CommittedFits ==
  ASSUME NEW w \in Workers, jobs[w] \in GoodJob, jobs[w].pc = "write", NEW t,
         Past(t) \/ jobs[w].kind \in {"mark_payment_pending"} \cup Pending
  PROVE  \E job : /\ job = Committed(w, t)
                  /\ job.pc = "idle" \/ (job.order = jobs[w].order /\ Fits(job, t))
<1>1. PICK job : job = Committed(w, t)
  OBVIOUS
<1>2. ASSUME NEW messages \in Outs \ {<<>>},
             NEW then \in {"idle", "open session", "await stock", "await payment"},
             job = Say(jobs[w], messages, then), Past(t)
      PROVE  job.order = jobs[w].order /\ Fits(job, t)
  <2>1. t # "NONE"
    BY <1>2 DEF Past
  <2>2. Fits(Say(jobs[w], messages, then), t)
    BY <1>2, <2>1, SayFits
  <2>3. Say(jobs[w], messages, then).order = jobs[w].order
    BY ONLY jobs[w] \in GoodJob, messages \in Outs \ {<<>>}, SayIsGood,
       then \in {"idle", "open session", "await stock", "await payment"}, ZenonT(120)
  <2>4. QED
    BY <1>2, <2>2, <2>3
<1>3. CASE jobs[w].kind = "mark_payment_pending"
  <2>1. PICK one : one = <<"request_payment">>
    OBVIOUS
  <2>2. one \in Outs \ {<<>>}
    BY <2>1 DEF Outs
  <2>3. \/ job = Say(jobs[w], one, "await payment")
           /\ t \in {"PAYMENT_PENDING", "STOCK_RESERVED"}
        \/ job = Idle
    BY <1>1, <1>3, <2>1 DEF Committed
  <2>4. CASE job = Idle
    BY <1>1, <2>4 DEF Idle
  <2>5. CASE job # Idle
    <3>1. Past(t) /\ job = Say(jobs[w], one, "await payment")
      BY <2>3, <2>5 DEF Past
    <3>2. QED
      BY <1>1, <1>2, <2>2, <3>1
  <2>6. QED
    BY <2>4, <2>5
<1>4. CASE jobs[w].kind # "mark_payment_pending"
  <2>1. PICK messages : messages = Announcements(jobs[w].kind)
    OBVIOUS
  <2>2. messages \in Outs
    <3>1. messages \in {<<>>, <<"request_payment">>, <<"order_cancelled">>,
            <<"order_confirmed", "confirm_stock", "clear_cart">>,
            <<"order_cancelled", "release_stock">>}
      BY <2>1 DEF Announcements
    <3>2. QED
      BY <3>1 DEF Outs
  <2>3. jobs[w].kind \in Pending => messages = <<>>
    BY <2>1 DEF Announcements, Pending
  <2>4. job = IF messages = <<>> THEN Idle ELSE Say(jobs[w], messages, "idle")
    BY <1>1, <1>4, <2>1 DEF Committed
  <2>5. CASE messages = <<>>
    BY <1>1, <2>4, <2>5 DEF Idle
  <2>6. CASE messages # <<>>
    BY <1>1, <1>2, <1>4, <2>2, <2>3, <2>4, <2>6
  <2>7. QED
    BY <2>5, <2>6
<1>5. QED
  BY <1>3, <1>4

(* The step that commits a transaction, with the handlers one after the    *)
(* other.                                                                  *)
LEMMA WriteSerially ==
  ASSUME AdminStatuses = {}, SInv, IInv', NEW w \in Workers, Write(w)
  PROVE  (\A o \in Orders : SerialInv(o)') /\ \A x \in Workers : JobInv(x)'
<1>0. /\ IInv /\ Typed /\ NoOverlap /\ \A o \in Orders : SerialInv(o)
      /\ \A x \in Workers : JobInv(x)
  BY DEF SInv, IInv
<1>1. PICK c, t : c \in Orders /\ c = jobs[w].order /\ Decides(w, c, t)
                             /\ Goto(w, Committed(w, t))
  BY DecidesIs
<1>2. PICK s : s = orders[c].status
  OBVIOUS
<1>3. /\ jobs[w] \in GoodJob /\ jobs[w].pc = "write" /\ Fits(jobs[w], s) /\ s \in Live
  <2>1. jobs[w] \in GoodJob /\ jobs[w].pc = "write"
    BY <1>0, WriteIs
  <2>2. QED
    BY <1>0, <1>1, <1>2, <2>1 DEF JobInv, SerialInv
<1>4. /\ orders'[c].payment = PaymentStatus(jobs[w].kind, orders[c].payment)
      /\ \A p \in Orders \ {c} : orders'[p] = orders[p] /\ history'[p] = history[p]
      /\ \A x \in Workers \ {w} : jobs'[x] = jobs[x]
      /\ sent' = sent
  <2>1. \E a, b : Wrote(w, a, b)
    BY <1>0, WriteIs, SMTT(30)
  <2>2. QED
    BY <1>1, <2>1 DEF Wrote
<1>5. /\ t \in Live /\ orders'[c].status = t
      /\ s # "NONE" => t # "NONE"
      /\ Past(s) => Past(t)
      /\ t = s \/ (t # "NONE" /\ s # "NONE" /\ Past(t))
  BY <1>1, <1>2, <1>3 DEF Decides, MovesTo, Live, Past
<1>6. ASSUME NEW o \in Orders
      PROVE  SerialInv(o)'
  <2>0. SerialInv(o)
    BY <1>0
  <2>1. CASE o # c
    BY <1>4, <2>0, <2>1 DEF SerialInv, Once, TimesIn
  <2>2. CASE o = c
    <3>1. /\ orders'[c].status # "NONE" =>
               history'[c] # <<>> /\ history'[c][Len(history'[c])] = orders'[c].status
          /\ Chain(history'[c])
          /\ Once("CONFIRMED", c)' /\ Once("CANCELLED", c)'
      <4>1. CASE t = s /\ history'[c] = history[c]
        BY <1>2, <1>5, <2>0, <2>2, <4>1 DEF SerialInv, Once, TimesIn
      <4>2. CASE MovesTo(jobs[w].kind, s, t) /\ history'[c] = history[c] \o Trail(t)
        <5>1. PICK S : S = Statuses \ {"NONE"}
          OBVIOUS
        <5>2. PICK a, b :
                /\ a \in S /\ b \in S
                /\ Trail(t) = <<a, b>> /\ b = t /\ a \notin {"CONFIRMED", "CANCELLED"}
                /\ <<s, a>> \in Forward /\ <<a, b>> \in Forward
          <6>1. TrailFollows(s, t)
            BY <4>2, TrailIs
          <6>2. QED
            BY <5>1, <6>1 DEF TrailFollows
        <5>3. s \in {"PENDING", "PAYMENT_PENDING"}
          BY <4>2, TrailIs
        <5>4. PICK h : h = history[c]
          OBVIOUS
        <5>5. h \in Seq(S) /\ h # <<>> /\ h[Len(h)] = s /\ Chain(h)
          BY <1>0, <1>2, <2>0, <2>2, <5>1, <5>3, <5>4 DEF Typed, SerialInv
        <5>6. history'[c] = h \o <<a, b>>
          BY <4>2, <5>2, <5>4
        <5>7. LET g == h \o <<a, b>> IN Chain(g) /\ g # <<>> /\ g[Len(g)] = b
          BY <5>2, <5>5, ChainGrows
        <5>8. ASSUME NEW x \in {"CONFIRMED", "CANCELLED"}
              PROVE  Once(x, c)'
          <6>1. /\ Count(h, x) \in Nat
                /\ Count(h \o <<b>>, x) = Count(h, x) + IF b = x THEN 1 ELSE 0
                /\ Count(h \o <<a, b>>, x) = Count(h, x) + (IF a = x THEN 1 ELSE 0)
                                                        + (IF b = x THEN 1 ELSE 0)
            <7>1. h \in Seq(S) /\ a \in S /\ b \in S
              BY <5>2, <5>5
            <7>2. QED
              BY ONLY <7>1, CountTwo
          <6>2. TimesIn(x, c) = Count(h, x) /\ TimesIn(x, c)' = Count(h \o <<a, b>>, x)
            BY <5>4, <5>6 DEF TimesIn, Count
          <6>3. TimesIn(x, c) <= 0
            BY <1>2, <2>0, <2>2, <5>3, <5>8 DEF SerialInv, Once
          <6>4. TimesIn(x, c)' <= IF b = x THEN 1 ELSE 0
            <7>1. PICK m, n : m = Count(h, x) /\ n = Count(h \o <<a, b>>, x)
              OBVIOUS
            <7>2. m \in Nat /\ m <= 0 /\ n = m + IF b = x THEN 1 ELSE 0
              BY <5>2, <5>8, <6>1, <6>2, <6>3, <7>1
            <7>3. n <= IF b = x THEN 1 ELSE 0
              BY ONLY <7>2
            <7>4. QED
              BY <6>2, <7>1, <7>3
          <6>5. QED
            BY <1>5, <5>2, <6>4 DEF Once
        <5>9. QED
          BY <1>5, <5>2, <5>6, <5>7, <5>8
      <4>3. QED
        BY <1>1, <1>2, <4>1, <4>2 DEF Decides
    <3>3. orders'[c].payment = "APPROVED" => orders'[c].status = "CONFIRMED"
      <4>1. orders[c].payment = "APPROVED" => s = "CONFIRMED"
        BY <1>2, <2>0, <2>2 DEF SerialInv
      <4>2. jobs[w].kind \in Handlers
        BY <1>3 DEF GoodJob
      <4>3. \/ /\ t = s /\ jobs[w].kind \in {"mark_payment_pending"} \cup Pending
            \/ MovesTo(jobs[w].kind, s, t)
        BY <1>1, <1>2 DEF Decides
      <4>4. QED
        BY <1>4, <1>5, <4>1, <4>3 DEF PaymentStatus, MovesTo, Pending, Reserving, Cancelling
    <3>4. sent'[c]["request_payment"] > 0 => Past(orders'[c].status)
      BY <1>2, <1>4, <1>5, <2>0, <2>2 DEF SerialInv
    <3>5. QED
      BY <1>5, <2>2, <3>1, <3>3, <3>4 DEF SerialInv
  <2>3. QED
    BY <2>1, <2>2
<1>7. ASSUME NEW x \in Workers \ {w}
      PROVE  JobInv(x)'
  <2>1. ~InTransaction(x, c)
    BY <1>0, <1>1, <1>3, <1>7 DEF NoOverlap, InTransaction
  <2>2. \A o \in Orders :
           \/ orders'[o].status = orders[o].status
           \/ /\ orders'[o].status # "NONE" /\ ~InTransaction(x, o)
              /\ Past(orders[o].status) => Past(orders'[o].status)
    BY <1>2, <1>4, <1>5, <2>1
  <2>3. JobInv(x) /\ jobs'[x] = jobs[x]
    BY <1>0, <1>4
  <2>4. QED
    BY <1>0, <2>2, <2>3, OtherJobFits
<1>8. JobInv(w)'
  <2>1. Past(t) \/ jobs[w].kind \in {"mark_payment_pending"} \cup Pending
    BY <1>1, TrailIs DEF Decides
  <2>2. PICK job : /\ job = Committed(w, t)
                   /\ job.pc = "idle" \/ (job.order = c /\ Fits(job, t))
    BY <1>1, <1>3, <2>1, CommittedFits
  <2>3. jobs'[w] = job
    BY <1>0, <1>1, <2>2 DEF Goto, Typed
  <2>4. QED
    BY <1>5, <2>2, <2>3 DEF JobInv
<1>9. QED
  BY <1>6, <1>7, <1>8

(* The steps that change no status, with the handlers one after the other. *)
LEMMA SameSerially ==
  ASSUME AdminStatuses = {}, SInv, NEW w \in Workers, Quietly(w) \/ Publish(w)
  PROVE  (\A o \in Orders : SerialInv(o)') /\ \A x \in Workers : JobInv(x)'
<1>0. /\ IInv /\ Typed /\ \A o \in Orders : SerialInv(o)
      /\ \A x \in Workers : JobInv(x)
  BY DEF SInv, IInv
<1>1. JobInv(w)'
  BY OwnJobFits
<1>2. orders' = orders /\ history' = history /\ \A x \in Workers \ {w} : jobs'[x] = jobs[x]
  <2>1. CASE Quietly(w)
    BY <1>0, <2>1, QuietlyIs DEF Quiet
  <2>2. CASE Publish(w)
    <3>1. \E n, o : Publishes(w, n, o)
      BY <1>0, <2>2, PublishIs
    <3>2. QED
      BY <3>1 DEF Publishes
  <2>3. QED
    BY <2>1, <2>2
<1>3. ASSUME NEW x \in Workers \ {w}
      PROVE  JobInv(x)'
  BY <1>0, <1>2, OtherJobFits
<1>4. ASSUME NEW o \in Orders
      PROVE  sent'[o]["request_payment"] > 0 => Past(orders[o].status)
  <2>0. sent[o]["request_payment"] > 0 => Past(orders[o].status)
    BY <1>0 DEF SerialInv
  <2>1. CASE Quietly(w)
    BY <1>0, <2>0, <2>1, QuietlyIs DEF Quiet
  <2>2. CASE Publish(w)
    <3>1. PICK n, c : Publishes(w, n, c)
      BY <1>0, <2>2, PublishIs
    <3>2. CASE n = "request_payment" /\ c = o
      <4>1. /\ jobs[w].pc = "publish" /\ jobs[w].order = o
            /\ Has(jobs[w].out, "request_payment")
        BY <3>1, <3>2 DEF Publishes, Tells
      <4>2. Fits(jobs[w], orders[o].status)
        BY <1>0, <4>1 DEF JobInv
      <4>3. QED
        BY <4>1, <4>2 DEF Fits
    <3>3. CASE ~(n = "request_payment" /\ c = o)
      BY <2>0, <3>1, <3>3 DEF Publishes, Messages
    <3>4. QED
      BY <3>2, <3>3
  <2>3. QED
    BY <2>1, <2>2
<1>5. ASSUME NEW o \in Orders
      PROVE  SerialInv(o)'
  <2>1. SerialInv(o)
    BY <1>0
  <2>2. QED
    BY <1>2, <1>4, <2>1 DEF SerialInv, Once, TimesIn
<1>6. QED
  BY <1>1, <1>3, <1>5

(* The invariant of handlers that take turns holds at first.               *)
LEMMA InitSInv ==
  ASSUME Init
  PROVE  SInv
<1>1. IInv
  BY InitIInv
<1>2. NoOverlap /\ \A w \in Workers : JobInv(w)
  BY DEF Init, Idle, NoOverlap, InTransaction, JobInv
<1>3. ASSUME NEW o \in Orders
      PROVE  SerialInv(o)
  <2>1. /\ orders[o].status = "NONE" /\ orders[o].payment = "NONE"
        /\ history[o] = <<>> /\ sent[o]["request_payment"] = 0
    BY DEF Init, NoOrder, Messages
  <2>2. \A s : TimesIn(s, o) = 0
    <3>1. ASSUME NEW s
          PROVE  {i \in DOMAIN history[o] : history[o][i] = s} = {}
      BY <2>1
    <3>2. QED
      BY <3>1, FS_EmptySet DEF TimesIn
  <2>3. Chain(history[o])
    BY <2>1 DEF Chain
  <2>4. Once("CONFIRMED", o) /\ Once("CANCELLED", o)
    BY <2>1, <2>2 DEF Once
  <2>5. QED
    BY <2>1, <2>3, <2>4 DEF SerialInv, Live
<1>4. QED
  BY <1>1, <1>2, <1>3 DEF SInv

(* Every step of handlers that take turns keeps it.                        *)
LEMMA NextSInv ==
  ASSUME AdminStatuses = {}, SInv, [Next /\ NoOverlap']_vars
  PROVE  SInv'
<1>1. IInv'
  BY NextIInv DEF SInv
<1>2. CASE UNCHANGED vars
  BY <1>1, <1>2 DEF vars, SInv, NoOverlap, InTransaction, SerialInv, Once, TimesIn, JobInv
<1>3. ASSUME Next, NoOverlap'
      PROVE  SInv'
  <2>1. ASSUME NEW w \in Workers, Quietly(w) \/ Publish(w)
        PROVE  SInv'
    BY <1>1, <1>3, <2>1, SameSerially DEF SInv
  <2>2. ASSUME NEW w \in Workers, InsertOrder(w), ~Refused(w)
        PROVE  SInv'
    BY <1>1, <1>3, <2>2, CreatesSerially DEF SInv
  <2>3. ASSUME NEW w \in Workers, Write(w)
        PROVE  SInv'
    BY <1>1, <1>3, <2>3, WriteSerially DEF SInv
  <2>4. ASSUME NEW o \in Orders, NEW result \in {"PENDING", "FAILED"},
               InventoryAnswers(o, result)
        PROVE  SInv'
    <3>1. UNCHANGED <<orders, history, sent, jobs>>
      BY <2>4 DEF InventoryAnswers
    <3>2. QED
      BY <1>1, <1>3, <3>1 DEF SInv, SerialInv, Once, TimesIn, JobInv
  <2>5. QED
    BY <1>3, <2>1, <2>2, <2>3, <2>4 DEF Next, Proceed, Quietly, Begins
<1>4. QED
  BY <1>2, <1>3

(* It holds in every state they reach.                                     *)
LEMMA SInvAlways ==
  ASSUME AdminStatuses = {}
  PROVE  SerialSpec => []SInv
<1>1. Init => SInv
  BY InitSInv
<1>2. SInv /\ [Next /\ NoOverlap']_vars => SInv'
  BY NextSInv
<1>3. QED
  BY <1>1, <1>2, PTL DEF SerialSpec

(* If the handlers of an order take turns and no administrator interferes, *)
(* its status history reads as the saga was meant to run, for any number   *)
(* of orders and handlers.                                                 *)
THEOREM SagaRunsForward ==
  ASSUME AdminStatuses = {}
  PROVE  SerialSpec => []HistoryMovesForward
<1>1. SInv => HistoryMovesForward
  BY DEF SInv, SerialInv, Chain, HistoryMovesForward
<1>2. QED
  BY <1>1, SInvAlways, PTL

(* Then, too, the stock of an order is confirmed or released, once, and    *)
(* its cart cleared once: what overlapping transactions break.             *)
THEOREM SettledOnceInTurn ==
  ASSUME AdminStatuses = {}
  PROVE  SerialSpec => []SettledOnce
<1>1. ASSUME SInv
      PROVE  SettledOnce
  <2>0. IInv /\ Typed /\ \A o \in Orders : SerialInv(o)
    BY <1>1 DEF SInv, IInv
  <2>1. ASSUME NEW o \in Orders, NEW m \in {"confirm_stock", "clear_cart", "release_stock"}
        PROVE  /\ sent[o][m] \in Nat
               /\ sent[o][m] <= IF orders[o].status = Decision[m] THEN 1 ELSE 0
    <3>1. m \in Settling /\ Decision[m] \in {"CONFIRMED", "CANCELLED"}
      BY DEF Settling, Decision
    <3>2. sent[o][m] + Cardinality(Tellers(m, o)) <= TimesIn(Decision[m], o)
      BY <2>0, <3>1 DEF IInv, OrderInv, ToldInv
    <3>3. /\ sent[o][m] \in Nat /\ Cardinality(Tellers(m, o)) \in Nat
          /\ \A s : TimesIn(s, o) \in Nat
      BY <2>0, <3>1, Counted
    <3>4. TimesIn(Decision[m], o) <= IF orders[o].status = Decision[m] THEN 1 ELSE 0
      BY <2>0, <3>1 DEF SerialInv, Once
    <3>5. QED
      BY <3>2, <3>3, <3>4
  <2>2. /\ Decision["confirm_stock"] = "CONFIRMED" /\ Decision["clear_cart"] = "CONFIRMED"
        /\ Decision["release_stock"] = "CANCELLED"
    BY DEF Decision
  <2>3. QED
    BY <2>1, <2>2 DEF SettledOnce
<1>2. QED
  BY <1>1, SInvAlways, PTL

-----------------------------------------------------------------------------
(* The refinement                                                          *)

(* Steps that the abstract specification does not see.                     *)
LEMMA LifecycleStutters ==
  ASSUME \A o \in Orders : Outcome(orders'[o].status) = Outcome(orders[o].status),
         \A o \in Orders : \A m \in {"confirm_stock", "clear_cart", "release_stock"} :
           sent'[o][m] = sent[o][m]
  PROVE  UNCHANGED Lifecycle!vars
<1>1. [o \in Orders |-> Outcome(orders'[o].status)] = [o \in Orders |-> Outcome(orders[o].status)]
  OBVIOUS
<1>2. [o \in Orders |-> [m \in {"confirm_stock", "clear_cart", "release_stock"} |-> sent'[o][m]]]
        = [o \in Orders |-> [m \in {"confirm_stock", "clear_cart", "release_stock"} |-> sent[o][m]]]
  OBVIOUS
<1>3. QED
  BY <1>1, <1>2 DEF Lifecycle!vars

(* One order's outcome changes, and nothing is told.                       *)
LEMMA LifecycleDecides ==
  ASSUME NEW c \in Orders, NEW result, Outcome(orders'[c].status) = result,
         \A o \in Orders \ {c} : orders'[o].status = orders[o].status,
         sent' = sent,
         \/ Outcome(orders[c].status) = "none" /\ result = "open"
         \/ Outcome(orders[c].status) = "open" /\ result \in {"confirmed", "cancelled"}
  PROVE  Lifecycle!Next
<1> DEFINE f == [o \in Orders |-> Outcome(orders[o].status)]
           g == [o \in Orders |-> Outcome(orders'[o].status)]
<1>1. f[c] = Outcome(orders[c].status) /\ g = [f EXCEPT ![c] = result]
  <2>1. \A o \in Orders \ {c} : g[o] = f[o]
    OBVIOUS
  <2>2. g[c] = result /\ f[c] = Outcome(orders[c].status)
    OBVIOUS
  <2>3. f = [o \in Orders |-> f[o]] /\ g = [o \in Orders |-> g[o]]
    OBVIOUS
  <2> HIDE DEF f, g
  <2>4. QED
    BY <2>1, <2>2, <2>3
<1>2. [o \in Orders |-> [m \in {"confirm_stock", "clear_cart", "release_stock"} |-> sent'[o][m]]]
        = [o \in Orders |-> [m \in {"confirm_stock", "clear_cart", "release_stock"} |-> sent[o][m]]]
  OBVIOUS
<1>3. CASE result = "open"
  BY <1>1, <1>2, <1>3 DEF Lifecycle!Next, Lifecycle!Open
<1>4. CASE result \in {"confirmed", "cancelled"}
  <2>1. Lifecycle!Decide(c, result)
    BY <1>1, <1>2, <1>4 DEF Lifecycle!Decide
  <2>2. QED
    BY <1>4, <2>1 DEF Lifecycle!Next
<1>5. QED
  BY <1>3, <1>4

(* A command is told that follows from the outcome and was not told before. *)
LEMMA LifecycleTells ==
  ASSUME NEW c \in Orders, NEW n \in {"confirm_stock", "clear_cart", "release_stock"},
         orders' = orders,
         Outcome(orders[c].status) = IF n = "release_stock" THEN "cancelled" ELSE "confirmed",
         sent[c][n] = 0, sent'[c][n] = 1,
         \A m \in {"confirm_stock", "clear_cart", "release_stock"} \ {n} :
           sent'[c][m] = sent[c][m],
         \A o \in Orders \ {c} : sent'[o] = sent[o]
  PROVE  Lifecycle!Next
<1> DEFINE told == [o \in Orders |->
                      [m \in {"confirm_stock", "clear_cart", "release_stock"} |-> sent[o][m]]]
           next == [o \in Orders |->
                      [m \in {"confirm_stock", "clear_cart", "release_stock"} |-> sent'[o][m]]]
<1>1. next = [told EXCEPT ![c] = [told[c] EXCEPT ![n] = 1]] /\ told[c][n] = 0
  <2>1. next[c] = [told[c] EXCEPT ![n] = 1]
    <3>1. PICK f, g : f = told[c] /\ g = next[c]
      OBVIOUS
    <3>2. /\ f = [m \in {"confirm_stock", "clear_cart", "release_stock"} |-> sent[c][m]]
          /\ g = [m \in {"confirm_stock", "clear_cart", "release_stock"} |-> sent'[c][m]]
      BY <3>1
    <3> HIDE DEF told, next
    <3>3. g = [f EXCEPT ![n] = 1]
      BY <3>2
    <3>4. QED
      BY <3>1, <3>3
  <2>2. \A o \in Orders \ {c} : next[o] = told[o]
    OBVIOUS
  <2>3. QED
    BY <2>1, <2>2
<1>2. [o \in Orders |-> Outcome(orders'[o].status)] = [o \in Orders |-> Outcome(orders[o].status)]
  OBVIOUS
<1>3. Lifecycle!Tell(c, n)
  BY <1>1, <1>2 DEF Lifecycle!Tell, Lifecycle!Follows
<1>4. QED
  BY <1>3 DEF Lifecycle!Next, Lifecycle!Commands

(* At first nothing has an outcome and nothing is told.                    *)
LEMMA InitLifecycle == Init => Lifecycle!Init
<1>1. SUFFICES ASSUME Init
               PROVE  Lifecycle!Init
  OBVIOUS
<1>2. \A o \in Orders : Outcome(orders[o].status) = "none"
  BY <1>1 DEF Init, NoOrder, Outcome
<1>3. \A o \in Orders : \A m \in {"confirm_stock", "clear_cart", "release_stock"} : sent[o][m] = 0
  BY <1>1 DEF Init, Messages
<1>4. [o \in Orders |-> Outcome(orders[o].status)] = [o \in Orders |-> "none"]
  BY <1>2
<1>5. [o \in Orders |-> [m \in {"confirm_stock", "clear_cart", "release_stock"} |-> sent[o][m]]]
        = [o \in Orders |-> [m \in {"confirm_stock", "clear_cart", "release_stock"} |-> 0]]
  BY <1>3
<1>6. QED
  BY <1>4, <1>5 DEF Lifecycle!Init, Lifecycle!Commands

(* Every step is one of the lifecycle or changes nothing it knows of.      *)
LEMMA StepLifecycle ==
  ASSUME AdminStatuses = {}, SInv, [Next /\ NoOverlap']_vars
  PROVE  [Lifecycle!Next]_(Lifecycle!vars)
<1> SUFFICES Lifecycle!Next \/ UNCHANGED Lifecycle!vars
  OBVIOUS
<1>0. IInv /\ Typed /\ \A o \in Orders : SerialInv(o)
  BY DEF SInv, IInv
<1>1. ASSUME orders' = orders, sent' = sent
      PROVE  UNCHANGED Lifecycle!vars
  BY <1>1, LifecycleStutters
<1>2. CASE UNCHANGED vars
  BY <1>1, <1>2 DEF vars
<1>3. ASSUME NEW w \in Workers, Quietly(w)
      PROVE  UNCHANGED Lifecycle!vars
  BY <1>0, <1>1, <1>3, QuietlyIs DEF Quiet
<1>4. ASSUME NEW w \in Workers, InsertOrder(w), ~Refused(w)
      PROVE  Lifecycle!Next
  <2>1. Creates(w)
    BY <1>0, <1>4, CreatesIs
  <2>2. PICK c \in Orders : c = jobs[w].order
    BY <2>1 DEF Creates
  <2>3. /\ orders[c].status = "NONE" /\ orders'[c].status = "PENDING" /\ sent' = sent
        /\ \A o \in Orders \ {c} : orders'[o].status = orders[o].status
    BY <2>1, <2>2 DEF Creates
  <2>4. Outcome("NONE") = "none" /\ Outcome("PENDING") = "open"
    BY DEF Outcome
  <2>5. QED
    BY <2>3, <2>4, LifecycleDecides
<1>5. ASSUME NEW w \in Workers, Write(w)
      PROVE  Lifecycle!Next \/ UNCHANGED Lifecycle!vars
  <2>1. PICK c, t : c \in Orders /\ c = jobs[w].order /\ Decides(w, c, t)
    BY <1>5, DecidesIs
  <2>2. sent' = sent /\ \A o \in Orders \ {c} : orders'[o].status = orders[o].status
    <3>1. \E a, b : Wrote(w, a, b)
      BY <1>0, <1>5, WriteIs
    <3>2. QED
      BY <2>1, <3>1 DEF Wrote
  <2>3. PICK s : s = orders[c].status
    OBVIOUS
  <2>4. orders'[c].status = t /\ (t = s \/ MovesTo(jobs[w].kind, s, t))
    BY <2>1, <2>3 DEF Decides
  <2>5. CASE t \in {"CONFIRMED", "CANCELLED"} /\ MovesTo(jobs[w].kind, s, t)
    <3>1. Outcome(s) = "open" /\ Outcome(t) \in {"confirmed", "cancelled"}
      BY <2>5 DEF MovesTo, Outcome
    <3>2. PICK result : result = Outcome(t)
      OBVIOUS
    <3>3. Outcome(orders'[c].status) = result /\ result \in {"confirmed", "cancelled"}
          /\ Outcome(orders[c].status) = "open"
      BY <2>3, <2>4, <3>1, <3>2
    <3>4. QED
      BY <2>1, <2>2, <3>3, LifecycleDecides
  <2>6. CASE ~(t \in {"CONFIRMED", "CANCELLED"} /\ MovesTo(jobs[w].kind, s, t))
    <3>1. Outcome(t) = Outcome(s)
      BY <2>4, <2>6 DEF MovesTo, Outcome
    <3>2. \A o \in Orders : Outcome(orders'[o].status) = Outcome(orders[o].status)
      BY <2>2, <2>3, <2>4, <3>1
    <3>3. QED
      BY <2>2, <3>2, LifecycleStutters
  <2>7. QED
    BY <2>5, <2>6
<1>6. ASSUME NEW w \in Workers, Publish(w)
      PROVE  Lifecycle!Next \/ UNCHANGED Lifecycle!vars
  <2>1. PICK n, c : Publishes(w, n, c)
    BY <1>0, <1>6, PublishIs
  <2>2. /\ c \in Orders /\ n \in Messages /\ orders' = orders /\ Tells(w, n, c)
        /\ sent'[c][n] = sent[c][n] + 1
        /\ \A m \in Messages \ {n} : sent'[c][m] = sent[c][m]
        /\ \A o \in Orders \ {c} : sent'[o] = sent[o]
    BY <2>1 DEF Publishes
  <2>3. CASE n \in {"confirm_stock", "clear_cart", "release_stock"}
    <3>1. n \in Settling /\ Decision[n] \in {"CONFIRMED", "CANCELLED"}
          /\ Decision[n] = IF n = "release_stock" THEN "CANCELLED" ELSE "CONFIRMED"
      BY <2>3 DEF Settling, Decision
    <3>2. sent[c][n] + Cardinality(Tellers(n, c)) <= TimesIn(Decision[n], c)
      BY <1>0, <2>2, <3>1 DEF IInv, OrderInv, ToldInv
    <3>3. /\ sent[c][n] \in Nat /\ Cardinality(Tellers(n, c)) \in Nat
          /\ \A s : TimesIn(s, c) \in Nat
      BY <1>0, <2>2, <3>1, Counted
    <3>4. Cardinality(Tellers(n, c)) >= 1
      <4>1. w \in Tellers(n, c) /\ IsFiniteSet(Tellers(n, c))
        BY <2>2, TellersCount DEF Tellers
      <4>2. Cardinality(Tellers(n, c)) # 0
        BY <4>1, FS_EmptySet
      <4>3. QED
        BY <3>3, <4>2
    <3>5. TimesIn(Decision[n], c) <= IF orders[c].status = Decision[n] THEN 1 ELSE 0
      BY <1>0, <2>2, <3>1 DEF SerialInv, Once
    <3>6. orders[c].status = Decision[n] /\ sent[c][n] = 0
      <4>1. PICK i, j, k : /\ i = sent[c][n] /\ j = Cardinality(Tellers(n, c))
                           /\ k = TimesIn(Decision[n], c)
        OBVIOUS
      <4>2. /\ i \in Nat /\ j \in Nat /\ k \in Nat /\ i + j <= k /\ j >= 1
            /\ k <= IF orders[c].status = Decision[n] THEN 1 ELSE 0
        BY <3>2, <3>3, <3>4, <3>5, <4>1
      <4>3. orders[c].status = Decision[n] /\ i = 0
        BY ONLY <4>2
      <4>4. QED
        BY <4>1, <4>3
    <3>7. Outcome(orders[c].status) = IF n = "release_stock" THEN "cancelled" ELSE "confirmed"
      BY <2>3, <3>1, <3>6 DEF Outcome
    <3>8. \A m \in {"confirm_stock", "clear_cart", "release_stock"} \ {n} :
            sent'[c][m] = sent[c][m]
      BY <2>2 DEF Messages
    <3>9. sent'[c][n] = 1
      BY <2>2, <3>6
    <3>10. QED
      BY <2>2, <2>3, <3>6, <3>7, <3>8, <3>9, LifecycleTells
  <2>4. CASE n \notin {"confirm_stock", "clear_cart", "release_stock"}
    <3>1. \A o \in Orders : \A m \in {"confirm_stock", "clear_cart", "release_stock"} :
            sent'[o][m] = sent[o][m]
      BY <2>2, <2>4 DEF Messages
    <3>2. QED
      BY <2>2, <3>1, LifecycleStutters
  <2>5. QED
    BY <2>3, <2>4
<1>7. ASSUME NEW o \in Orders, NEW result \in {"PENDING", "FAILED"},
             InventoryAnswers(o, result)
      PROVE  UNCHANGED Lifecycle!vars
  BY <1>1, <1>7 DEF InventoryAnswers
<1>8. CASE Next
  BY <1>3, <1>4, <1>5, <1>6, <1>7, <1>8 DEF Next, Proceed, Quietly, Begins
<1>9. QED
  BY <1>2, <1>8

(* If the handlers of an order take turns and no administrator interferes, *)
(* order-service implements the lifecycle it promises: an order has one    *)
(* outcome, which is final, and each command that follows from it is sent  *)
(* at most once.                                                           *)
THEOREM SagaImplementsLifecycle ==
  ASSUME AdminStatuses = {}
  PROVE  SerialSpec => ImplementsLifecycle
<1>1. SInv /\ [Next /\ NoOverlap']_vars => [Lifecycle!Next]_(Lifecycle!vars)
  BY StepLifecycle
<1>2. SerialSpec => Lifecycle!Init /\ [][Lifecycle!Next]_(Lifecycle!vars)
  BY <1>1, InitLifecycle, SInvAlways, PTL DEF SerialSpec
<1>3. QED
  BY <1>2 DEF ImplementsLifecycle, Lifecycle!Spec
=============================================================================
