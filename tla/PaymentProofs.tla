--------------------------- MODULE PaymentProofs ---------------------------
(***************************************************************************)
(* Proofs about payment-service, for every set of orders, of payments at   *)
(* the provider and of handlers at once, and both providers.               *)
(***************************************************************************)
EXTENDS Payment, FiniteSetTheorems, SequenceTheorems, TLAPS

Job == [kind : {"request", "webhook", "sync"},
        pc : {"lock", "find", "provider", "insert", "find webhook", "create webhook",
              "ignore", "find payment", "fetch", "read", "apply", "publish", "answer"},
        order : Orders \cup {Elsewhere}, resource : PaymentIds, change : Nat, key : Keys,
        fetched : Statuses \cup {"NONE"}, at : Nat, found : Statuses \cup {"NONE"}]

Requesting == {"lock", "find", "provider", "insert"}
Settled    == {"insert", "read", "apply", "publish"}

(* What a job's type says at each of its steps.                            *)
GoodJob == {job \in Job :
  /\ job.pc \in Requesting => job.kind = "request"
  /\ job.kind = "request" => job.pc \in Requesting \cup {"publish", "answer"}
  /\ job.pc \in Requesting \cup {"find payment", "apply", "publish"} => job.order \in Orders
  /\ job.pc \in Settled => job.fetched \in Statuses}

Entry == [resource : PaymentIds, at : Nat, status : Statuses]

Row == [status : Statuses \cup {"NONE"}, providerPaymentId : PaymentIds]

Typed ==
  /\ mode \in {"MOCK", "MERCADO_PAGO"}
  /\ payments  \in [Orders -> Row]
  /\ ledger    \in [Orders -> Seq(Entry)]
  /\ webhooks  \in [Keys -> {"NONE", "RECEIVED", "PROCESSED", "IGNORED"}]
  /\ provider  \in [ProviderPayments -> Seq({"authorized", "approved", "rejected", "refunded"})]
  /\ mode = "MOCK" => \A p \in ProviderPayments : provider[p] = <<>>
  /\ prefs     \in [Orders -> Nat]
  /\ sent      \in [Orders -> [Events -> Nat]]
  /\ jobs      \in [Workers -> GoodJob \cup {Idle}]
  /\ abandoned \in [Orders -> Nat]
  /\ lost      \in [Orders -> SUBSET Events]

(* The advisory lock: one request at a time has passed it, and from its    *)
(* SELECT to its COMMIT the order has no row.                              *)
Locked ==
  /\ \A o \in Orders : \A w, x \in Workers : HoldsLock(w, o) /\ HoldsLock(x, o) => w = x
  /\ \A w \in Workers : jobs[w].pc \in {"provider", "insert"} =>
       payments[jobs[w].order].status = "NONE"

(* The event of a status was published, or is to be, or was lost.          *)
Covered(o, e) == sent[o][e] > 0 \/ Publishing(o, e) # {} \/ e \in lost[o]

WasApproved(p) == \E i \in DOMAIN provider[p] : provider[p][i] = "approved"
ApprovedFor(o) == \E p \in ProviderPayments : Reference[p] = o /\ WasApproved(p)

(* A row that a handler has read is there, and what it showed is covered.  *)
Found(job) ==
  job.pc = "apply" =>
    /\ job.found # "NONE" /\ payments[job.order].status # "NONE"
    /\ Covered(job.order, EventFor(job.found))

(* A webhook's job is about a change of its payment that has happened.     *)
Notified(job) ==
  job.kind = "webhook" =>
    /\ job.resource = job.key.resource
    /\ job.resource # NoResource =>
         /\ mode = "MERCADO_PAGO" /\ job.resource \in ProviderPayments
         /\ job.change <= Len(provider[job.resource])
         /\ FirstChange(job.key) <= job.change
    /\ job.pc \notin {"find webhook", "create webhook", "ignore"} =>
         job.resource # NoResource

(* What a job has learnt from Mercado Pago is so.                          *)
Informed(job) ==
  mode = "MERCADO_PAGO" =>
    /\ job.kind # "request" /\ job.resource \in ProviderPayments =>
         provider[job.resource] # <<>>
    /\ job.pc \in {"read", "apply"} =>
         /\ job.resource \in ProviderPayments
         /\ job.fetched = "APPROVED" => WasApproved(job.resource)
         /\ job.kind = "webhook" => job.at >= job.change
    /\ job.pc = "apply" => Reference[job.resource] = job.order
    /\ job.pc \in {"insert", "publish"} /\ job.fetched = "APPROVED" =>
         ApprovedFor(job.order)

Fits(job) == Found(job) /\ Notified(job) /\ Informed(job)

JobInv(w) == \A job \in GoodJob : jobs[w] = job => Fits(job)

Inserting(o) == {w \in Workers : jobs[w].pc = "insert" /\ jobs[w].order = o}

PrefsInv(o) ==
  prefs[o] = abandoned[o] + Cardinality(Inserting(o))
             + (IF payments[o].status = "NONE" THEN 0 ELSE 1)

RecordedInv(o) == \A e \in Events :
  sent[o][e] + Cardinality(Publishing(o, e)) <= Cardinality(Written(o, e))

SucceededInv(o) == sent[o]["payment_succeeded"] > 0 => mode = "MOCK" \/ ApprovedFor(o)

CoveredInv(o) == payments[o].status # "NONE" => Covered(o, EventFor(payments[o].status))

RowInv(o) ==
  mode = "MERCADO_PAGO" /\ payments[o].providerPaymentId \in ProviderPayments =>
    /\ Reference[payments[o].providerPaymentId] = o
    /\ provider[payments[o].providerPaymentId] # <<>>

OrderInv(o) ==
  PrefsInv(o) /\ RecordedInv(o) /\ SucceededInv(o) /\ CoveredInv(o) /\ RowInv(o)

KeyInv(k) ==
  webhooks[k] = "PROCESSED" =>
    \E o \in Orders : \E i \in DOMAIN ledger[o] :
      ledger[o][i].resource = k.resource /\ ledger[o][i].at >= FirstChange(k)

IInv == /\ Typed /\ Locked
        /\ \A w \in Workers : JobInv(w)
        /\ \A o \in Orders : OrderInv(o)
        /\ \A k \in Keys : KeyInv(k)

-----------------------------------------------------------------------------
(* Steps                                                                   *)

Goes(w, job) == /\ jobs' \in [Workers -> GoodJob \cup {Idle}]
                /\ jobs'[w] = job
                /\ \A x \in Workers \ {w} : jobs'[x] = jobs[x]

(* A step of a job moves that job, and no other.                           *)
LEMMA GotoGoes ==
  ASSUME Typed, NEW w \in Workers, NEW job \in GoodJob \cup {Idle}, Goto(w, job)
  PROVE  Goes(w, job)
BY DEF Typed, Goto, Goes

(* A job that is under way.                                                *)
LEMMA JobIs ==
  ASSUME Typed, NEW w \in Workers, jobs[w].pc # "idle"
  PROVE  jobs[w] \in GoodJob
BY DEF Typed, Idle

(* Mercado Pago forgets nothing, and no row is deleted.                    *)
Grows ==
  /\ mode' = mode
  /\ \A p \in ProviderPayments :
       /\ Len(provider[p]) <= Len(provider'[p])
       /\ \A i \in DOMAIN provider[p] : provider'[p][i] = provider[p][i]
  /\ \A o \in Orders : payments[o].status # "NONE" => payments'[o].status # "NONE"
  /\ \A o \in Orders, e \in Events : Covered(o, e) => Covered(o, e)'

(* What was approved stays so.                                             *)
LEMMA ApprovalStays ==
  ASSUME Typed, Typed', Grows
  PROVE  /\ \A p \in ProviderPayments : /\ WasApproved(p) => WasApproved(p)'
                                        /\ provider[p] # <<>> => provider'[p] # <<>>
         /\ \A o : ApprovedFor(o) => ApprovedFor(o)'
<1>1. ASSUME NEW p \in ProviderPayments
      PROVE  /\ WasApproved(p) => WasApproved(p)'
             /\ provider[p] # <<>> => provider'[p] # <<>>
  <2>1. PICK f, g : f = provider[p] /\ g = provider'[p]
    OBVIOUS
  <2>2. PICK S : f \in Seq(S) /\ g \in Seq(S)
    BY <2>1 DEF Typed
  <2>3. Len(f) <= Len(g) /\ \A i \in DOMAIN f : g[i] = f[i]
    BY <2>1 DEF Grows
  <2>4. (\E i \in DOMAIN f : f[i] = "approved") => \E i \in DOMAIN g : g[i] = "approved"
    BY <2>2, <2>3
  <2>5. f # <<>> => g # <<>>
    BY <2>2, <2>3
  <2>6. QED
    BY <2>1, <2>4, <2>5 DEF WasApproved
<1>2. QED
  BY <1>1 DEF ApprovedFor

(* The event of a status.                                                  *)
LEMMA EventsAre ==
  /\ \A s : EventFor(s) \in Events
  /\ \A s : EventFor(s) = "payment_succeeded" <=> s = "APPROVED"
BY DEF EventFor, Events

(* What a job knows stays true.                                            *)
LEMMA StillFits ==
  ASSUME Typed, Typed', Grows, NEW job \in GoodJob, Fits(job)
  PROVE  Fits(job)'
<1>1. Found(job)'
  <2>1. CASE job.pc = "apply"
    <3>1. job.order \in Orders
      BY <2>1 DEF GoodJob
    <3>2. PICK o, e : o = job.order /\ e = EventFor(job.found) /\ e \in Events
      BY EventsAre
    <3>3. Covered(o, e) => Covered(o, e)'
      BY <3>1, <3>2 DEF Grows
    <3>4. QED
      BY <2>1, <3>1, <3>2, <3>3 DEF Fits, Found, Grows
  <2>2. QED
    BY <2>1 DEF Found
<1>2. Notified(job)'
  <2>1. CASE job.kind = "webhook" /\ job.resource # NoResource
    <3>1. /\ mode = "MERCADO_PAGO" /\ job.resource \in ProviderPayments
          /\ job.change <= Len(provider[job.resource]) /\ job.change \in Nat
      BY <2>1 DEF Fits, Notified, GoodJob, Job
    <3>2. Len(provider[job.resource]) <= Len(provider'[job.resource])
          /\ Len(provider[job.resource]) \in Nat /\ Len(provider'[job.resource]) \in Nat
      BY <3>1 DEF Grows, Typed
    <3>3. job.change <= Len(provider'[job.resource])
      BY <3>1, <3>2
    <3>4. QED
      BY <3>1, <3>3 DEF Fits, Notified, Grows
  <2>2. QED
    BY <2>1 DEF Fits, Notified
<1>3. Informed(job)'
  BY ApprovalStays DEF Fits, Informed, Grows
<1>4. QED
  BY <1>1, <1>2, <1>3 DEF Fits

(* The job of another handler, when the world has moved on.                *)
LEMMA OthersFit ==
  ASSUME Typed, Typed', Grows, NEW x \in Workers, jobs'[x] = jobs[x], JobInv(x)
  PROVE  JobInv(x)'
<1>1. SUFFICES ASSUME NEW job \in GoodJob, jobs'[x] = job
               PROVE  Fits(job)'
  BY DEF JobInv
<1>2. Fits(job)
  BY <1>1 DEF JobInv
<1>3. QED
  BY <1>2, StillFits

(* A step that leaves the rows, the counters and Mercado Pago alone.       *)
Silent(w, job) ==
  /\ Goes(w, job)
  /\ jobs[w].pc \notin {"insert", "publish"} /\ job.pc \notin {"insert", "publish"}
  /\ UNCHANGED <<mode, payments, ledger, provider, prefs, sent, abandoned, lost>>
  /\ webhooks' \in [Keys -> {"NONE", "RECEIVED", "PROCESSED", "IGNORED"}]
  /\ \A k \in Keys : webhooks'[k] = webhooks[k] \/ webhooks'[k] # "PROCESSED"
  /\ job # Idle => Fits(job)
  /\ job.pc \in {"find", "provider"} =>
       \/ jobs[w].pc \in {"find", "provider"} /\ jobs[w].order = job.order
       \/ \A x \in Workers \ {w} : ~HoldsLock(x, job.order)
  /\ job.pc = "provider" => payments[job.order].status = "NONE"

LEMMA SilentKeeps ==
  ASSUME IInv, NEW w \in Workers, NEW job, Silent(w, job)
  PROVE  IInv'
<1>0. /\ Typed /\ Locked /\ \A x \in Workers : JobInv(x)
      /\ \A o \in Orders : OrderInv(o)
      /\ \A k \in Keys : KeyInv(k)
  BY DEF IInv
<1>1. Typed'
  BY <1>0 DEF Silent, Goes, Typed
<1>2. jobs'[w] = job /\ \A x \in Workers \ {w} : jobs'[x] = jobs[x]
  BY DEF Silent, Goes
<1>3. \A o, e : Publishing(o, e)' = Publishing(o, e)
  BY <1>2 DEF Publishing, Silent
<1>4. \A o : Inserting(o)' = Inserting(o)
  BY <1>2 DEF Inserting, Silent
<1>5. \A o, e : Covered(o, e)' <=> Covered(o, e)
  BY <1>3 DEF Covered, Silent
<1>6. Grows
  BY <1>0, <1>5 DEF Silent, Grows, Typed
<1>7. ASSUME NEW x \in Workers
      PROVE  JobInv(x)'
  <2>1. CASE x = w
    <3>1. ASSUME job \in GoodJob
          PROVE  Fits(job)'
      <4>1. Fits(job)
        <5>1. job.pc # "idle"
          BY <3>1 DEF GoodJob, Job
        <5>2. job # Idle
          BY <5>1 DEF Idle
        <5>3. QED
          BY <5>2 DEF Silent
      <4>2. QED
        BY <1>0, <1>1, <1>6, <3>1, <4>1, StillFits
    <3>2. QED
      BY <1>2, <2>1, <3>1 DEF JobInv
  <2>2. CASE x # w
    BY <1>0, <1>1, <1>2, <1>6, <2>2, OthersFit
  <2>3. QED
    BY <2>1, <2>2
<1>8. ASSUME NEW o \in Orders
      PROVE  OrderInv(o)'
  <2>1. OrderInv(o)
    BY <1>0
  <2>2. UNCHANGED <<mode, payments, ledger, provider, prefs, sent, abandoned, lost>>
    BY DEF Silent
  <2>3. PrefsInv(o)'
    BY <1>4, <2>1, <2>2 DEF OrderInv, PrefsInv
  <2>4. RecordedInv(o)'
    BY <1>3, <2>1, <2>2 DEF OrderInv, RecordedInv, Written
  <2>5. SucceededInv(o)' /\ RowInv(o)'
    BY <2>1, <2>2 DEF OrderInv, SucceededInv, RowInv, ApprovedFor, WasApproved
  <2>6. CoveredInv(o)'
    <3>1. \A e : Covered(o, e) => Covered(o, e)'
      BY <1>5
    <3>2. QED
      BY <2>1, <2>2, <3>1 DEF OrderInv, CoveredInv
  <2>7. QED
    BY <2>3, <2>4, <2>5, <2>6 DEF OrderInv
<1>9. ASSUME NEW k \in Keys
      PROVE  KeyInv(k)'
  <2>1. ledger' = ledger /\ (webhooks'[k] = webhooks[k] \/ webhooks'[k] # "PROCESSED")
    BY DEF Silent
  <2>2. KeyInv(k)
    BY <1>0
  <2>3. QED
    BY <2>1, <2>2 DEF KeyInv
<1>10. Locked'
  <2>1. ASSUME NEW o \in Orders, NEW x \in Workers, NEW y \in Workers,
               HoldsLock(x, o)', HoldsLock(y, o)'
        PROVE  x = y
    <3>1. \A z \in Workers \ {w} : HoldsLock(z, o)' => HoldsLock(z, o)
      BY <1>2 DEF HoldsLock
    <3>2. HoldsLock(w, o)' => job.pc \in {"find", "provider"} /\ job.order = o
      BY <1>2 DEF HoldsLock, Silent
    <3>3. HoldsLock(w, o)' => HoldsLock(w, o) \/ \A z \in Workers \ {w} : ~HoldsLock(z, o)
      BY <3>2 DEF Silent, HoldsLock
    <3>4. QED
      BY <1>0, <2>1, <3>1, <3>3 DEF Locked
  <2>2. ASSUME NEW x \in Workers, jobs'[x].pc \in {"provider", "insert"}
        PROVE  payments'[jobs'[x].order].status = "NONE"
    BY <1>0, <1>2, <2>2 DEF Locked, Silent
  <2>3. QED
    BY <2>1, <2>2 DEF Locked
<1>11. QED
  BY <1>1, <1>7, <1>8, <1>9, <1>10 DEF IInv

(* The steps that end a job without changing anything else.                *)
LEMMA StopsSilently ==
  ASSUME Typed, NEW w \in Workers, Goto(w, Idle), jobs[w].pc \notin {"insert", "publish"},
         UNCHANGED <<mode, payments, ledger, provider, prefs, sent, abandoned, lost>>,
         \/ webhooks' = webhooks
         \/ \E k \in Keys, s \in {"RECEIVED", "IGNORED"} :
              webhooks' = [webhooks EXCEPT ![k] = s]
  PROVE  Silent(w, Idle)
<1>1. Goes(w, Idle)
  BY GotoGoes
<1>2. Idle.pc = "idle"
  BY DEF Idle
<1>3. webhooks' \in [Keys -> {"NONE", "RECEIVED", "PROCESSED", "IGNORED"}]
  BY DEF Typed
<1>4. \A k \in Keys : webhooks'[k] = webhooks[k] \/ webhooks'[k] # "PROCESSED"
  BY DEF Typed
<1> QED
  BY <1>1, <1>2, <1>3, <1>4 DEF Silent

(* The key of a notification is one of the keys.                           *)
LEMMA KeyIs ==
  ASSUME NEW p \in ProviderPayments \cup {NoResource}, NEW n \in Nat,
         p = NoResource => n = 0
  PROVE  /\ DeduplicationKey(p, n) \in Keys
         /\ DeduplicationKey(p, n).resource = p
         /\ n >= 1 => FirstChange(DeduplicationKey(p, n)) <= n
<1>1. PICK action : action = IF n <= 1 THEN "created" ELSE "updated"
  OBVIOUS
<1>2. action \in {"created", "updated"}
  BY <1>1
<1>3. p = NoResource => action = "created"
  BY <1>1
<1>4. PICK key : key = [resource |-> p, action |-> action]
  OBVIOUS
<1>5. key = DeduplicationKey(p, n)
  BY <1>1, <1>4 DEF DeduplicationKey
<1>6. key.resource = p /\ key.action = action
  BY <1>4
<1>7. key \in Keys
  BY <1>2, <1>3, <1>4 DEF Keys
<1>8. n >= 1 => FirstChange(key) <= n
  BY <1>1, <1>6 DEF FirstChange
<1>9. QED
  BY <1>5, <1>6, <1>7, <1>8

(* A job that a request, a webhook or a synchronisation starts.            *)
LEMMA StartIs ==
  ASSUME Typed, NEW w \in Workers, NEW p \in ProviderPayments \cup {NoResource},
         NEW n \in Nat, NEW o \in Orders \cup {Elsewhere},
         p = NoResource => n = 0,
         NEW kind \in {"request", "webhook", "sync"},
         NEW pc \in {"lock", "find webhook", "find payment"},
         pc = "lock" <=> kind = "request",
         pc \in {"lock", "find payment"} => o \in Orders,
         Start(w, kind, pc, o, p, n),
         kind = "webhook" => pc = "find webhook" /\ (p # NoResource => 1 <= n),
         kind = "webhook" /\ p # NoResource => mode = "MERCADO_PAGO" /\ n <= Len(provider[p]),
         mode = "MERCADO_PAGO" /\ kind # "request" /\ p # NoResource => provider[p] # <<>>
  PROVE  Silent(w, NewJob(kind, pc, o, p, n))
<1> DEFINE key == IF kind = "webhook" THEN DeduplicationKey(p, n)
                  ELSE [resource |-> NoResource, action |-> "created"]
           job == [kind |-> kind, pc |-> pc, order |-> o, resource |-> p, change |-> n,
                   key |-> key, fetched |-> "NONE", at |-> 0, found |-> "NONE"]
<1>1. key \in Keys /\ (kind = "webhook" => key.resource = p /\ (n >= 1 => FirstChange(key) <= n))
  <2>1. CASE kind # "webhook"
    BY <2>1 DEF Keys
  <2>2. CASE kind = "webhook"
    <3>1. key = DeduplicationKey(p, n)
      BY <2>2
    <3>2. QED
      BY ONLY <3>1, p \in ProviderPayments \cup {NoResource}, n \in Nat,
         p = NoResource => n = 0, KeyIs
  <2>3. QED
    BY <2>1, <2>2
<1> HIDE DEF key
<1>2. job \in Job
  BY <1>1 DEF Job, PaymentIds
<1>3. /\ job.kind = kind /\ job.pc = pc /\ job.order = o /\ job.resource = p
      /\ job.change = n /\ job.key = key /\ job.fetched = "NONE"
  OBVIOUS
<1>4. job = NewJob(kind, pc, o, p, n)
  BY DEF NewJob, key
<1> HIDE DEF job
<1>5. job \in GoodJob
  BY <1>2, <1>3 DEF GoodJob, Requesting, Settled
<1>6. /\ Goto(w, job) /\ jobs[w].pc = "idle"
      /\ UNCHANGED <<database, world, sent, abandoned, lost>>
  BY <1>4 DEF Start
<1>7. Goes(w, job)
  BY <1>5, <1>6, GotoGoes
<1>8. Fits(job)
  <2>1. Found(job)
    BY <1>3 DEF Found
  <2>2. Notified(job)
    <3>1. SUFFICES ASSUME kind = "webhook"
                   PROVE  Notified(job)
      BY <1>3 DEF Notified
    <3>2. p # NoResource => n >= 1 /\ FirstChange(key) <= n
      BY <1>1, <3>1
    <3>3. QED
      BY <1>1, <1>3, <3>1, <3>2 DEF Notified
  <2>3. Informed(job)
    <3>1. NoResource \notin ProviderPayments
      BY ReferenceAssumption
    <3>2. QED
      BY <1>3, <3>1 DEF Informed
  <2>4. QED
    BY <2>1, <2>2, <2>3 DEF Fits
<1>9. webhooks' \in [Keys -> {"NONE", "RECEIVED", "PROCESSED", "IGNORED"}]
  BY <1>6 DEF database, Typed
<1>10. Silent(w, job)
  BY <1>3, <1>6, <1>7, <1>8, <1>9 DEF Silent, database, world
<1>11. QED
  BY <1>4, <1>10

(* A job that goes on to another step with what it had.                    *)
LEMMA GoesOn ==
  ASSUME NEW job \in GoodJob,
         NEW pc \in {"find", "provider", "create webhook", "ignore", "fetch", "answer"},
         pc \in Requesting => job.pc \in Requesting,
         job.kind = "request" => pc \in Requesting \cup {"answer"}
  PROVE  /\ [job EXCEPT !.pc = pc] \in GoodJob
         /\ [job EXCEPT !.pc = pc].pc = pc
         /\ [job EXCEPT !.pc = pc].order = job.order
         /\ [job EXCEPT !.pc = pc].kind = job.kind
         /\ [job EXCEPT !.pc = pc].resource = job.resource
         /\ [job EXCEPT !.pc = pc].key = job.key
         /\ [job EXCEPT !.pc = pc].change = job.change
BY ZenonT(60) DEF GoodJob, Job, Requesting, Settled

(* What a job knows is still so at its next step.                          *)
LEMMA StillInformed ==
  ASSUME NEW job \in GoodJob, Fits(job),
         NEW new \in GoodJob, new.pc \in {"find", "provider", "create webhook", "ignore",
                                          "fetch", "answer"},
         new.kind = job.kind, new.resource = job.resource, new.key = job.key,
         new.change = job.change,
         \/ new.pc \in {"find webhook", "create webhook", "ignore"}
         \/ job.pc \notin {"find webhook", "create webhook", "ignore"}
         \/ job.resource # NoResource
  PROVE  Fits(new)
BY DEF Fits, Found, Notified, Informed

(* A request that passes the lock, and that finds no row.                  *)
LEMMA LockIs ==
  ASSUME IInv, NEW w \in Workers, LockPaymentOrder(w) \/ FindPayment(w)
  PROVE  \E job : Silent(w, job)
<1>0. Typed /\ JobInv(w)
  BY DEF IInv
<1>1. jobs[w] \in GoodJob /\ Fits(jobs[w]) /\ jobs[w].pc \in {"lock", "find"}
  <2>1. jobs[w] \in GoodJob /\ jobs[w].pc \in {"lock", "find"}
    BY <1>0, JobIs DEF LockPaymentOrder, FindPayment
  <2>2. QED
    BY <1>0, <2>1 DEF JobInv
<1>2. /\ UNCHANGED <<mode, payments, ledger, webhooks, provider, prefs, sent, abandoned, lost>>
      /\ webhooks \in [Keys -> {"NONE", "RECEIVED", "PROCESSED", "IGNORED"}]
  BY <1>0 DEF LockPaymentOrder, FindPayment, database, world, history, Typed
<1>3. ASSUME NEW pc \in {"find", "provider"}, Goto(w, [jobs[w] EXCEPT !.pc = pc]),
             \/ jobs[w].pc = "find"
             \/ \A x \in Workers \ {w} : ~HoldsLock(x, jobs[w].order),
             pc = "provider" => payments[jobs[w].order].status = "NONE"
      PROVE  \E job : Silent(w, job)
  <2>1. PICK job : job = [jobs[w] EXCEPT !.pc = pc]
    OBVIOUS
  <2>2. /\ job \in GoodJob /\ job.pc = pc /\ job.order = jobs[w].order
        /\ job.kind = jobs[w].kind /\ job.resource = jobs[w].resource
        /\ job.key = jobs[w].key /\ job.change = jobs[w].change
    <3>1. pc \in Requesting => jobs[w].pc \in Requesting
      BY <1>1 DEF Requesting
    <3>2. /\ pc \in {"find", "provider", "create webhook", "ignore", "fetch", "answer"}
          /\ jobs[w] \in GoodJob
          /\ jobs[w].kind = "request" => pc \in Requesting \cup {"answer"}
      BY <1>1 DEF GoodJob, Requesting
    <3>3. QED
      BY ONLY <2>1, <3>1, <3>2, GoesOn, ZenonT(60)
  <2>3. Fits(job)
    BY <1>1, <2>2, StillInformed
  <2>4. Goes(w, job)
    BY <1>0, <1>3, <2>1, <2>2, GotoGoes
  <2>5. Silent(w, job)
    BY <1>1, <1>2, <1>3, <2>2, <2>3, <2>4 DEF Silent
  <2>6. QED
    BY <2>5
<1>4. CASE LockPaymentOrder(w)
  <2>1. /\ Goto(w, [jobs[w] EXCEPT !.pc = "find"])
        /\ \A x \in Workers \ {w} : ~HoldsLock(x, jobs[w].order)
    BY <1>4 DEF LockPaymentOrder
  <2>2. QED
    BY <1>3, <2>1
<1>5. CASE FindPayment(w) /\ payments[jobs[w].order].status = "NONE"
  <2>1. Goto(w, [jobs[w] EXCEPT !.pc = "provider"]) /\ jobs[w].pc = "find"
    BY <1>5 DEF FindPayment
  <2>2. QED
    BY <1>3, <1>5, <2>1
<1>6. CASE FindPayment(w) /\ payments[jobs[w].order].status # "NONE"
  <2>1. Goto(w, Idle)
    BY <1>6 DEF FindPayment
  <2>2. QED
    BY <1>0, <1>1, <1>2, <2>1, StopsSilently
<1>7. QED
  BY <1>4, <1>5, <1>6

(* A webhook, up to the call of the provider.                              *)
LEMMA WebhookIs ==
  ASSUME IInv, NEW w \in Workers,
         FindWebhook(w) \/ CreateWebhook(w) \/ MarkWebhookIgnored(w)
  PROVE  \E job : Silent(w, job)
<1>0. Typed /\ JobInv(w)
  BY DEF IInv
<1>1. /\ jobs[w] \in GoodJob /\ Fits(jobs[w])
      /\ jobs[w].pc \in {"find webhook", "create webhook", "ignore"}
  <2>1. jobs[w] \in GoodJob /\ jobs[w].pc \in {"find webhook", "create webhook", "ignore"}
    BY <1>0, JobIs DEF FindWebhook, CreateWebhook, MarkWebhookIgnored
  <2>2. QED
    BY <1>0, <2>1 DEF JobInv
<1>2. UNCHANGED <<mode, payments, ledger, provider, prefs, sent, abandoned, lost>>
  BY DEF FindWebhook, CreateWebhook, MarkWebhookIgnored, database, world, history
<1>3. jobs[w].key \in Keys
  BY <1>1 DEF GoodJob, Job
<1>4. \/ webhooks' = webhooks
      \/ \E k \in Keys, s \in {"RECEIVED", "IGNORED"} : webhooks' = [webhooks EXCEPT ![k] = s]
  BY <1>3 DEF FindWebhook, CreateWebhook, MarkWebhookIgnored, database
<1>5. ASSUME NEW pc \in {"create webhook", "ignore", "fetch"},
             Goto(w, [jobs[w] EXCEPT !.pc = pc]),
             pc = "fetch" => jobs[w].key.resource # NoResource
      PROVE  \E job : Silent(w, job)
  <2>1. PICK job : job = [jobs[w] EXCEPT !.pc = pc]
    OBVIOUS
  <2>2. /\ job \in GoodJob /\ job.pc = pc /\ job.order = jobs[w].order
        /\ job.kind = jobs[w].kind /\ job.resource = jobs[w].resource
        /\ job.key = jobs[w].key /\ job.change = jobs[w].change
    <3>1. pc \in Requesting => jobs[w].pc \in Requesting
      BY <1>1 DEF Requesting
    <3>2. /\ pc \in {"find", "provider", "create webhook", "ignore", "fetch", "answer"}
          /\ jobs[w] \in GoodJob
          /\ jobs[w].kind = "request" => pc \in Requesting \cup {"answer"}
      BY <1>1 DEF GoodJob, Requesting
    <3>3. QED
      BY ONLY <2>1, <3>1, <3>2, GoesOn, ZenonT(60)
  <2>3. Fits(job)
    BY <1>1, <1>5, <2>2 DEF Fits, Found, Notified, Informed
  <2>4. Goes(w, job)
    BY <1>0, <1>5, <2>1, <2>2, GotoGoes
  <2>5. /\ webhooks' \in [Keys -> {"NONE", "RECEIVED", "PROCESSED", "IGNORED"}]
        /\ \A k \in Keys : webhooks'[k] = webhooks[k] \/ webhooks'[k] # "PROCESSED"
    BY <1>0, <1>4 DEF Typed
  <2>6. Silent(w, job)
    BY <1>1, <1>2, <2>2, <2>3, <2>4, <2>5 DEF Silent
  <2>7. QED
    BY <2>6
<1>6. CASE Goto(w, Idle)
  BY <1>0, <1>1, <1>2, <1>4, <1>6, StopsSilently
<1>7. QED
  BY <1>5, <1>6 DEF FindWebhook, CreateWebhook, MarkWebhookIgnored, Answer, Resource

(* A synchronisation that finds its row.                                   *)
LEMMA SyncIs ==
  ASSUME IInv, NEW w \in Workers, FindForSync(w)
  PROVE  \E job : Silent(w, job)
<1>0. Typed /\ JobInv(w) /\ \A o \in Orders : OrderInv(o)
  BY DEF IInv
<1>1. jobs[w] \in GoodJob /\ jobs[w].pc = "find payment"
  BY <1>0, JobIs DEF FindForSync
<1>2. Fits(jobs[w]) /\ jobs[w].order \in Orders
  BY <1>0, <1>1 DEF JobInv, GoodJob
<1>3. UNCHANGED <<mode, payments, ledger, webhooks, provider, prefs, sent, abandoned, lost>>
  BY DEF FindForSync, database, world, history
<1>4. CASE payments[jobs[w].order].status = "NONE"
  <2>1. Goto(w, Idle)
    BY <1>4 DEF FindForSync
  <2>2. QED
    BY <1>0, <1>1, <1>3, <2>1, StopsSilently
<1>5. CASE payments[jobs[w].order].status # "NONE"
  <2>1. PICK p : p = IF jobs[w].resource # NoResource THEN jobs[w].resource
                     ELSE payments[jobs[w].order].providerPaymentId
    OBVIOUS
  <2>2. PICK job : job = [jobs[w] EXCEPT !.pc = "fetch", !.resource = p]
    OBVIOUS
  <2>3. Goto(w, job)
    BY <1>1, <1>5, <2>1, <2>2 DEF FindForSync, GoodJob, Job
  <2>4. p \in PaymentIds
    BY <1>0, <1>1, <1>2, <2>1 DEF Typed, Row, GoodJob, Job
  <2>5. /\ job \in Job /\ job.pc = "fetch" /\ job.resource = p
        /\ job.kind = jobs[w].kind /\ job.key = jobs[w].key /\ job.change = jobs[w].change
    BY <1>1, <2>2, <2>4 DEF GoodJob, Job
  <2>6. job \in GoodJob
    BY <1>1, <2>5 DEF GoodJob, Requesting, Settled
  <2>7. Fits(job)
    <3>1. Notified(job)
      BY <1>1, <1>2, <2>1, <2>5 DEF Fits, Notified
    <3>2. mode = "MERCADO_PAGO" /\ p \in ProviderPayments /\ job.kind # "request" =>
            provider[p] # <<>>
      BY <1>0, <1>2, <2>1, <2>5 DEF Fits, Informed, OrderInv, RowInv
    <3>3. QED
      BY <2>5, <3>1, <3>2 DEF Fits, Found, Informed
  <2>8. Goes(w, job)
    BY <1>0, <2>3, <2>6, GotoGoes
  <2>9. Silent(w, job)
    BY <1>0, <1>1, <1>3, <2>5, <2>7, <2>8 DEF Silent, Typed
  <2>10. QED
    BY <2>9
<1>6. QED
  BY <1>4, <1>5

(* A status is fetched.                                                    *)
LEMMA FetchIs ==
  ASSUME IInv, NEW w \in Workers, FetchStatus(w) \/ FetchMockStatus(w)
  PROVE  \E job : Silent(w, job)
<1>0. Typed /\ JobInv(w)
  BY DEF IInv
<1>1. jobs[w] \in GoodJob /\ jobs[w].pc = "fetch"
  BY <1>0, JobIs DEF FetchStatus, FetchMockStatus
<1>2. Fits(jobs[w]) /\ jobs[w].kind # "request"
  BY <1>0, <1>1 DEF JobInv, GoodJob, Requesting
<1>3. UNCHANGED <<mode, payments, ledger, webhooks, provider, prefs, sent, abandoned, lost>>
  BY DEF FetchStatus, FetchMockStatus, database, world, history
<1>4. ASSUME NEW p \in PaymentIds, NEW n \in Nat, NEW s \in Statuses,
             Goto(w, [jobs[w] EXCEPT !.pc = "read", !.resource = p, !.at = n, !.fetched = s]),
             jobs[w].kind = "webhook" => p = jobs[w].resource,
             mode = "MERCADO_PAGO" =>
               /\ p \in ProviderPayments /\ provider[p] # <<>>
               /\ s = "APPROVED" => WasApproved(p)
               /\ jobs[w].kind = "webhook" => n >= jobs[w].change
      PROVE  \E job : Silent(w, job)
  <2>1. PICK job : job = [jobs[w] EXCEPT !.pc = "read", !.resource = p, !.at = n,
                                         !.fetched = s]
    OBVIOUS
  <2>2. /\ job \in Job /\ job.pc = "read" /\ job.resource = p /\ job.at = n
        /\ job.fetched = s /\ job.kind = jobs[w].kind /\ job.key = jobs[w].key
        /\ job.change = jobs[w].change
    BY <1>1, <2>1 DEF GoodJob, Job
  <2>3. job \in GoodJob
    BY <1>2, <2>2 DEF GoodJob, Requesting
  <2>4. Notified(job)
    BY <1>1, <1>2, <1>4, <2>2 DEF Fits, Notified
  <2>5. Informed(job)
    BY <1>4, <2>2 DEF Informed
  <2>6. Fits(job)
    BY <2>2, <2>4, <2>5 DEF Fits, Found
  <2>7. Goes(w, job)
    BY <1>0, <1>4, <2>1, <2>3, GotoGoes
  <2>8. Silent(w, job)
    BY <1>0, <1>1, <1>3, <2>2, <2>6, <2>7 DEF Silent, Typed
  <2>9. QED
    BY <2>8
<1>5. CASE FetchStatus(w)
  <2>1. PICK p \in Asked(jobs[w]) :
          Goto(w, [jobs[w] EXCEPT !.pc = "read", !.resource = p, !.at = Len(provider[p]),
                     !.fetched = MapMercadoPagoStatus(provider[p][Len(provider[p])])])
    BY <1>5 DEF FetchStatus
  <2>2. PICK n, s : n = Len(provider[p]) /\ s = MapMercadoPagoStatus(provider[p][n])
    OBVIOUS
  <2>3. mode = "MERCADO_PAGO"
    BY <1>5 DEF FetchStatus
  <2>4. /\ p \in ProviderPayments /\ provider[p] # <<>>
        /\ jobs[w].resource # NoResource => p = jobs[w].resource
    BY <1>2, <2>1, <2>3 DEF Asked, Created, Fits, Informed
  <2>5. s \in Statuses /\ (s = "APPROVED" => provider[p][n] = "approved")
    <3>1. PICK word : word = provider[p][n]
      OBVIOUS
    <3>2. DOMAIN Named = {"approved", "rejected", "refunded"} /\ Named["approved"] = "APPROVED"
          /\ Named["rejected"] = "REJECTED" /\ Named["refunded"] = "REFUNDED"
      BY DEF Named
    <3>3. QED
      BY <2>2, <3>1, <3>2 DEF MapMercadoPagoStatus, Statuses
  <2>6. n \in Nat /\ n \in DOMAIN provider[p]
    <3>1. PICK f : f = provider[p]
      OBVIOUS
    <3>2. PICK S : f \in Seq(S) /\ f # <<>>
      BY <1>0, <2>4, <3>1 DEF Typed
    <3>3. Len(f) \in Nat /\ Len(f) \in DOMAIN f
      BY <3>2
    <3>4. QED
      BY <2>2, <3>1, <3>3
  <2>7. s = "APPROVED" => WasApproved(p)
    BY <2>5, <2>6 DEF WasApproved
  <2>8. jobs[w].kind = "webhook" =>
          jobs[w].resource # NoResource /\ n >= jobs[w].change
    BY <1>1, <1>2, <2>2, <2>4, <2>6 DEF Fits, Notified, GoodJob, Job
  <2>9. p \in PaymentIds
    BY <2>4 DEF PaymentIds
  <2>10. QED
    BY <1>4, <2>1, <2>2, <2>4, <2>5, <2>6, <2>7, <2>8, <2>9
<1>6. CASE FetchMockStatus(w)
  <2>1. mode = "MOCK" /\ Goto(w, [jobs[w] EXCEPT !.pc = "read", !.fetched = "APPROVED"])
    BY <1>6 DEF FetchMockStatus
  <2>2. PICK p, n : p = jobs[w].resource /\ n = jobs[w].at
    OBVIOUS
  <2>3. [jobs[w] EXCEPT !.pc = "read", !.fetched = "APPROVED"]
          = [jobs[w] EXCEPT !.pc = "read", !.resource = p, !.at = n, !.fetched = "APPROVED"]
    BY <1>1, <2>2 DEF GoodJob, Job
  <2>4. p \in PaymentIds /\ n \in Nat /\ "APPROVED" \in Statuses
    BY <1>1, <2>2 DEF GoodJob, Job, Statuses
  <2>5. QED
    BY <1>4, <2>1, <2>2, <2>3, <2>4
<1>7. QED
  BY <1>5, <1>6

(* The row that a status is for is read.                                   *)
LEMMA ReadIs ==
  ASSUME IInv, NEW w \in Workers, ReadPayment(w)
  PROVE  \E job : Silent(w, job)
<1>0. Typed /\ JobInv(w) /\ \A o \in Orders : OrderInv(o)
  BY DEF IInv
<1>1. jobs[w] \in GoodJob /\ jobs[w].pc = "read"
  BY <1>0, JobIs DEF ReadPayment
<1>2. Fits(jobs[w]) /\ jobs[w].kind # "request"
  BY <1>0, <1>1 DEF JobInv, GoodJob, Requesting
<1>3. UNCHANGED <<mode, payments, ledger, webhooks, provider, prefs, sent, abandoned, lost>>
  BY DEF ReadPayment, database, world, history
<1>4. PICK o \in RowsOf(jobs[w].resource) :
        Goto(w, [jobs[w] EXCEPT !.pc = "apply", !.order = o, !.found = payments[o].status])
  BY DEF ReadPayment
<1>5. /\ o \in Orders /\ payments[o].status # "NONE"
      /\ \/ payments[o].providerPaymentId = jobs[w].resource
         \/ jobs[w].resource \in ProviderPayments /\ Reference[jobs[w].resource] = o
  BY DEF RowsOf
<1>6. PICK s : s = payments[o].status
  OBVIOUS
<1>7. s \in Statuses
  BY <1>0, <1>5, <1>6 DEF Typed, Row
<1>8. PICK job : job = [jobs[w] EXCEPT !.pc = "apply", !.order = o, !.found = s]
  OBVIOUS
<1>9. /\ job \in Job /\ job.pc = "apply" /\ job.order = o /\ job.found = s
      /\ job.resource = jobs[w].resource /\ job.at = jobs[w].at
      /\ job.fetched = jobs[w].fetched /\ job.kind = jobs[w].kind
      /\ job.key = jobs[w].key /\ job.change = jobs[w].change
  BY <1>1, <1>5, <1>7, <1>8 DEF GoodJob, Job
<1>10. job \in GoodJob
  BY <1>1, <1>2, <1>5, <1>9 DEF GoodJob, Requesting, Settled
<1>11. Fits(job)
  <2>1. Covered(o, EventFor(s))
    BY <1>0, <1>5, <1>6 DEF OrderInv, CoveredInv
  <2>2. Found(job)
    BY <1>5, <1>7, <1>9, <2>1 DEF Found, Statuses
  <2>3. Notified(job)
    BY <1>1, <1>2, <1>9 DEF Fits, Notified
  <2>4. mode = "MERCADO_PAGO" => Reference[jobs[w].resource] = o
    BY <1>0, <1>1, <1>2, <1>5 DEF Fits, Informed, OrderInv, RowInv
  <2>5. Informed(job)
    BY <1>1, <1>2, <1>9, <2>4 DEF Fits, Informed
  <2>6. QED
    BY <2>2, <2>3, <2>5 DEF Fits
<1>12. Goes(w, job)
  BY <1>0, <1>4, <1>6, <1>8, <1>10, GotoGoes
<1>13. Silent(w, job)
  BY <1>0, <1>1, <1>3, <1>9, <1>11, <1>12 DEF Silent, Typed
<1>14. QED
  BY <1>13

(* The steps that end a handler: an error, an answer, a rejected status.   *)
LEMMA StopIs ==
  ASSUME IInv, NEW w \in Workers,
         \/ RejectStatus(w) \/ Finish(w)
         \/ Fail(w) /\ jobs[w].pc \notin {"insert", "publish"}
  PROVE  Silent(w, Idle)
<1>0. Typed
  BY DEF IInv
<1>1. CASE RejectStatus(w)
  <2>1. jobs[w] \in GoodJob /\ jobs[w].pc = "read"
    BY <1>0, <1>1, JobIs DEF RejectStatus
  <2>2. jobs[w].key \in Keys
    BY <2>1 DEF GoodJob, Job
  <2>3. /\ UNCHANGED <<mode, payments, ledger, provider, prefs, sent, abandoned, lost>>
        /\ Goto(w, Idle)
    BY <1>1 DEF RejectStatus, world, history
  <2>4. webhooks' = webhooks \/ webhooks' = [webhooks EXCEPT ![jobs[w].key] = "IGNORED"]
    BY <1>1 DEF RejectStatus, SetWebhook
  <2>5. QED
    BY <1>0, <2>1, <2>2, <2>3, <2>4, StopsSilently
<1>2. CASE Finish(w)
  <2>1. /\ UNCHANGED <<mode, payments, ledger, webhooks, provider, prefs, sent, abandoned, lost>>
        /\ Goto(w, Idle) /\ jobs[w].pc = "answer"
    BY <1>2 DEF Finish, Answer, database, history
  <2>2. QED
    BY <1>0, <2>1, StopsSilently
<1>3. CASE Fail(w) /\ jobs[w].pc \notin {"insert", "publish"}
  <2>1. /\ UNCHANGED <<mode, payments, ledger, webhooks, provider, prefs, sent, abandoned, lost>>
        /\ Goto(w, Idle)
    BY <1>3 DEF Fail, database, world
  <2>2. QED
    BY <1>0, <1>3, <2>1, StopsSilently
<1>4. QED
  BY <1>1, <1>2, <1>3

(* The handlers that start.                                                *)
LEMMA StartsAre ==
  ASSUME IInv, NEW w \in Workers,
         \/ \E o \in Orders : RequestPayment(w, o)
         \/ \E p \in ProviderPayments : \E n \in 1..MaxChanges[p] : ProcessWebhook(w, p, n)
         \/ ProcessWebhook(w, NoResource, 0)
         \/ \E o \in Orders, p \in ProviderPayments \cup {NoResource} : SyncPaymentStatus(w, o, p)
  PROVE  \E job : Silent(w, job)
<1>0. Typed /\ NoResource \notin ProviderPayments
  BY ReferenceAssumption DEF IInv
<1>1. ASSUME NEW o \in Orders, RequestPayment(w, o)
      PROVE  \E job : Silent(w, job)
  <2>1. Start(w, "request", "lock", o, NoResource, 0)
    BY <1>1 DEF RequestPayment
  <2>2. Silent(w, NewJob("request", "lock", o, NoResource, 0))
    BY <1>0, <2>1, StartIs
  <2>3. QED
    BY <2>2
<1>2. ASSUME NEW p \in ProviderPayments, NEW n \in 1..MaxChanges[p], ProcessWebhook(w, p, n)
      PROVE  \E job : Silent(w, job)
  <2>1. n \in Nat /\ 1 <= n
    BY ReferenceAssumption
  <2>2. n <= Len(provider[p]) /\ p # NoResource
    BY <1>0, <1>2 DEF ProcessWebhook
  <2>3. provider[p] # <<>>
    BY <2>1, <2>2
  <2>4. mode = "MERCADO_PAGO"
    BY <1>0, <2>3 DEF Typed
  <2>5. Start(w, "webhook", "find webhook", Reference[p], p, n)
    BY <1>2, <2>2 DEF ProcessWebhook
  <2>6. Reference[p] \in Orders \cup {Elsewhere}
    BY ReferenceAssumption
  <2>7. PICK o \in Orders \cup {Elsewhere} : o = Reference[p]
    BY <2>6
  <2>8. Silent(w, NewJob("webhook", "find webhook", o, p, n))
    BY <1>0, <2>1, <2>2, <2>3, <2>4, <2>5, <2>7, StartIs
  <2>9. QED
    BY <2>8
<1>3. ASSUME ProcessWebhook(w, NoResource, 0)
      PROVE  \E job : Silent(w, job)
  <2>1. Start(w, "webhook", "find webhook", Elsewhere, NoResource, 0)
    BY <1>3 DEF ProcessWebhook
  <2>2. Silent(w, NewJob("webhook", "find webhook", Elsewhere, NoResource, 0))
    BY <1>0, <2>1, StartIs
  <2>3. QED
    BY <2>2
<1>4. ASSUME NEW o \in Orders, NEW p \in ProviderPayments \cup {NoResource},
             SyncPaymentStatus(w, o, p)
      PROVE  \E job : Silent(w, job)
  <2>1. Start(w, "sync", "find payment", o, p, 0) /\ p \in Created(o) \cup {NoResource}
    BY <1>4 DEF SyncPaymentStatus
  <2>2. p # NoResource => provider[p] # <<>>
    BY <2>1 DEF Created
  <2>3. Silent(w, NewJob("sync", "find payment", o, p, 0))
    BY <1>0, <2>1, <2>2, StartIs
  <2>4. QED
    BY <2>3
<1>5. QED
  BY <1>1, <1>2, <1>3, <1>4

-----------------------------------------------------------------------------
(* The steps that write, call the provider or publish                      *)

(* What every job knows, when one has moved on.                            *)
LEMMA JobsFit ==
  ASSUME IInv, Typed', Grows, NEW w \in Workers, NEW job, Goes(w, job),
         job # Idle => Fits(job)'
  PROVE  \A x \in Workers : JobInv(x)'
<1>0. Typed /\ \A x \in Workers : JobInv(x)
  BY DEF IInv
<1>1. SUFFICES ASSUME NEW x \in Workers
               PROVE  JobInv(x)'
  OBVIOUS
<1>2. CASE x = w
  <2>1. jobs'[w] = job
    BY DEF Goes
  <2>2. job \in GoodJob => job # Idle
    <3>1. Idle.pc = "idle"
      BY DEF Idle
    <3>2. job \in GoodJob => job.pc # "idle"
      BY DEF GoodJob, Job
    <3>3. QED
      BY <3>1, <3>2
  <2>3. QED
    BY <1>2, <2>1, <2>2 DEF JobInv
<1>3. CASE x # w
  <2>1. jobs'[x] = jobs[x]
    BY <1>3 DEF Goes
  <2>2. QED
    BY <1>0, <2>1, OthersFit
<1>4. QED
  BY <1>2, <1>3

(* A request keeps the lock until it has written its row.                  *)
LEMMA LockedStays ==
  ASSUME IInv, NEW w \in Workers, NEW job, Goes(w, job),
         job.pc \in {"find", "provider", "insert"} => HoldsLock(w, job.order),
         \A o \in Orders : payments[o].status = "NONE" =>
            \/ payments'[o].status = "NONE"
            \/ HoldsLock(w, o) /\ job.pc \notin {"provider", "insert"},
         job.pc \in {"provider", "insert"} => payments'[job.order].status = "NONE"
  PROVE  Locked'
<1>0. Typed /\ Locked
  BY DEF IInv
<1>1. jobs'[w] = job /\ \A x \in Workers \ {w} : jobs'[x] = jobs[x]
  BY DEF Goes
<1>2. \A x \in Workers, o \in Orders : HoldsLock(x, o)' => HoldsLock(x, o)
  BY <1>1 DEF HoldsLock
<1>3. \A o \in Orders : \A x, y \in Workers : HoldsLock(x, o)' /\ HoldsLock(y, o)' => x = y
  BY <1>0, <1>2 DEF Locked
<1>4. ASSUME NEW x \in Workers, jobs'[x].pc \in {"provider", "insert"}
      PROVE  payments'[jobs'[x].order].status = "NONE"
  <2>1. CASE x = w
    BY <1>1, <1>4, <2>1
  <2>2. CASE x # w
    <3>1. jobs'[x] = jobs[x]
      BY <1>1, <2>2
    <3>2. jobs[x].pc \in {"provider", "insert"}
      BY <1>4, <3>1
    <3>3. jobs[x] \in GoodJob
      BY <1>0, <3>2, JobIs
    <3>4. jobs[x].order \in Orders /\ HoldsLock(x, jobs[x].order)
      BY <3>2, <3>3 DEF GoodJob, Requesting, HoldsLock
    <3>5. payments[jobs[x].order].status = "NONE"
      BY <1>0, <3>2 DEF Locked
    <3>6. ~HoldsLock(w, jobs[x].order)
      BY <1>0, <2>2, <3>4 DEF Locked
    <3>7. QED
      BY <3>1, <3>4, <3>5, <3>6
  <2>3. QED
    BY <2>1, <2>2
<1>5. QED
  BY <1>3, <1>4 DEF Locked

(* Two sets of handlers that differ in one at most.                        *)
LEMMA OneMore ==
  ASSUME NEW S \in SUBSET Workers, NEW T \in SUBSET Workers, NEW w,
         \A x \in Workers : x # w => (x \in S <=> x \in T)
  PROVE  /\ Cardinality(S) \in Nat /\ Cardinality(T) \in Nat
         /\ (w \in S <=> w \in T) => Cardinality(T) = Cardinality(S)
         /\ w \notin S /\ w \in T => Cardinality(T) = Cardinality(S) + 1
         /\ w \in S /\ w \notin T => Cardinality(S) = Cardinality(T) + 1
<1>1. IsFiniteSet(S) /\ IsFiniteSet(T)
  BY ReferenceAssumption, FS_Subset
<1>2. Cardinality(S) \in Nat /\ Cardinality(T) \in Nat
  BY <1>1, FS_CardinalityType
<1>3. (w \in S <=> w \in T) => S = T
  OBVIOUS
<1>4. w \notin S /\ w \in T => T = S \cup {w}
  OBVIOUS
<1>5. w \in S /\ w \notin T => S = T \cup {w}
  OBVIOUS
<1>6. /\ w \notin S => Cardinality(S \cup {w}) = Cardinality(S) + 1
      /\ w \notin T => Cardinality(T \cup {w}) = Cardinality(T) + 1
  BY <1>1, FS_AddElement
<1>7. QED
  BY <1>2, <1>3, <1>4, <1>5, <1>6

(* How the handlers that publish and those that insert change.             *)
LEMMA GoneOn ==
  ASSUME NEW w \in Workers, NEW job, Goes(w, job), NEW o, NEW e
  PROVE  /\ Cardinality(Publishing(o, e)) \in Nat /\ Cardinality(Publishing(o, e)') \in Nat
         /\ (w \in Publishing(o, e) <=> w \in Publishing(o, e)') =>
              /\ Publishing(o, e)' = Publishing(o, e)
              /\ Cardinality(Publishing(o, e)') = Cardinality(Publishing(o, e))
         /\ w \notin Publishing(o, e) /\ w \in Publishing(o, e)' =>
              /\ Publishing(o, e)' # {}
              /\ Cardinality(Publishing(o, e)') = Cardinality(Publishing(o, e)) + 1
         /\ w \in Publishing(o, e) /\ w \notin Publishing(o, e)' =>
              Cardinality(Publishing(o, e)) = Cardinality(Publishing(o, e)') + 1
         /\ Cardinality(Inserting(o)) \in Nat /\ Cardinality(Inserting(o)') \in Nat
         /\ (w \in Inserting(o) <=> w \in Inserting(o)') =>
              Cardinality(Inserting(o)') = Cardinality(Inserting(o))
         /\ w \notin Inserting(o) /\ w \in Inserting(o)' =>
              Cardinality(Inserting(o)') = Cardinality(Inserting(o)) + 1
         /\ w \in Inserting(o) /\ w \notin Inserting(o)' =>
              Cardinality(Inserting(o)) = Cardinality(Inserting(o)') + 1
<1>1. /\ Publishing(o, e) \in SUBSET Workers /\ Publishing(o, e)' \in SUBSET Workers
      /\ Inserting(o) \in SUBSET Workers /\ Inserting(o)' \in SUBSET Workers
  BY DEF Publishing, Inserting
<1>2. /\ \A x \in Workers : x # w => (x \in Publishing(o, e) <=> x \in Publishing(o, e)')
      /\ \A x \in Workers : x # w => (x \in Inserting(o) <=> x \in Inserting(o)')
  BY DEF Goes, Publishing, Inserting
<1>3. PICK S, T : S = Publishing(o, e) /\ T = Publishing(o, e)'
  OBVIOUS
<1>4. PICK U, V : U = Inserting(o) /\ V = Inserting(o)'
  OBVIOUS
<1>5. /\ Cardinality(S) \in Nat /\ Cardinality(T) \in Nat
      /\ (w \in S <=> w \in T) => Cardinality(T) = Cardinality(S)
      /\ w \notin S /\ w \in T => Cardinality(T) = Cardinality(S) + 1
      /\ w \in S /\ w \notin T => Cardinality(S) = Cardinality(T) + 1
  <2>1. S \in SUBSET Workers /\ T \in SUBSET Workers
        /\ \A x \in Workers : x # w => (x \in S <=> x \in T)
    BY <1>1, <1>2, <1>3
  <2>2. QED
    BY ONLY <2>1, OneMore
<1>6. /\ Cardinality(U) \in Nat /\ Cardinality(V) \in Nat
      /\ (w \in U <=> w \in V) => Cardinality(V) = Cardinality(U)
      /\ w \notin U /\ w \in V => Cardinality(V) = Cardinality(U) + 1
      /\ w \in U /\ w \notin V => Cardinality(U) = Cardinality(V) + 1
  <2>1. U \in SUBSET Workers /\ V \in SUBSET Workers
        /\ \A x \in Workers : x # w => (x \in U <=> x \in V)
    BY <1>1, <1>2, <1>4
  <2>2. QED
    BY ONLY <2>1, OneMore
<1>7. (w \in S <=> w \in T) => T = S
  BY <1>1, <1>2, <1>3
<1>8. QED
  BY <1>3, <1>4, <1>5, <1>6, <1>7

(* An order that a step leaves alone.                                      *)
LEMMA OrderStays ==
  ASSUME IInv, Typed', Grows, NEW o \in Orders,
         payments'[o] = payments[o], ledger'[o] = ledger[o], prefs'[o] = prefs[o],
         sent'[o] = sent[o], abandoned'[o] = abandoned[o],
         Cardinality(Inserting(o)') = Cardinality(Inserting(o)),
         \A e \in Events : Cardinality(Publishing(o, e)') = Cardinality(Publishing(o, e))
  PROVE  OrderInv(o)'
<1>0. Typed /\ OrderInv(o)
  BY DEF IInv
<1>1. PrefsInv(o)'
  BY <1>0 DEF OrderInv, PrefsInv
<1>2. RecordedInv(o)'
  BY <1>0 DEF OrderInv, RecordedInv, Written
<1>3. /\ \A p \in ProviderPayments : provider[p] # <<>> => provider'[p] # <<>>
      /\ ApprovedFor(o) => ApprovedFor(o)'
      /\ mode' = mode
  BY <1>0, ApprovalStays DEF Grows
<1>4. SucceededInv(o)' /\ RowInv(o)'
  <2>1. SucceededInv(o)'
    <3>1. SucceededInv(o)
      BY <1>0 DEF OrderInv
    <3>2. QED
      BY <1>3, <3>1 DEF SucceededInv
  <2>2. RowInv(o)'
    <3>1. RowInv(o)
      BY <1>0 DEF OrderInv
    <3>2. QED
      BY <1>3, <3>1 DEF RowInv
  <2>3. QED
    BY <2>1, <2>2
<1>5. CoveredInv(o)'
  <2>1. PICK e : e = EventFor(payments[o].status)
    OBVIOUS
  <2>2. e \in Events
    BY <2>1, EventsAre
  <2>3. Covered(o, e) => Covered(o, e)'
    BY <2>2 DEF Grows
  <2>4. payments[o].status # "NONE" => Covered(o, e)
    BY <1>0, <2>1 DEF OrderInv, CoveredInv
  <2>5. QED
    BY <2>1, <2>3, <2>4 DEF CoveredInv
<1>6. QED
  BY <1>1, <1>2, <1>4, <1>5 DEF OrderInv

EntriesOf(f, e) == {i \in DOMAIN f : EventFor(f[i].status) = e}

(* An entry more in an order's ledger.                                     *)
LEMMA EntryMore ==
  ASSUME NEW f \in Seq(Entry), NEW entry \in Entry, NEW e
  PROVE  /\ \A i \in DOMAIN f : i \in DOMAIN Append(f, entry) /\ Append(f, entry)[i] = f[i]
         /\ Len(f) + 1 \in DOMAIN Append(f, entry) /\ Append(f, entry)[Len(f) + 1] = entry
         /\ Cardinality(EntriesOf(f, e)) \in Nat
         /\ EventFor(entry.status) = e =>
              Cardinality(EntriesOf(Append(f, entry), e)) = Cardinality(EntriesOf(f, e)) + 1
         /\ EventFor(entry.status) # e => EntriesOf(Append(f, entry), e) = EntriesOf(f, e)
<1>1. PICK g : g = Append(f, entry)
  OBVIOUS
<1>2. /\ DOMAIN f = 1..Len(f) /\ DOMAIN g = 1..(Len(f) + 1) /\ Len(f) \in Nat
      /\ g[Len(f) + 1] = entry /\ \A i \in 1..Len(f) : g[i] = f[i]
  BY <1>1
<1>3. PICK S, T : S = EntriesOf(f, e) /\ T = EntriesOf(g, e)
  OBVIOUS
<1>4. IsFiniteSet(S)
  <2>1. IsFiniteSet(DOMAIN f)
    BY <1>2, FS_Interval
  <2>2. S \subseteq DOMAIN f
    BY <1>3 DEF EntriesOf
  <2>3. QED
    BY <2>1, <2>2, FS_Subset
<1>5. Len(f) + 1 \notin S
  BY <1>2, <1>3 DEF EntriesOf
<1>6. \A i \in 1..(Len(f) + 1) : i \in 1..Len(f) \/ i = Len(f) + 1
  BY <1>2
<1>7. \A i : i \in S <=> i \in 1..Len(f) /\ EventFor(g[i].status) = e
  BY ONLY <1>2, <1>3 DEF EntriesOf
<1>8. Len(f) + 1 \in 1..(Len(f) + 1) /\ \A i \in 1..Len(f) : i \in 1..(Len(f) + 1)
  BY <1>2
<1>9. EventFor(entry.status) = e => T = S \cup {Len(f) + 1}
  BY ONLY <1>2, <1>3, <1>6, <1>7, <1>8 DEF EntriesOf
<1>10. EventFor(entry.status) # e => T = S
  BY ONLY <1>2, <1>3, <1>6, <1>7, <1>8 DEF EntriesOf
<1>11. Cardinality(S \cup {Len(f) + 1}) = Cardinality(S) + 1 /\ Cardinality(S) \in Nat
  BY <1>4, <1>5, FS_AddElement, FS_CardinalityType
<1>12. \A i \in DOMAIN f : i \in DOMAIN g /\ g[i] = f[i]
  BY <1>2, <1>8
<1>13. QED
  BY ONLY <1>1, <1>2, <1>3, <1>8, <1>9, <1>10, <1>11, <1>12

(* Ledgers that only grow, and a webhook's row that is marked rightly.     *)
LEMMA KeysStay ==
  ASSUME IInv,
         \A o \in Orders : \/ ledger'[o] = ledger[o]
                           \/ \E entry \in Entry : ledger'[o] = Append(ledger[o], entry),
         NEW k \in Keys,
         \/ webhooks'[k] = webhooks[k]
         \/ \E o \in Orders : \E i \in DOMAIN ledger'[o] :
              ledger'[o][i].resource = k.resource /\ ledger'[o][i].at >= FirstChange(k)
  PROVE  KeyInv(k)'
<1>0. Typed /\ KeyInv(k)
  BY DEF IInv
<1>1. CASE webhooks'[k] = webhooks[k] /\ webhooks[k] = "PROCESSED"
  <2>1. PICK o \in Orders : \E i \in DOMAIN ledger[o] :
          ledger[o][i].resource = k.resource /\ ledger[o][i].at >= FirstChange(k)
    BY <1>0, <1>1 DEF KeyInv
  <2>2. PICK f, g : f = ledger[o] /\ g = ledger'[o]
    OBVIOUS
  <2>3. f \in Seq(Entry) /\ (g = f \/ \E entry \in Entry : g = Append(f, entry))
    BY <1>0, <2>2 DEF Typed
  <2>4. \A i \in DOMAIN f : i \in DOMAIN g /\ g[i] = f[i]
    <3>1. CASE g = f
      BY <3>1
    <3>2. ASSUME NEW entry \in Entry, g = Append(f, entry)
          PROVE  \A i \in DOMAIN f : i \in DOMAIN g /\ g[i] = f[i]
      BY <2>3, <3>2, AppendProperties
    <3>3. QED
      BY <2>3, <3>1, <3>2
  <2>5. QED
    BY <2>1, <2>2, <2>4 DEF KeyInv
<1>2. CASE webhooks'[k] = webhooks[k] /\ webhooks[k] # "PROCESSED"
  BY <1>2 DEF KeyInv
<1>3. CASE \E o \in Orders : \E i \in DOMAIN ledger'[o] :
             ledger'[o][i].resource = k.resource /\ ledger'[o][i].at >= FirstChange(k)
  BY <1>3 DEF KeyInv
<1>4. QED
  BY <1>1, <1>2, <1>3

(* The provider is asked for a preference.                                 *)
LEMMA AskKeeps ==
  ASSUME IInv, NEW w \in Workers, NEW s \in Statuses, CreatePaymentPreference(w, s)
  PROVE  IInv'
<1>0. /\ Typed /\ Locked /\ JobInv(w) /\ (\A o \in Orders : OrderInv(o))
      /\ \A k \in Keys : KeyInv(k)
  BY DEF IInv
<1>1. jobs[w] \in GoodJob /\ jobs[w].pc = "provider"
  BY <1>0, JobIs DEF CreatePaymentPreference
<1>2. Fits(jobs[w]) /\ jobs[w].kind = "request" /\ jobs[w].order \in Orders
  BY <1>0, <1>1 DEF JobInv, GoodJob, Requesting
<1>3. PICK o0 \in Orders : o0 = jobs[w].order
  BY <1>2
<1>4. /\ UNCHANGED <<mode, payments, ledger, webhooks, provider, sent, abandoned, lost>>
      /\ prefs' = [prefs EXCEPT ![o0] = @ + 1]
      /\ mode = "MERCADO_PAGO" => s = "PENDING"
  BY <1>3 DEF CreatePaymentPreference, database, history
<1>5. PICK job : job = [jobs[w] EXCEPT !.pc = "insert", !.fetched = s]
  OBVIOUS
<1>6. /\ job \in Job /\ job.pc = "insert" /\ job.order = o0 /\ job.fetched = s
      /\ job.kind = "request"
  BY <1>1, <1>2, <1>3, <1>5 DEF GoodJob, Job
<1>7. job \in GoodJob
  BY <1>6 DEF GoodJob, Requesting, Settled
<1>8. Goes(w, job)
  BY <1>0, <1>5, <1>7, GotoGoes DEF CreatePaymentPreference
<1>9. jobs'[w] = job
  BY <1>8 DEF Goes
<1>10. Typed'
  <2>1. prefs' \in [Orders -> Nat]
    BY <1>0, <1>4 DEF Typed
  <2>2. QED
    BY <1>0, <1>4, <1>8, <2>1 DEF Typed, Goes
<1>11. \A o, e : w \notin Publishing(o, e) /\ w \notin Publishing(o, e)'
  BY <1>1, <1>6, <1>9 DEF Publishing
<1>12. \A o, e : /\ Publishing(o, e)' = Publishing(o, e)
                 /\ Cardinality(Publishing(o, e)') = Cardinality(Publishing(o, e))
  BY <1>8, <1>11, GoneOn
<1>13. \A o, e : Covered(o, e)' <=> Covered(o, e)
  BY <1>4, <1>12 DEF Covered
<1>14. Grows
  BY <1>0, <1>4, <1>13 DEF Grows, Typed
<1>15. \A x \in Workers : JobInv(x)'
  <2>1. Fits(job)'
    <3>1. "PENDING" # "APPROVED" /\ mode' = mode
      BY <1>4
    <3>2. QED
      BY <1>4, <1>6, <3>1 DEF Fits, Found, Notified, Informed
  <2>2. QED
    BY <1>8, <1>10, <1>14, <2>1, JobsFit
<1>16. Locked'
  <2>1. payments[o0].status = "NONE" /\ HoldsLock(w, o0)
    BY <1>0, <1>1, <1>3 DEF Locked, HoldsLock
  <2>2. QED
    BY <1>4, <1>6, <1>8, <2>1, LockedStays
<1>17. ASSUME NEW o \in Orders
       PROVE  OrderInv(o)'
  <2>1. CASE o # o0
    <3>1. w \notin Inserting(o) /\ w \notin Inserting(o)'
      BY <1>1, <1>6, <1>9, <2>1 DEF Inserting
    <3>2. Cardinality(Inserting(o)') = Cardinality(Inserting(o))
      BY <1>8, <3>1, GoneOn
    <3>3. prefs'[o] = prefs[o]
      BY <1>0, <1>4, <2>1 DEF Typed
    <3>4. QED
      BY <1>4, <1>10, <1>12, <1>14, <3>2, <3>3, OrderStays
  <2>2. CASE o = o0
    <3>0. OrderInv(o)
      BY <1>0
    <3>1. w \notin Inserting(o) /\ w \in Inserting(o)'
      BY <1>1, <1>6, <1>9, <2>2 DEF Inserting
    <3>2. /\ Cardinality(Inserting(o)') = Cardinality(Inserting(o)) + 1
          /\ Cardinality(Inserting(o)) \in Nat
      BY <1>8, <3>1, GoneOn
    <3>3. prefs'[o] = prefs[o] + 1 /\ prefs[o] \in Nat /\ abandoned[o] \in Nat
      BY <1>0, <1>4, <2>2 DEF Typed
    <3>4. PrefsInv(o)'
      BY <1>4, <3>0, <3>2, <3>3 DEF OrderInv, PrefsInv
    <3>5. RecordedInv(o)'
      BY <1>4, <1>12, <3>0 DEF OrderInv, RecordedInv, Written
    <3>6. SucceededInv(o)' /\ RowInv(o)'
      BY <1>4, <3>0 DEF OrderInv, SucceededInv, RowInv, ApprovedFor, WasApproved
    <3>7. CoveredInv(o)'
      <4>1. CoveredInv(o)
        BY <3>0 DEF OrderInv
      <4>2. QED
        BY <1>4, <1>13, <4>1 DEF CoveredInv
    <3>8. QED
      BY <3>4, <3>5, <3>6, <3>7 DEF OrderInv
  <2>3. QED
    BY <2>1, <2>2
<1>18. \A k \in Keys : KeyInv(k)'
  BY <1>0, <1>4 DEF KeyInv
<1>19. QED
  BY <1>10, <1>15, <1>16, <1>17, <1>18 DEF IInv

(* A status that is written: an entry more, and an event for it to be      *)
(* published, or, when the row said so before, one that was covered.       *)
LEMMA RecordedStays ==
  ASSUME Typed, NEW o \in Orders, RecordedInv(o), NEW w \in Workers, NEW job, Goes(w, job),
         NEW entry \in Entry, ledger'[o] = Append(ledger[o], entry), sent'[o] = sent[o],
         jobs[w].pc # "publish",
         job.pc = "publish" => job.fetched = entry.status
  PROVE  RecordedInv(o)'
<1>1. SUFFICES ASSUME NEW e \in Events
               PROVE  sent'[o][e] + Cardinality(Publishing(o, e)') <= Cardinality(Written(o, e)')
  BY DEF RecordedInv
<1>2. ledger[o] \in Seq(Entry) /\ sent[o][e] \in Nat
  BY DEF Typed
<1>3. PICK f : f = ledger[o]
  OBVIOUS
<1>4. /\ Cardinality(Written(o, e)) \in Nat
      /\ EventFor(entry.status) = e =>
           Cardinality(Written(o, e)') = Cardinality(Written(o, e)) + 1
      /\ EventFor(entry.status) # e => Cardinality(Written(o, e)') = Cardinality(Written(o, e))
  <2>1. f \in Seq(Entry)
    BY <1>2, <1>3
  <2>2. /\ Cardinality(EntriesOf(f, e)) \in Nat
        /\ EventFor(entry.status) = e =>
             Cardinality(EntriesOf(Append(f, entry), e)) = Cardinality(EntriesOf(f, e)) + 1
        /\ EventFor(entry.status) # e => EntriesOf(Append(f, entry), e) = EntriesOf(f, e)
    BY ONLY <2>1, entry \in Entry, EntryMore
  <2>3. Written(o, e) = EntriesOf(f, e) /\ Written(o, e)' = EntriesOf(Append(f, entry), e)
    BY <1>3 DEF Written, EntriesOf
  <2>4. QED
    BY <2>2, <2>3
<1>5. w \notin Publishing(o, e)
  BY DEF Publishing
<1>6. w \in Publishing(o, e)' => EventFor(entry.status) = e
  BY DEF Publishing, Goes
<1>7. /\ Cardinality(Publishing(o, e)) \in Nat /\ Cardinality(Publishing(o, e)') \in Nat
      /\ w \notin Publishing(o, e)' =>
           Cardinality(Publishing(o, e)') = Cardinality(Publishing(o, e))
      /\ w \in Publishing(o, e)' =>
           Cardinality(Publishing(o, e)') = Cardinality(Publishing(o, e)) + 1
  BY <1>5, GoneOn
<1>8. PICK a, b, c, d, n :
        /\ a = Cardinality(Publishing(o, e)) /\ b = Cardinality(Publishing(o, e)')
        /\ c = Cardinality(Written(o, e)) /\ d = Cardinality(Written(o, e)') /\ n = sent[o][e]
  OBVIOUS
<1>9. a \in Nat /\ b \in Nat /\ c \in Nat /\ n \in Nat /\ n + a <= c
  BY <1>2, <1>4, <1>7, <1>8 DEF RecordedInv
<1>10. \/ b = a /\ (d = c \/ d = c + 1)
       \/ b = a + 1 /\ d = c + 1
  BY <1>4, <1>6, <1>7, <1>8
<1>11. n + b <= d
  BY ONLY <1>9, <1>10
<1>12. QED
  BY <1>8, <1>11

(* A step after which an order's handlers to publish are no fewer.         *)
LEMMA CoveredStays ==
  ASSUME Typed, NEW w \in Workers, NEW job, Goes(w, job), jobs[w].pc # "publish",
         sent' = sent, lost' = lost
  PROVE  \A o, e : Covered(o, e) => Covered(o, e)'
<1>1. SUFFICES ASSUME NEW o, NEW e, Covered(o, e)
               PROVE  Covered(o, e)'
  OBVIOUS
<1>2. w \notin Publishing(o, e)
  BY DEF Publishing
<1>3. \/ Publishing(o, e)' = Publishing(o, e)
      \/ Publishing(o, e)' # {}
  BY <1>2, GoneOn
<1>4. QED
  BY <1>1, <1>3 DEF Covered

(* A request's row is inserted.                                            *)
LEMMA InsertKeeps ==
  ASSUME IInv, NEW w \in Workers, InsertPayment(w)
  PROVE  IInv'
<1>0. /\ Typed /\ Locked /\ JobInv(w) /\ (\A o \in Orders : OrderInv(o))
      /\ \A k \in Keys : KeyInv(k)
  BY DEF IInv
<1>1. jobs[w] \in GoodJob /\ jobs[w].pc = "insert"
  BY <1>0, JobIs DEF InsertPayment
<1>2. /\ Fits(jobs[w]) /\ jobs[w].kind = "request" /\ jobs[w].order \in Orders
      /\ jobs[w].fetched \in Statuses
  BY <1>0, <1>1 DEF JobInv, GoodJob, Requesting, Settled
<1>3. PICK o0 \in Orders, s \in Statuses : o0 = jobs[w].order /\ s = jobs[w].fetched
  BY <1>2
<1>4. payments[o0].status = "NONE" /\ HoldsLock(w, o0)
  BY <1>0, <1>1, <1>3 DEF Locked, HoldsLock
<1>5. PICK id : id = IF mode = "MOCK" THEN o0 ELSE NoResource
  OBVIOUS
<1>6. PICK row, entry : /\ row = [status |-> s, providerPaymentId |-> id]
                        /\ entry = [resource |-> NoResource, at |-> 0, status |-> s]
  OBVIOUS
<1>7. /\ payments' = [payments EXCEPT ![o0] = row]
      /\ ledger' = [ledger EXCEPT ![o0] = Append(@, entry)]
      /\ UNCHANGED <<mode, webhooks, provider, prefs, sent, abandoned, lost>>
      /\ Goto(w, [jobs[w] EXCEPT !.pc = "publish"])
  BY <1>3, <1>4, <1>5, <1>6 DEF InsertPayment, world, history
<1>8. /\ row \in Row /\ row.status = s /\ row.providerPaymentId = id
      /\ entry \in Entry /\ entry.status = s /\ s # "NONE"
      /\ mode = "MERCADO_PAGO" => id \notin ProviderPayments
  BY <1>0, <1>5, <1>6, ReferenceAssumption DEF Row, Entry, PaymentIds, Statuses
<1>9. PICK job : job = [jobs[w] EXCEPT !.pc = "publish"]
  OBVIOUS
<1>10. /\ job \in Job /\ job.pc = "publish" /\ job.order = o0 /\ job.fetched = s
       /\ job.kind = "request"
  BY <1>1, <1>2, <1>3, <1>9 DEF GoodJob, Job
<1>11. job \in GoodJob
  BY <1>10 DEF GoodJob, Requesting, Settled
<1>12. Goes(w, job)
  BY <1>0, <1>7, <1>9, <1>11, GotoGoes
<1>13. jobs'[w] = job
  BY <1>12 DEF Goes
<1>14. /\ payments'[o0] = row /\ ledger'[o0] = Append(ledger[o0], entry)
       /\ \A o \in Orders : o # o0 => payments'[o] = payments[o] /\ ledger'[o] = ledger[o]
  BY <1>0, <1>7 DEF Typed
<1>15. Typed'
  <2>1. payments' \in [Orders -> Row]
    BY <1>0, <1>7, <1>8 DEF Typed
  <2>2. ledger' \in [Orders -> Seq(Entry)]
    BY <1>0, <1>7, <1>8 DEF Typed
  <2>3. QED
    BY <1>0, <1>7, <1>12, <2>1, <2>2 DEF Typed, Goes
<1>16. Grows
  <2>1. \A o, e : Covered(o, e) => Covered(o, e)'
    BY <1>0, <1>1, <1>7, <1>12, CoveredStays
  <2>2. \A o \in Orders : payments[o].status # "NONE" => payments'[o].status # "NONE"
    BY <1>4, <1>14
  <2>3. QED
    BY <1>0, <1>7, <2>1, <2>2 DEF Grows, Typed
<1>17. \A x \in Workers : JobInv(x)'
  <2>1. Fits(job)'
    <3>1. mode' = "MERCADO_PAGO" /\ s = "APPROVED" => ApprovedFor(o0)'
      <4>1. mode = "MERCADO_PAGO" /\ s = "APPROVED" => ApprovedFor(o0)
        BY <1>1, <1>2, <1>3 DEF Fits, Informed
      <4>2. mode' = mode /\ (ApprovedFor(o0) => ApprovedFor(o0)')
        BY <1>0, <1>7, <1>15, <1>16, ApprovalStays
      <4>3. QED
        BY <4>1, <4>2
    <3>2. QED
      BY <1>10, <3>1 DEF Fits, Found, Notified, Informed
  <2>2. QED
    BY <1>12, <1>15, <1>16, <2>1, JobsFit
<1>18. Locked'
  <2>1. job.pc \notin {"find", "provider", "insert"}
    BY <1>10
  <2>2. \A o \in Orders : payments[o].status = "NONE" =>
          payments'[o].status = "NONE" \/ HoldsLock(w, o)
    BY <1>4, <1>14
  <2>3. QED
    BY <1>12, <2>1, <2>2, LockedStays
<1>19. ASSUME NEW o \in Orders
       PROVE  OrderInv(o)'
  <2>1. CASE o # o0
    <3>1. \A e : w \notin Publishing(o, e) /\ w \notin Publishing(o, e)'
      BY <1>1, <1>10, <1>13, <2>1 DEF Publishing
    <3>2. w \notin Inserting(o) /\ w \notin Inserting(o)'
      BY <1>3, <1>10, <1>13, <2>1 DEF Inserting
    <3>3. /\ Cardinality(Inserting(o)') = Cardinality(Inserting(o))
          /\ \A e : Cardinality(Publishing(o, e)') = Cardinality(Publishing(o, e))
      BY <1>12, <3>1, <3>2, GoneOn
    <3>4. QED
      BY <1>7, <1>14, <1>15, <1>16, <2>1, <3>3, OrderStays
  <2>2. CASE o = o0
    <3>0. OrderInv(o)
      BY <1>0
    <3>1. PrefsInv(o)'
      <4>1. w \in Inserting(o) /\ w \notin Inserting(o)'
        BY <1>1, <1>3, <1>10, <1>13, <2>2 DEF Inserting
      <4>2. /\ Cardinality(Inserting(o)) = Cardinality(Inserting(o)') + 1
            /\ Cardinality(Inserting(o)') \in Nat
        BY <1>12, <4>1, GoneOn
      <4>3. payments[o].status = "NONE" /\ payments'[o].status # "NONE"
        BY <1>4, <1>8, <1>14, <2>2
      <4>4. prefs[o] \in Nat /\ abandoned[o] \in Nat
        BY <1>0 DEF Typed
      <4>5. QED
        BY <1>7, <3>0, <4>2, <4>3, <4>4 DEF OrderInv, PrefsInv
    <3>2. RecordedInv(o)'
      <4>1. RecordedInv(o)
        BY <3>0 DEF OrderInv
      <4>2. /\ ledger'[o] = Append(ledger[o], entry) /\ sent'[o] = sent[o]
            /\ jobs[w].pc # "publish" /\ job.fetched = entry.status
        BY <1>1, <1>7, <1>8, <1>10, <1>14, <2>2
      <4>3. QED
        BY <1>0, <1>8, <1>12, <4>1, <4>2, RecordedStays
    <3>3. SucceededInv(o)'
      BY <1>7, <3>0 DEF OrderInv, SucceededInv, ApprovedFor, WasApproved
    <3>4. RowInv(o)'
      BY <1>7, <1>8, <1>14, <2>2 DEF RowInv
    <3>5. CoveredInv(o)'
      <4>1. w \in Publishing(o, EventFor(s))'
        BY <1>10, <1>13, <2>2 DEF Publishing
      <4>2. payments'[o].status = s
        BY <1>8, <1>14, <2>2
      <4>3. QED
        BY <4>1, <4>2 DEF CoveredInv, Covered
    <3>6. QED
      BY <3>1, <3>2, <3>3, <3>4, <3>5 DEF OrderInv
  <2>3. QED
    BY <2>1, <2>2
<1>20. ASSUME NEW k \in Keys
       PROVE  KeyInv(k)'
  <2>1. \A o \in Orders : \/ ledger'[o] = ledger[o]
                          \/ \E e \in Entry : ledger'[o] = Append(ledger[o], e)
    BY <1>8, <1>14
  <2>2. QED
    BY <1>7, <2>1, KeysStay
<1>21. QED
  BY <1>15, <1>17, <1>18, <1>19, <1>20 DEF IInv

(* A status is applied to the row that was read.                           *)
LEMMA ApplyKeeps ==
  ASSUME IInv, NEW w \in Workers, Apply(w)
  PROVE  IInv'
<1>0. /\ Typed /\ Locked /\ JobInv(w) /\ (\A o \in Orders : OrderInv(o))
      /\ \A k \in Keys : KeyInv(k)
  BY DEF IInv
<1>1. PICK old : old = jobs[w]
  OBVIOUS
<1>2. old \in GoodJob /\ old.pc = "apply"
  BY <1>0, <1>1, JobIs DEF Apply
<1>3. /\ Fits(old) /\ old.kind # "request" /\ old.order \in Orders /\ old.key \in Keys
      /\ old.fetched \in Statuses /\ old.resource \in PaymentIds /\ old.at \in Nat
      /\ old.change \in Nat
  BY <1>0, <1>1, <1>2 DEF JobInv, GoodJob, Job, Requesting, Settled
<1>4. PICK o0 \in Orders, s \in Statuses : o0 = old.order /\ s = old.fetched
  BY <1>3
<1>5. payments[o0].status # "NONE" /\ Covered(o0, EventFor(old.found))
  BY <1>2, <1>3, <1>4 DEF Fits, Found
<1>6. PICK row, entry :
        /\ row = [status |-> s, providerPaymentId |-> old.resource]
        /\ entry = [resource |-> old.resource, at |-> old.at, status |-> s]
  OBVIOUS
<1>7. PICK pc : pc = IF Announces(old) THEN "publish" ELSE "answer"
  OBVIOUS
<1>8. /\ payments' = [payments EXCEPT ![o0] = row]
      /\ ledger' = [ledger EXCEPT ![o0] = Append(@, entry)]
      /\ UNCHANGED <<mode, provider, prefs, sent, abandoned, lost>>
      /\ Goto(w, [old EXCEPT !.pc = pc])
      /\ webhooks' = IF old.kind = "webhook" THEN [webhooks EXCEPT ![old.key] = "PROCESSED"]
                     ELSE webhooks
  BY <1>1, <1>4, <1>6, <1>7 DEF Apply, SetWebhook, world, history
<1>9. /\ row \in Row /\ row.status = s /\ row.providerPaymentId = old.resource
      /\ entry \in Entry /\ entry.status = s /\ entry.resource = old.resource
      /\ entry.at = old.at /\ s # "NONE"
  BY <1>3, <1>6 DEF Row, Entry, Statuses
<1>10. PICK job : job = [old EXCEPT !.pc = pc]
  OBVIOUS
<1>11. /\ job \in Job /\ job.pc = pc /\ job.order = o0 /\ job.fetched = s
       /\ job.kind = old.kind /\ job.key = old.key /\ job.resource = old.resource
       /\ job.change = old.change /\ pc \in {"publish", "answer"}
  BY <1>2, <1>4, <1>7, <1>10 DEF GoodJob, Job
<1>12. job \in GoodJob
  BY <1>3, <1>11 DEF GoodJob, Requesting, Settled
<1>13. Goes(w, job)
  BY <1>0, <1>8, <1>10, <1>12, GotoGoes
<1>14. jobs'[w] = job
  BY <1>13 DEF Goes
<1>15. /\ payments'[o0] = row /\ ledger'[o0] = Append(ledger[o0], entry)
       /\ \A o \in Orders : o # o0 => payments'[o] = payments[o] /\ ledger'[o] = ledger[o]
  BY <1>0, <1>8 DEF Typed
<1>16. Typed'
  <2>1. payments' \in [Orders -> Row]
    BY <1>0, <1>8, <1>9 DEF Typed
  <2>2. ledger' \in [Orders -> Seq(Entry)]
    BY <1>0, <1>8, <1>9 DEF Typed
  <2>3. webhooks' \in [Keys -> {"NONE", "RECEIVED", "PROCESSED", "IGNORED"}]
    BY <1>0, <1>3, <1>8 DEF Typed
  <2>4. QED
    BY <1>0, <1>8, <1>13, <2>1, <2>2, <2>3 DEF Typed, Goes
<1>17. \A o, e : Covered(o, e) => Covered(o, e)'
  BY <1>0, <1>1, <1>2, <1>8, <1>13, CoveredStays
<1>18. Grows
  <2>1. \A o \in Orders : payments[o].status # "NONE" => payments'[o].status # "NONE"
    BY <1>9, <1>15
  <2>2. QED
    BY <1>0, <1>8, <1>17, <2>1 DEF Grows, Typed
<1>19. /\ \A p \in ProviderPayments : /\ WasApproved(p) => WasApproved(p)'
                                      /\ provider[p] # <<>> => provider'[p] # <<>>
       /\ mode' = mode
  BY <1>0, <1>16, <1>18, ApprovalStays DEF Grows
<1>20. mode = "MERCADO_PAGO" =>
         /\ old.resource \in ProviderPayments /\ Reference[old.resource] = o0
         /\ provider[old.resource] # <<>>
         /\ s = "APPROVED" => WasApproved(old.resource)
  BY <1>2, <1>3, <1>4 DEF Fits, Informed
<1>21. \A x \in Workers : JobInv(x)'
  <2>1. Fits(job)'
    <3>1. Found(job)'
      BY <1>11 DEF Found
    <3>2. Notified(job)'
      BY <1>2, <1>3, <1>8, <1>11 DEF Fits, Notified
    <3>3. mode' = "MERCADO_PAGO" /\ s = "APPROVED" => ApprovedFor(o0)'
      BY <1>19, <1>20 DEF ApprovedFor
    <3>4. Informed(job)'
      BY <1>11, <1>19, <1>20, <3>3 DEF Informed
    <3>5. QED
      BY <3>1, <3>2, <3>4 DEF Fits
  <2>2. QED
    BY <1>13, <1>16, <1>18, <2>1, JobsFit
<1>22. Locked'
  <2>1. job.pc \notin {"find", "provider", "insert"}
    BY <1>11
  <2>2. \A o \in Orders : payments[o].status = "NONE" => payments'[o].status = "NONE"
    BY <1>5, <1>15
  <2>3. QED
    BY <1>13, <2>1, <2>2, LockedStays
<1>23. \A o : Cardinality(Inserting(o)') = Cardinality(Inserting(o))
  <2>1. \A o : w \notin Inserting(o) /\ w \notin Inserting(o)'
    BY <1>1, <1>2, <1>11, <1>14 DEF Inserting
  <2>2. QED
    BY <1>13, <2>1, GoneOn
<1>24. ASSUME NEW o \in Orders
       PROVE  OrderInv(o)'
  <2>1. CASE o # o0
    <3>1. \A e : w \notin Publishing(o, e) /\ w \notin Publishing(o, e)'
      BY <1>1, <1>2, <1>11, <1>14, <2>1 DEF Publishing
    <3>2. \A e : Cardinality(Publishing(o, e)') = Cardinality(Publishing(o, e))
      BY <1>13, <3>1, GoneOn
    <3>3. QED
      BY <1>8, <1>15, <1>16, <1>18, <1>23, <2>1, <3>2, OrderStays
  <2>2. CASE o = o0
    <3>0. OrderInv(o)
      BY <1>0
    <3>1. PrefsInv(o)'
      <4>1. payments[o].status # "NONE" /\ payments'[o].status # "NONE"
        BY <1>5, <1>9, <1>15, <2>2
      <4>2. QED
        BY <1>8, <1>23, <3>0, <4>1 DEF OrderInv, PrefsInv
    <3>2. RecordedInv(o)'
      <4>1. RecordedInv(o)
        BY <3>0 DEF OrderInv
      <4>2. /\ ledger'[o] = Append(ledger[o], entry) /\ sent'[o] = sent[o]
            /\ jobs[w].pc # "publish" /\ job.fetched = entry.status
        BY <1>1, <1>2, <1>8, <1>9, <1>11, <1>15, <2>2
      <4>3. QED
        BY <1>0, <1>9, <1>13, <4>1, <4>2, RecordedStays
    <3>3. SucceededInv(o)'
      BY <1>8, <3>0 DEF OrderInv, SucceededInv, ApprovedFor, WasApproved
    <3>4. RowInv(o)'
      BY <1>9, <1>15, <1>19, <1>20, <2>2 DEF RowInv
    <3>5. CoveredInv(o)'
      <4>1. payments'[o].status = s
        BY <1>9, <1>15, <2>2
      <4>2. CASE Announces(old)
        <5>1. w \in Publishing(o, EventFor(s))'
          BY <1>7, <1>11, <1>14, <2>2, <4>2 DEF Publishing
        <5>2. QED
          BY <4>1, <5>1 DEF CoveredInv, Covered
      <4>3. CASE ~Announces(old)
        <5>1. old.found = s
          BY <1>4, <4>3 DEF Announces
        <5>2. Covered(o, EventFor(s))'
          <6>1. PICK e : e = EventFor(s)
            OBVIOUS
          <6>2. Covered(o, e)'
            BY <1>5, <1>17, <2>2, <5>1, <6>1
          <6>3. QED
            BY <6>1, <6>2
        <5>3. QED
          BY <4>1, <5>2 DEF CoveredInv
      <4>4. QED
        BY <4>2, <4>3
    <3>6. QED
      BY <3>1, <3>2, <3>3, <3>4, <3>5 DEF OrderInv
  <2>3. QED
    BY <2>1, <2>2
<1>25. ASSUME NEW k \in Keys
       PROVE  KeyInv(k)'
  <2>1. \A o \in Orders : \/ ledger'[o] = ledger[o]
                          \/ \E e \in Entry : ledger'[o] = Append(ledger[o], e)
    BY <1>9, <1>15
  <2>2. CASE webhooks'[k] = webhooks[k]
    BY <2>1, <2>2, KeysStay
  <2>3. CASE webhooks'[k] # webhooks[k]
    <3>1. k = old.key /\ old.kind = "webhook"
      BY <1>0, <1>3, <1>8, <2>3 DEF Typed
    <3>2. /\ old.resource = k.resource /\ old.resource # NoResource
          /\ mode = "MERCADO_PAGO" /\ FirstChange(k) <= old.change
      BY <1>2, <1>3, <3>1 DEF Fits, Notified
    <3>3. old.at >= old.change
      BY <1>2, <1>3, <3>1, <3>2 DEF Fits, Informed
    <3>4. FirstChange(k) \in Nat
      BY DEF FirstChange
    <3>5. entry.at >= FirstChange(k) /\ entry.resource = k.resource
      BY <1>3, <1>9, <3>2, <3>3, <3>4
    <3>6. \E i \in DOMAIN ledger'[o0] : ledger'[o0][i] = entry
      <4>1. PICK f : f = ledger[o0]
        OBVIOUS
      <4>2. f \in Seq(Entry) /\ entry \in Entry
        BY <1>0, <1>9, <4>1 DEF Typed
      <4>3. \E i \in DOMAIN Append(f, entry) : Append(f, entry)[i] = entry
        BY ONLY <4>2, EntryMore
      <4>4. QED
        BY <1>15, <4>1, <4>3
    <3>7. QED
      BY <2>1, <3>5, <3>6, KeysStay
  <2>4. QED
    BY <2>2, <2>3
<1>26. QED
  BY <1>16, <1>21, <1>22, <1>24, <1>25 DEF IInv

(* A handler that publishes, or is cut off instead.                        *)
LEMMA SayingKeeps ==
  ASSUME IInv, NEW w \in Workers, NEW job, Goes(w, job),
         jobs[w].pc = "publish", job.pc \in {"answer", "idle"},
         job # Idle => Fits(job) /\ job \in GoodJob,
         NEW o0 \in Orders, NEW e0 \in Events,
         o0 = jobs[w].order, e0 = EventFor(jobs[w].fetched),
         UNCHANGED <<mode, payments, ledger, webhooks, provider, prefs, abandoned>>,
         \/ sent' = [sent EXCEPT ![o0][e0] = @ + 1] /\ lost' = lost
         \/ sent' = sent /\ lost' = [lost EXCEPT ![o0] = @ \cup {e0}]
  PROVE  IInv'
<1>0. /\ Typed /\ Locked /\ JobInv(w) /\ (\A o \in Orders : OrderInv(o))
      /\ \A k \in Keys : KeyInv(k)
  BY DEF IInv
<1>1. jobs'[w] = job
  BY DEF Goes
<1>2. Typed'
  <2>1. lost' \in [Orders -> SUBSET Events]
    <3>1. lost \in [Orders -> SUBSET Events] /\ o0 \in Orders /\ e0 \in Events
      BY <1>0 DEF Typed
    <3>2. lost' = [lost EXCEPT ![o0] = @ \cup {e0}] \/ lost' = lost
      OBVIOUS
    <3>3. PICK said : said = lost[o0] \cup {e0}
      OBVIOUS
    <3>4. said \in SUBSET Events
      BY <3>1, <3>3
    <3>5. lost' = [lost EXCEPT ![o0] = said] \/ lost' = lost
      BY <3>2, <3>3
    <3>6. QED
      BY ONLY <3>1, <3>4, <3>5
  <2>2. sent' \in [Orders -> [Events -> Nat]]
    <3>1. sent \in [Orders -> [Events -> Nat]]
      BY <1>0 DEF Typed
    <3>2. PICK row : row = [sent[o0] EXCEPT ![e0] = @ + 1]
      OBVIOUS
    <3>3. sent[o0] \in [Events -> Nat]
      BY <3>1
    <3>4. row \in [Events -> Nat]
      BY <3>2, <3>3
    <3>5. sent' = [sent EXCEPT ![o0] = row] \/ sent' = sent
      BY <3>2
    <3>6. QED
      BY <3>1, <3>4, <3>5
  <2>3. QED
    BY <1>0, <2>1, <2>2 DEF Typed, Goes
<1>3. \A o, e : /\ w \notin Publishing(o, e)'
                /\ w \in Publishing(o, e) <=> o = o0 /\ e = e0
  BY <1>1 DEF Publishing
<1>4. ASSUME NEW o, NEW e, o # o0 \/ e # e0
      PROVE  /\ Publishing(o, e)' = Publishing(o, e)
             /\ Cardinality(Publishing(o, e)') = Cardinality(Publishing(o, e))
  <2>1. w \notin Publishing(o, e) /\ w \notin Publishing(o, e)'
    BY <1>3, <1>4
  <2>2. QED
    BY <2>1, GoneOn
<1>5. /\ Cardinality(Publishing(o0, e0)) = Cardinality(Publishing(o0, e0)') + 1
      /\ Cardinality(Publishing(o0, e0)') \in Nat
  <2>1. w \in Publishing(o0, e0) /\ w \notin Publishing(o0, e0)'
    BY <1>3
  <2>2. QED
    BY <2>1, GoneOn
<1>6. /\ \A o \in Orders, e \in Events : sent[o][e] \in Nat
      /\ \A o \in Orders, e \in Events : o # o0 \/ e # e0 =>
           sent'[o][e] = sent[o][e] /\ (e \in lost[o] => e \in lost'[o])
      /\ sent'[o0][e0] \in Nat /\ sent'[o0][e0] <= sent[o0][e0] + 1
      /\ sent'[o0][e0] > 0 \/ e0 \in lost'[o0]
      /\ \A o \in Orders : o # o0 => sent'[o] = sent[o]
  <2>1. /\ \A o \in Orders, e \in Events : sent[o][e] \in Nat
        /\ \A o \in Orders : sent[o] \in [Events -> Nat]
    BY <1>0 DEF Typed
  <2>2. CASE sent' = [sent EXCEPT ![o0][e0] = @ + 1] /\ lost' = lost
    <3>1. \A o \in Orders : sent'[o] = IF o = o0 THEN [sent[o] EXCEPT ![e0] = @ + 1] ELSE sent[o]
      BY <1>0, <2>2 DEF Typed
    <3>2. sent'[o0][e0] = sent[o0][e0] + 1
          /\ \A e \in Events : e # e0 => sent'[o0][e] = sent[o0][e]
      BY <2>1, <3>1, ZenonT(60)
    <3>3. QED
      BY <2>1, <2>2, <3>1, <3>2
  <2>3. CASE sent' = sent /\ lost' = [lost EXCEPT ![o0] = @ \cup {e0}]
    BY <1>0, <2>1, <2>3 DEF Typed
  <2>4. QED
    BY <2>2, <2>3
<1>7. \A o \in Orders, e \in Events : Covered(o, e) => Covered(o, e)'
  <2>1. ASSUME NEW o \in Orders, NEW e \in Events, Covered(o, e)
        PROVE  Covered(o, e)'
    <3>1. CASE o = o0 /\ e = e0
      BY <1>6, <3>1 DEF Covered
    <3>2. CASE o # o0 \/ e # e0
      BY <1>4, <1>6, <2>1, <3>2 DEF Covered
    <3>3. QED
      BY <3>1, <3>2
  <2>2. QED
    BY <2>1
<1>8. Grows
  BY <1>0, <1>7 DEF Grows, Typed
<1>9. \A x \in Workers : JobInv(x)'
  <2>1. job # Idle => Fits(job)'
    BY <1>0, <1>2, <1>8, StillFits
  <2>2. QED
    BY <1>2, <1>8, <2>1, JobsFit
<1>10. Locked'
  BY LockedStays
<1>11. \A o : Cardinality(Inserting(o)') = Cardinality(Inserting(o))
  <2>1. \A o : w \notin Inserting(o) /\ w \notin Inserting(o)'
    BY <1>1 DEF Inserting
  <2>2. QED
    BY <2>1, GoneOn
<1>12. ASSUME NEW o \in Orders
       PROVE  OrderInv(o)'
  <2>1. CASE o # o0
    <3>1. \A e \in Events : Cardinality(Publishing(o, e)') = Cardinality(Publishing(o, e))
      BY <1>4, <2>1
    <3>2. QED
      BY <1>2, <1>6, <1>8, <1>11, <2>1, <3>1, OrderStays
  <2>2. CASE o = o0
    <3>0. OrderInv(o)
      BY <1>0
    <3>1. PrefsInv(o)'
      BY <1>11, <3>0 DEF OrderInv, PrefsInv
    <3>2. RecordedInv(o)'
      <4>1. SUFFICES ASSUME NEW e \in Events
                     PROVE  sent'[o][e] + Cardinality(Publishing(o, e)')
                              <= Cardinality(Written(o, e)')
        BY DEF RecordedInv
      <4>2. /\ Cardinality(Written(o, e)') = Cardinality(Written(o, e))
            /\ sent[o][e] + Cardinality(Publishing(o, e)) <= Cardinality(Written(o, e))
        BY <3>0 DEF OrderInv, RecordedInv, Written
      <4>3. CASE e # e0
        BY <1>4, <1>6, <4>2, <4>3
      <4>4. CASE e = e0
        <5>1. PICK a, b, c, d, n :
                /\ a = Cardinality(Publishing(o0, e0)) /\ b = Cardinality(Publishing(o0, e0)')
                /\ c = Cardinality(Written(o0, e0)) /\ d = sent[o0][e0] /\ n = sent'[o0][e0]
          OBVIOUS
        <5>2. a = b + 1 /\ b \in Nat /\ d \in Nat /\ n \in Nat /\ n <= d + 1 /\ d + a <= c
          BY <1>5, <1>6, <2>2, <4>2, <4>4, <5>1
        <5>3. c \in Nat
          <6>1. PICK f : f = ledger[o0]
            OBVIOUS
          <6>2. f \in Seq(Entry)
            BY <1>0, <6>1 DEF Typed
          <6>3. PICK entry \in Entry : TRUE
            <7>1. [resource |-> NoResource, at |-> 0, status |-> "PENDING"] \in Entry
              BY DEF Entry, PaymentIds, Statuses
            <7>2. QED
              BY <7>1
          <6>4. Cardinality(EntriesOf(f, e0)) \in Nat
            BY <6>2, <6>3, EntryMore
          <6>5. EntriesOf(f, e0) = Written(o0, e0)
            BY <6>1 DEF EntriesOf, Written
          <6>6. QED
            BY <5>1, <6>4, <6>5
        <5>4. n + b <= c
          BY ONLY <5>2, <5>3
        <5>5. QED
          BY <2>2, <4>2, <4>4, <5>1, <5>4
      <4>5. QED
        BY <4>3, <4>4
    <3>3. SucceededInv(o)'
      <4>1. CASE e0 = "payment_succeeded"
        <5>1. jobs[w] \in GoodJob /\ jobs[w].fetched = "APPROVED"
          BY <1>0, <4>1, EventsAre, JobIs
        <5>2. Fits(jobs[w])
          BY <1>0, <5>1 DEF JobInv
        <5>3. mode = "MERCADO_PAGO" => ApprovedFor(o)
          BY <2>2, <5>1, <5>2 DEF Fits, Informed
        <5>4. mode = "MOCK" \/ ApprovedFor(o)
          BY <1>0, <5>3 DEF Typed
        <5>5. QED
          BY <5>4 DEF SucceededInv, ApprovedFor, WasApproved
      <4>2. CASE e0 # "payment_succeeded"
        <5>1. sent'[o]["payment_succeeded"] = sent[o]["payment_succeeded"]
          BY <1>6, <4>2 DEF Events
        <5>2. QED
          BY <3>0, <5>1 DEF OrderInv, SucceededInv, ApprovedFor, WasApproved
      <4>3. QED
        BY <4>1, <4>2
    <3>4. RowInv(o)'
      BY <3>0 DEF OrderInv, RowInv
    <3>5. CoveredInv(o)'
      <4>1. PICK e : e = EventFor(payments[o].status)
        OBVIOUS
      <4>2. e \in Events
        BY <4>1, EventsAre
      <4>3. Covered(o, e) => Covered(o, e)'
        BY <1>7, <4>2
      <4>4. payments[o].status # "NONE" => Covered(o, e)
        BY <3>0, <4>1 DEF OrderInv, CoveredInv
      <4>5. QED
        BY <4>1, <4>3, <4>4 DEF CoveredInv
    <3>6. QED
      BY <3>1, <3>2, <3>3, <3>4, <3>5 DEF OrderInv
  <2>3. QED
    BY <2>1, <2>2
<1>13. \A k \in Keys : KeyInv(k)'
  BY <1>0 DEF KeyInv
<1>14. QED
  BY <1>2, <1>9, <1>10, <1>12, <1>13 DEF IInv

(* The event of a job is published, or its handler is cut off after the    *)
(* COMMIT.                                                                 *)
LEMMA PublishKeeps ==
  ASSUME IInv, NEW w \in Workers,
         Publish(w) \/ (Fail(w) /\ jobs[w].pc = "publish")
  PROVE  IInv'
<1>0. Typed /\ JobInv(w)
  BY DEF IInv
<1>1. jobs[w].pc = "publish" /\ (Publish(w) \/ Fail(w))
  BY DEF Publish
<1>2. jobs[w] \in GoodJob
  BY <1>0, <1>1, JobIs
<1>3. Fits(jobs[w]) /\ jobs[w].order \in Orders
  BY <1>0, <1>1, <1>2 DEF JobInv, GoodJob
<1>4. PICK o0 \in Orders, e0 \in Events :
        o0 = jobs[w].order /\ e0 = EventFor(jobs[w].fetched)
  BY <1>3, EventsAre
<1>5. CASE Publish(w)
  <2>1. PICK job : job = [jobs[w] EXCEPT !.pc = "answer"]
    OBVIOUS
  <2>2. /\ job \in GoodJob /\ job.pc = "answer" /\ job.order = jobs[w].order
        /\ job.kind = jobs[w].kind /\ job.resource = jobs[w].resource
        /\ job.key = jobs[w].key /\ job.change = jobs[w].change
    <3>1. /\ "answer" \in {"find", "provider", "create webhook", "ignore", "fetch", "answer"}
          /\ "answer" \notin Requesting
      BY DEF Requesting
    <3>2. QED
      BY ONLY <1>2, <2>1, <3>1, GoesOn
  <2>3. Fits(job)
    BY <1>1, <1>2, <1>3, <2>2, StillInformed
  <2>4. Goes(w, job)
    BY <1>0, <1>5, <2>1, <2>2, GotoGoes DEF Publish
  <2>5. /\ UNCHANGED <<mode, payments, ledger, webhooks, provider, prefs, abandoned>>
        /\ sent' = [sent EXCEPT ![o0][e0] = @ + 1] /\ lost' = lost
    BY <1>4, <1>5 DEF Publish, database, world, history
  <2>6. QED
    BY <1>1, <1>4, <2>2, <2>3, <2>4, <2>5, SayingKeeps
<1>6. CASE Fail(w)
  <2>1. Goes(w, Idle)
    BY <1>0, <1>6, GotoGoes DEF Fail
  <2>2. Idle.pc = "idle"
    BY DEF Idle
  <2>3. /\ UNCHANGED <<mode, payments, ledger, webhooks, provider, prefs, abandoned>>
        /\ sent' = sent /\ lost' = [lost EXCEPT ![o0] = @ \cup {e0}]
    BY <1>1, <1>4, <1>6 DEF Fail, database, world
  <2>4. QED
    BY <1>1, <1>4, <2>1, <2>2, <2>3, SayingKeeps
<1>7. QED
  BY <1>1, <1>5, <1>6

(* A request that is cut off before its COMMIT.                            *)
LEMMA AbandonKeeps ==
  ASSUME IInv, NEW w \in Workers, Fail(w), jobs[w].pc = "insert"
  PROVE  IInv'
<1>0. /\ Typed /\ Locked /\ JobInv(w) /\ (\A o \in Orders : OrderInv(o))
      /\ \A k \in Keys : KeyInv(k)
  BY DEF IInv
<1>1. jobs[w] \in GoodJob
  BY <1>0, JobIs
<1>2. PICK o0 \in Orders : o0 = jobs[w].order
  BY <1>1 DEF GoodJob, Requesting
<1>3. /\ UNCHANGED <<mode, payments, ledger, webhooks, provider, prefs, sent, lost>>
      /\ abandoned' = [abandoned EXCEPT ![o0] = @ + 1]
  BY <1>2 DEF Fail, database, world
<1>4. Goes(w, Idle)
  BY <1>0, GotoGoes DEF Fail
<1>5. jobs'[w] = Idle /\ Idle.pc = "idle"
  BY <1>4 DEF Goes, Idle
<1>6. Typed'
  <2>1. abandoned' \in [Orders -> Nat]
    BY <1>0, <1>3 DEF Typed
  <2>2. QED
    BY <1>0, <1>3, <1>4, <2>1 DEF Typed, Goes
<1>7. \A o, e : w \notin Publishing(o, e) /\ w \notin Publishing(o, e)'
  BY <1>5 DEF Publishing
<1>8. \A o, e : /\ Publishing(o, e)' = Publishing(o, e)
                /\ Cardinality(Publishing(o, e)') = Cardinality(Publishing(o, e))
  BY <1>4, <1>7, GoneOn
<1>9. \A o, e : Covered(o, e)' <=> Covered(o, e)
  BY <1>3, <1>8 DEF Covered
<1>10. Grows
  BY <1>0, <1>3, <1>9 DEF Grows, Typed
<1>11. \A x \in Workers : JobInv(x)'
  BY <1>4, <1>6, <1>10, JobsFit
<1>12. Locked'
  BY <1>3, <1>4, <1>5, LockedStays
<1>13. ASSUME NEW o \in Orders
       PROVE  OrderInv(o)'
  <2>1. CASE o # o0
    <3>1. w \notin Inserting(o) /\ w \notin Inserting(o)'
      BY <1>2, <1>5, <2>1 DEF Inserting
    <3>2. Cardinality(Inserting(o)') = Cardinality(Inserting(o))
      BY <1>4, <3>1, GoneOn
    <3>3. abandoned'[o] = abandoned[o]
      BY <1>0, <1>3, <2>1 DEF Typed
    <3>4. QED
      BY <1>3, <1>6, <1>8, <1>10, <3>2, <3>3, OrderStays
  <2>2. CASE o = o0
    <3>0. OrderInv(o)
      BY <1>0
    <3>1. w \in Inserting(o) /\ w \notin Inserting(o)'
      BY <1>2, <1>5, <2>2 DEF Inserting
    <3>2. /\ Cardinality(Inserting(o)) = Cardinality(Inserting(o)') + 1
          /\ Cardinality(Inserting(o)') \in Nat
      BY <1>4, <3>1, GoneOn
    <3>3. abandoned'[o] = abandoned[o] + 1 /\ prefs[o] \in Nat /\ abandoned[o] \in Nat
      BY <1>0, <1>3, <2>2 DEF Typed
    <3>4. PrefsInv(o)'
      BY <1>3, <3>0, <3>2, <3>3 DEF OrderInv, PrefsInv
    <3>5. RecordedInv(o)'
      BY <1>3, <1>8, <3>0 DEF OrderInv, RecordedInv, Written
    <3>6. SucceededInv(o)' /\ RowInv(o)'
      BY <1>3, <3>0 DEF OrderInv, SucceededInv, RowInv, ApprovedFor, WasApproved
    <3>7. CoveredInv(o)'
      <4>1. CoveredInv(o)
        BY <3>0 DEF OrderInv
      <4>2. QED
        BY <1>3, <1>9, <4>1 DEF CoveredInv
    <3>8. QED
      BY <3>4, <3>5, <3>6, <3>7 DEF OrderInv
  <2>3. QED
    BY <2>1, <2>2
<1>14. \A k \in Keys : KeyInv(k)'
  BY <1>0, <1>3 DEF KeyInv
<1>15. QED
  BY <1>6, <1>11, <1>12, <1>13, <1>14 DEF IInv

(* What Mercado Pago turns a status into.                                  *)
LEMMA TurnsAre ==
  ASSUME NEW c \in {"none", "authorized", "approved", "rejected", "refunded"}
  PROVE  Turns[c] \subseteq {"authorized", "approved", "rejected", "refunded"}
<1>1. /\ Turns["none"] = {"authorized", "approved", "rejected"}
      /\ Turns["authorized"] = {"approved", "rejected"}
      /\ Turns["approved"] = {"refunded"}
      /\ Turns["rejected"] = {}
      /\ Turns["refunded"] = {}
  BY DEF Turns
<1>2. QED
  BY <1>1

(* A payment changes its status at Mercado Pago.                           *)
LEMMA ChangeKeeps ==
  ASSUME IInv, NEW p \in ProviderPayments, ProviderChanges(p)
  PROVE  IInv'
<1>0. /\ Typed /\ Locked /\ (\A x \in Workers : JobInv(x)) /\ (\A o \in Orders : OrderInv(o))
      /\ \A k \in Keys : KeyInv(k)
  BY DEF IInv
<1>1. UNCHANGED <<mode, payments, ledger, webhooks, prefs, sent, jobs, abandoned, lost>>
      /\ mode = "MERCADO_PAGO"
  BY DEF ProviderChanges, database, history
<1>2. PICK f, n, c : /\ f = provider[p] /\ n = Len(f)
                     /\ c = IF n = 0 THEN "none" ELSE f[n]
  OBVIOUS
<1>3. PICK words : words = {"authorized", "approved", "rejected", "refunded"}
  OBVIOUS
<1>4. f \in Seq(words)
  BY <1>0, <1>2, <1>3 DEF Typed
<1>5. c = "none" \/ c \in words
  BY ONLY <1>2, <1>4
<1>6. PICK s \in Turns[c] : provider' = [provider EXCEPT ![p] = Append(@, s)]
  BY <1>2 DEF ProviderChanges
<1>7. s \in words
  BY <1>3, <1>5, <1>6, TurnsAre
<1>8. PICK g : g = Append(f, s)
  OBVIOUS
<1>9. /\ g \in Seq(words) /\ Len(f) <= Len(g)
      /\ \A i \in DOMAIN f : g[i] = f[i]
  BY ONLY <1>4, <1>7, <1>8
<1>10. provider' = [provider EXCEPT ![p] = g]
  BY <1>2, <1>6, <1>8
<1>11. Typed'
  <2>1. provider' \in [ProviderPayments -> Seq(words)]
    BY <1>0, <1>3, <1>9, <1>10 DEF Typed
  <2>2. mode' # "MOCK"
    BY <1>1
  <2>3. QED
    BY <1>0, <1>1, <1>3, <2>1, <2>2 DEF Typed
<1>12. \A o, e : Publishing(o, e)' = Publishing(o, e) /\ Inserting(o)' = Inserting(o)
  BY <1>1 DEF Publishing, Inserting
<1>13. \A o, e : Covered(o, e) => Covered(o, e)'
  BY <1>1, <1>12 DEF Covered
<1>14. Grows
  <2>1. ASSUME NEW q \in ProviderPayments
        PROVE  /\ Len(provider[q]) <= Len(provider'[q])
               /\ \A i \in DOMAIN provider[q] : provider'[q][i] = provider[q][i]
    <3>1. CASE q = p
      <4>1. provider'[q] = g /\ provider[q] = f
        BY <1>0, <1>2, <1>10, <3>1 DEF Typed
      <4>2. QED
        BY <1>9, <4>1
    <3>2. CASE q # p
      <4>1. provider'[q] = provider[q] /\ Len(provider[q]) \in Nat
        BY <1>0, <1>10, <3>2 DEF Typed
      <4>2. QED
        BY <4>1
    <3>3. QED
      BY <3>1, <3>2
  <2>2. QED
    BY <1>1, <1>13, <2>1 DEF Grows
<1>15. \A x \in Workers : JobInv(x)'
  BY <1>0, <1>1, <1>11, <1>14, OthersFit
<1>16. Locked'
  BY <1>0, <1>1 DEF Locked, HoldsLock
<1>17. ASSUME NEW o \in Orders
       PROVE  OrderInv(o)'
  <2>1. /\ Cardinality(Inserting(o)') = Cardinality(Inserting(o))
        /\ \A e \in Events : Cardinality(Publishing(o, e)') = Cardinality(Publishing(o, e))
    BY <1>12
  <2>2. QED
    BY <1>1, <1>11, <1>14, <2>1, OrderStays
<1>18. \A k \in Keys : KeyInv(k)'
  BY <1>0, <1>1 DEF KeyInv
<1>19. QED
  BY <1>11, <1>15, <1>16, <1>17, <1>18 DEF IInv

-----------------------------------------------------------------------------
(* The invariant, and what follows from it                                 *)

(* The invariant holds at first.                                           *)
LEMMA InitIInv ==
  ASSUME Init
  PROVE  IInv
<1>1. Typed
  BY DEF Init, Typed, NoPayment, Row, PaymentIds
<1>2. \A w \in Workers : jobs[w].pc = "idle"
  BY DEF Init, Idle
<1>3. Locked
  BY <1>2 DEF Locked, HoldsLock
<1>4. \A w \in Workers : JobInv(w)
  <2>1. \A job \in GoodJob : job.pc # "idle"
    BY DEF GoodJob, Job
  <2>2. QED
    BY <1>2, <2>1 DEF JobInv
<1>5. ASSUME NEW o \in Orders
      PROVE  OrderInv(o)
  <2>1. payments[o].status = "NONE" /\ payments[o].providerPaymentId = NoResource
    BY DEF Init, NoPayment
  <2>2. /\ Cardinality(Inserting(o)) = 0
        /\ \A e : Cardinality(Publishing(o, e)) = 0
    <3>1. Inserting(o) = {} /\ \A e : Publishing(o, e) = {}
      BY <1>2 DEF Inserting, Publishing
    <3>2. QED
      BY <3>1, FS_EmptySet
  <2>3. \A e \in Events : Cardinality(Written(o, e)) = 0
    <3>1. \A e : Written(o, e) = {}
      BY DEF Init, Written
    <3>2. QED
      BY <3>1, FS_EmptySet
  <2>4. prefs[o] = 0 /\ abandoned[o] = 0 /\ \A e \in Events : sent[o][e] = 0
    BY DEF Init
  <2>5. PrefsInv(o)
    BY <2>1, <2>2, <2>4 DEF PrefsInv
  <2>6. RecordedInv(o)
    BY <2>2, <2>3, <2>4 DEF RecordedInv
  <2>7. SucceededInv(o)
    BY <2>4 DEF SucceededInv, Events
  <2>8. CoveredInv(o)
    BY <2>1 DEF CoveredInv
  <2>9. RowInv(o)
    BY <2>1, ReferenceAssumption DEF RowInv
  <2>10. QED
    BY <2>5, <2>6, <2>7, <2>8, <2>9 DEF OrderInv
<1>6. \A k \in Keys : KeyInv(k)
  BY DEF Init, KeyInv
<1>7. QED
  BY <1>1, <1>3, <1>4, <1>5, <1>6 DEF IInv

(* Every step of a handler keeps the invariant.                            *)
LEMMA HandlerKeeps ==
  ASSUME IInv, NEW w \in Workers, Proceed(w) \/ Fail(w)
  PROVE  IInv'
<1>1. CASE \/ LockPaymentOrder(w) \/ FindPayment(w)
           \/ FindWebhook(w) \/ CreateWebhook(w) \/ MarkWebhookIgnored(w)
           \/ FindForSync(w) \/ FetchStatus(w) \/ FetchMockStatus(w) \/ ReadPayment(w)
  <2>1. PICK job : Silent(w, job)
    BY <1>1, LockIs, WebhookIs, SyncIs, FetchIs, ReadIs
  <2>2. QED
    BY <2>1, SilentKeeps
<1>2. CASE \/ RejectStatus(w) \/ Finish(w)
           \/ Fail(w) /\ jobs[w].pc \notin {"insert", "publish"}
  BY <1>2, StopIs, SilentKeeps
<1>3. CASE InsertPayment(w) \/ Apply(w)
  BY <1>3, InsertKeeps, ApplyKeeps
<1>4. ASSUME NEW s \in Statuses, CreatePaymentPreference(w, s)
      PROVE  IInv'
  BY <1>4, AskKeeps
<1>5. CASE Publish(w) \/ (Fail(w) /\ jobs[w].pc = "publish")
  BY <1>5, PublishKeeps
<1>6. CASE Fail(w) /\ jobs[w].pc = "insert"
  BY <1>6, AbandonKeeps
<1>7. CASE Proceed(w)
  BY ONLY <1>1, <1>2, <1>3, <1>4, <1>5, <1>7 DEF Proceed
<1>8. CASE Fail(w)
  BY <1>2, <1>5, <1>6, <1>8
<1>9. QED
  BY <1>7, <1>8

(* The invariant is kept by every step.                                    *)
LEMMA NextIInv ==
  ASSUME IInv, [Next]_vars
  PROVE  IInv'
<1>1. CASE UNCHANGED vars
  <2>0. UNCHANGED <<mode, payments, ledger, webhooks, provider, prefs, sent, jobs, abandoned, lost>>
    BY <1>1 DEF vars
  <2>1. Typed'
    BY <2>0 DEF IInv, Typed
  <2>2. Locked'
    BY <2>0 DEF IInv, Locked, HoldsLock
  <2>3. \A o, e : Publishing(o, e)' = Publishing(o, e) /\ Inserting(o)' = Inserting(o)
    BY <2>0 DEF Publishing, Inserting
  <2>4. Grows
    BY <2>0, <2>3 DEF IInv, Typed, Grows, Covered
  <2>5. \A x \in Workers : JobInv(x)'
    BY <2>0, <2>1, <2>4, OthersFit DEF IInv
  <2>6. \A o \in Orders : OrderInv(o)'
    BY <2>0, <2>1, <2>3, <2>4, OrderStays
  <2>7. \A k \in Keys : KeyInv(k)'
    BY <2>0 DEF IInv, KeyInv
  <2>8. QED
    BY <2>1, <2>2, <2>5, <2>6, <2>7 DEF IInv
<1>2. ASSUME NEW w \in Workers, Proceed(w) \/ Fail(w)
      PROVE  IInv'
  BY <1>2, HandlerKeeps
<1>3. ASSUME NEW w \in Workers,
             \/ \E o \in Orders : RequestPayment(w, o)
             \/ \E p \in ProviderPayments : \E n \in 1..MaxChanges[p] : ProcessWebhook(w, p, n)
             \/ ProcessWebhook(w, NoResource, 0)
             \/ \E o \in Orders, p \in ProviderPayments \cup {NoResource} :
                  SyncPaymentStatus(w, o, p)
      PROVE  IInv'
  <2>1. PICK job : Silent(w, job)
    BY <1>3, StartsAre
  <2>2. QED
    BY <2>1, SilentKeeps
<1>4. ASSUME NEW p \in ProviderPayments, ProviderChanges(p)
      PROVE  IInv'
  BY <1>4, ChangeKeeps
<1>5. QED
  BY <1>1, <1>2, <1>3, <1>4 DEF Next

(* The invariant of payment-service.                                       *)
THEOREM IInvAlways == Spec => []IInv
<1>1. Init => IInv
  BY InitIInv
<1>2. IInv /\ [Next]_vars => IInv'
  BY NextIInv
<1>3. QED
  BY <1>1, <1>2, PTL DEF Spec

(* One checkout per order: each preference that the provider was asked for *)
(* is the stored one, or the one of the request that holds the lock, or    *)
(* was left behind by a request that was cut off before its COMMIT.        *)
THEOREM OneCheckoutPerOrder == Spec => []PreferencesAccounted
<1>1. IInv => PreferencesAccounted
  BY DEF IInv, OrderInv, PrefsInv, PreferencesAccounted, Inserting
<1>2. QED
  BY <1>1, IInvAlways, PTL

(* Each publication of an event, and each one to come, has a row of        *)
(* payment_events of its own.                                              *)
THEOREM NothingIsAnnouncedTwice == Spec => []AnnouncedAsRecorded
<1>1. IInv => AnnouncedAsRecorded
  BY DEF IInv, OrderInv, RecordedInv, AnnouncedAsRecorded
<1>2. QED
  BY <1>1, IInvAlways, PTL

(* A payment is announced as succeeded only if Mercado Pago approved one   *)
(* of the order's payments.                                                *)
THEOREM SuccessIsTheProviders == Spec => []SucceededMeansApproved
<1>1. ASSUME IInv, NEW o \in Orders, sent[o]["payment_succeeded"] > 0, mode # "MOCK"
      PROVE  \E p \in Created(o) : \E i \in DOMAIN provider[p] : provider[p][i] = "approved"
  <2>1. ApprovedFor(o) /\ Typed
    BY <1>1 DEF IInv, OrderInv, SucceededInv
  <2>2. PICK p \in ProviderPayments : Reference[p] = o /\ WasApproved(p)
    BY <2>1 DEF ApprovedFor
  <2>3. PICK i \in DOMAIN provider[p] : provider[p][i] = "approved"
    BY <2>2 DEF WasApproved
  <2>4. provider[p] # <<>>
    <3>1. DOMAIN <<>> = {}
      OBVIOUS
    <3>2. QED
      BY <2>3, <3>1
  <2>5. p \in Created(o)
    BY <2>2, <2>4 DEF Created
  <2>6. QED
    BY <2>3, <2>5
<1>2. IInv => SucceededMeansApproved
  BY <1>1 DEF SucceededMeansApproved
<1>3. QED
  BY <1>2, IInvAlways, PTL

(* The event of the status a row shows was published, is to be, or was     *)
(* lost with a handler that was cut off after its COMMIT.                  *)
THEOREM ShownIsAnnounced == Spec => []AnnouncedUnlessLost
<1>1. IInv => AnnouncedUnlessLost
  BY DEF IInv, OrderInv, CoveredInv, Covered, AnnouncedUnlessLost
<1>2. QED
  BY <1>1, IInvAlways, PTL

(* A webhook's row says PROCESSED only when a status that the provider     *)
(* reported at that change or later was written to a payment.              *)
THEOREM ProcessedWasApplied == Spec => []ProcessedMeansApplied
<1>1. IInv => ProcessedMeansApplied
  BY DEF IInv, KeyInv, ProcessedMeansApplied
<1>2. QED
  BY <1>1, IInvAlways, PTL
=============================================================================
