------------------------------ MODULE Payment ------------------------------
(***************************************************************************)
(* payment-service: a payment row per order, requested under an advisory   *)
(* lock, and brought up to date by webhooks and by synchronisation.  A job *)
(* is one run of a handler of PaymentService.  The status that a webhook   *)
(* or a synchronisation applies is fetched before the transaction that     *)
(* writes it, the row is read without a lock, and the event is published   *)
(* after the COMMIT.                                                       *)
(*                                                                         *)
(* Mercado Pago is the environment: once an order has a checkout URL,      *)
(* payments (attempts to pay) appear for it and change their status; each  *)
(* change is notified by a webhook that comes any number of times, at any  *)
(* later time, in any order.  Notifications of other resources come too.   *)
(* The events webhook_received and webhook_processed have no consumer.     *)
(***************************************************************************)
EXTENDS Integers, Sequences, FiniteSets

CONSTANTS Orders,           \* orders
          ProviderPayments, \* payments at Mercado Pago, numbered as created
          Reference,        \* Reference[p]: p's external reference
          Elsewhere,        \* the reference of a payment made for others
          NoResource,       \* a notification that names no payment
          Workers,          \* handlers that may run at once
          MaxChanges,       \* bound: the statuses p goes through
          MaxJobs           \* bound: handlers started in a behaviour

ASSUME ReferenceAssumption ==
  /\ ProviderPayments \subseteq Nat
  /\ Reference \in [ProviderPayments -> Orders \cup {Elsewhere}]
  /\ Elsewhere \notin Orders /\ NoResource \notin Nat
  /\ MaxChanges \in [ProviderPayments -> Nat] /\ IsFiniteSet(Workers)

VARIABLES mode,      \* the configured provider; never changes
          payments,  \* payments[o]: the row of order o
          ledger,    \* ledger[o]: payment_events, one per status written
          webhooks,  \* webhook_events: the status of the row of each key
          provider,  \* provider[p]: the statuses p has had at Mercado Pago
          prefs,     \* prefs[o]: preferences the provider was asked for
          sent,      \* sent[o][m]: how often an event was published
          jobs,      \* what each worker is doing
          started,   \* handlers started so far
          heard,     \* heard[p]: changes of p whose webhook was answered
          abandoned, \* abandoned[o]: requests cut off after the provider's call
          lost       \* lost[o]: events of o whose handler was cut off

vars == <<mode, payments, ledger, webhooks, provider, prefs, sent, jobs,
          started, heard, abandoned, lost>>

(* CANCELLED and EXPIRED are handled as REJECTED is, IN_PROCESS as PENDING. *)
Statuses == {"PENDING", "APPROVED", "REJECTED", "REFUNDED"}
Events   == {"payment_succeeded", "payment_failed", "preference_created"}
Keys     == [resource : ProviderPayments, action : {"created", "updated"}]
            \cup {[resource |-> NoResource, action |-> "created"]}

(* The mock's payment of an order has the order's name as its identifier.  *)
PaymentIds == ProviderPayments \cup Orders \cup {NoResource}

NoPayment == [status |-> "NONE", providerPaymentId |-> NoResource]
Idle      == [pc |-> "idle"]

Init == /\ mode \in {"MOCK", "MERCADO_PAGO"}
        /\ payments  = [o \in Orders |-> NoPayment]
        /\ ledger    = [o \in Orders |-> <<>>]
        /\ webhooks  = [k \in Keys |-> "NONE"]
        /\ provider  = [p \in ProviderPayments |-> <<>>]
        /\ prefs     = [o \in Orders |-> 0]
        /\ sent      = [o \in Orders |-> [m \in Events |-> 0]]
        /\ jobs      = [w \in Workers |-> Idle]
        /\ started   = 0
        /\ heard     = [p \in ProviderPayments |-> {}]
        /\ abandoned = [o \in Orders |-> 0]
        /\ lost      = [o \in Orders |-> {}]

-----------------------------------------------------------------------------
(* Statuses, events and keys                                               *)

(* What a payment's status at Mercado Pago is called here.                 *)
Named == [approved |-> "APPROVED", rejected |-> "REJECTED",
          refunded |-> "REFUNDED"]

MapMercadoPagoStatus(status) ==
  IF status \in DOMAIN Named THEN Named[status] ELSE "PENDING"

(* isTerminalPaymentStatus                                                 *)
IsTerminal(status) == status \in {"APPROVED", "REJECTED", "REFUNDED"}

(* createEventForPayment: with Mercado Pago the row has a preference and a *)
(* checkout URL, so payment_pending is never chosen.                       *)
EventFor(status) == CASE status = "APPROVED" -> "payment_succeeded"
                      [] status = "REJECTED" -> "payment_failed"
                      [] OTHER               -> "preference_created"

(* deduplicationKey of the notification of a payment's n-th change.        *)
DeduplicationKey(p, n) ==
  [resource |-> p, action |-> IF n <= 1 THEN "created" ELSE "updated"]

(* The rows that a payment at the provider is found to belong to.          *)
RowsOf(p) == {o \in Orders : /\ payments[o].status # "NONE"
                             /\ \/ payments[o].providerPaymentId = p
                                \/ p \in ProviderPayments /\ Reference[p] = o}

Created(o) == {p \in ProviderPayments : Reference[p] = o /\ provider[p] # <<>>}

Latest(S) == CHOOSE p \in S : \A q \in S : q <= p

-----------------------------------------------------------------------------
(* Jobs                                                                    *)

database == <<payments, ledger, webhooks>>
world    == <<mode, provider, prefs, heard>>
history  == <<started, abandoned, lost>>

Goto(w, job) == jobs' = [jobs EXCEPT ![w] = job]

NewJob(kind, pc, o, p, n) ==
  [kind |-> kind, pc |-> pc, order |-> o, resource |-> p, change |-> n,
   key |-> IF kind = "webhook" THEN DeduplicationKey(p, n)
           ELSE [resource |-> NoResource, action |-> "created"],
   fetched |-> "NONE", at |-> 0, found |-> "NONE"]

Start(w, kind, pc, o, p, n) ==
  /\ jobs[w].pc = "idle"
  /\ started < MaxJobs
  /\ started' = started + 1
  /\ Goto(w, NewJob(kind, pc, o, p, n))
  /\ UNCHANGED <<database, world, sent, abandoned, lost>>

RequestPayment(w, o) == Start(w, "request", "lock", o, NoResource, 0)

(* The n-th change of p is notified, or something that is no payment.      *)
ProcessWebhook(w, p, n) ==
  /\ p # NoResource => n <= Len(provider[p])
  /\ Start(w, "webhook", "find webhook",
           IF p = NoResource THEN Elsewhere ELSE Reference[p], p, n)

(* The customer comes back with a payment id, or with the order's only.    *)
SyncPaymentStatus(w, o, p) ==
  /\ p \in Created(o) \cup {NoResource}
  /\ Start(w, "sync", "find payment", o, p, 0)

(* The webhook's request gets an answer that is no error: Mercado Pago     *)
(* will not notify the change again.                                       *)
Answer(w) ==
  /\ Goto(w, Idle)
  /\ heard' = IF jobs[w].kind = "webhook" /\ jobs[w].resource # NoResource
              THEN [heard EXCEPT ![jobs[w].resource] = @ \cup {jobs[w].change}]
              ELSE heard

-----------------------------------------------------------------------------
(* processPayment                                                          *)

HoldsLock(w, o) == /\ jobs[w].pc \in {"find", "provider", "insert"}
                   /\ jobs[w].order = o

(* mutant: no advisory lock.                                               *)
EnterUnlocked(w) ==
  /\ jobs[w].pc = "lock"
  /\ Goto(w, [jobs[w] EXCEPT !.pc = "find"])
  /\ UNCHANGED <<database, world, sent, history>>

(* pg_advisory_xact_lock, until the transaction ends.                      *)
LockPaymentOrder(w) ==
  /\ jobs[w].pc = "lock"
  /\ \A x \in Workers \ {w} : ~HoldsLock(x, jobs[w].order)
  /\ Goto(w, [jobs[w] EXCEPT !.pc = "find"])
  /\ UNCHANGED <<database, world, sent, history>>

(* mutant: a payment that exists is announced again.                       *)
FindAndAnnounce(w) ==
  LET row == payments[jobs[w].order] IN
  /\ jobs[w].pc = "find"
  /\ Goto(w, IF row.status = "NONE" THEN [jobs[w] EXCEPT !.pc = "provider"]
             ELSE [jobs[w] EXCEPT !.pc = "publish", !.fetched = row.status])
  /\ UNCHANGED <<database, world, sent, history>>

FindPayment(w) ==
  /\ jobs[w].pc = "find"
  /\ Goto(w, IF payments[jobs[w].order].status = "NONE"
             THEN [jobs[w] EXCEPT !.pc = "provider"]
             ELSE Idle)
  /\ UNCHANGED <<database, world, sent, history>>

(* The mock decides at once; Mercado Pago creates a preference.            *)
CreatePaymentPreference(w, status) ==
  /\ jobs[w].pc = "provider"
  /\ status \in IF mode = "MOCK" THEN {"APPROVED", "REJECTED"} ELSE {"PENDING"}
  /\ prefs' = [prefs EXCEPT ![jobs[w].order] = @ + 1]
  /\ Goto(w, [jobs[w] EXCEPT !.pc = "insert", !.fetched = status])
  /\ UNCHANGED <<database, mode, provider, heard, sent, history>>

(* INSERT and COMMIT; order_id is unique.                                  *)
InsertPayment(w) ==
  LET o == jobs[w].order
      s == jobs[w].fetched
  IN /\ jobs[w].pc = "insert"
     /\ IF payments[o].status # "NONE"
        THEN Goto(w, Idle) /\ UNCHANGED database
        ELSE /\ payments' = [payments EXCEPT ![o] =
                  [status |-> s, providerPaymentId |->
                                   IF mode = "MOCK" THEN o ELSE NoResource]]
             /\ ledger' = [ledger EXCEPT ![o] =
                  Append(@, [resource |-> NoResource, at |-> 0, status |-> s])]
             /\ Goto(w, [jobs[w] EXCEPT !.pc = "publish"])
             /\ UNCHANGED webhooks
     /\ UNCHANGED <<world, sent, history>>

-----------------------------------------------------------------------------
(* processWebhook, before it applies the status                            *)

Resource(k) == IF k.resource = NoResource THEN "ignore" ELSE "fetch"

FindWebhook(w) ==
  LET status == webhooks[jobs[w].key] IN
  /\ jobs[w].pc = "find webhook"
  /\ IF status \in {"PROCESSED", "IGNORED"}
     THEN Answer(w)
     ELSE /\ Goto(w, [jobs[w] EXCEPT !.pc =
                        IF status = "NONE" THEN "create webhook"
                        ELSE Resource(jobs[w].key)])
          /\ UNCHANGED heard
  /\ UNCHANGED <<database, mode, provider, prefs, sent, history>>

(* mutant: the row is marked before the status is applied.                 *)
CreateProcessed(w) ==
  /\ jobs[w].pc = "create webhook"
  /\ webhooks' = [webhooks EXCEPT ![jobs[w].key] = "PROCESSED"]
  /\ Goto(w, [jobs[w] EXCEPT !.pc = Resource(jobs[w].key)])
  /\ UNCHANGED <<payments, ledger, world, sent, history>>

(* deduplication_key is unique: the second of two inserts is an error.     *)
CreateWebhook(w) ==
  /\ jobs[w].pc = "create webhook"
  /\ IF webhooks[jobs[w].key] = "NONE"
     THEN /\ webhooks' = [webhooks EXCEPT ![jobs[w].key] = "RECEIVED"]
          /\ Goto(w, [jobs[w] EXCEPT !.pc = Resource(jobs[w].key)])
     ELSE Goto(w, Idle) /\ UNCHANGED webhooks
  /\ UNCHANGED <<payments, ledger, world, sent, history>>

MarkWebhookIgnored(w) ==
  /\ jobs[w].pc = "ignore"
  /\ webhooks' = [webhooks EXCEPT ![jobs[w].key] = "IGNORED"]
  /\ Answer(w)
  /\ UNCHANGED <<payments, ledger, mode, provider, prefs, sent, history>>

-----------------------------------------------------------------------------
(* syncPaymentStatus, before it applies the status                         *)

FindForSync(w) ==
  LET row == payments[jobs[w].order] IN
  /\ jobs[w].pc = "find payment"
  /\ Goto(w, IF row.status = "NONE" THEN Idle
             ELSE [jobs[w] EXCEPT !.pc = "fetch",
                     !.resource = IF @ # NoResource THEN @
                                  ELSE row.providerPaymentId])
  /\ UNCHANGED <<database, world, sent, history>>

-----------------------------------------------------------------------------
(* getPaymentStatus of the configured provider                             *)

(* The payments that are asked for: the one that is named, or the latest   *)
(* of the order's.  There is none when Mercado Pago knows no such payment. *)
Asked(job) == IF job.resource = NoResource
              THEN {p \in Created(job.order) : p = Latest(Created(job.order))}
              ELSE {job.resource} \cap ProviderPayments

(* mutant: the status is taken from the notification.                      *)
FetchNamed(w) ==
  /\ jobs[w].pc = "fetch"
  /\ mode = "MERCADO_PAGO"
  /\ \E p \in Asked(jobs[w]) :
       Goto(w, [jobs[w] EXCEPT !.pc = "read", !.resource = p,
                  !.at = Len(provider[p]),
                  !.fetched = IF jobs[w].key.action = "updated" THEN "APPROVED"
                              ELSE "PENDING"])
  /\ UNCHANGED <<database, world, sent, history>>

FetchStatus(w) ==
  /\ jobs[w].pc = "fetch"
  /\ mode = "MERCADO_PAGO"
  /\ \E p \in Asked(jobs[w]) :
       LET n == Len(provider[p])
       IN Goto(w, [jobs[w] EXCEPT !.pc = "read", !.resource = p, !.at = n,
                     !.fetched = MapMercadoPagoStatus(provider[p][n])])
  /\ UNCHANGED <<database, world, sent, history>>

(* The mock approves whatever it is asked about.                           *)
FetchMockStatus(w) ==
  /\ jobs[w].pc = "fetch"
  /\ mode = "MOCK"
  /\ Goto(w, [jobs[w] EXCEPT !.pc = "read", !.fetched = "APPROVED"])
  /\ UNCHANGED <<database, world, sent, history>>

-----------------------------------------------------------------------------
(* applyProviderStatus                                                     *)

SetWebhook(w, status) ==
  webhooks' = IF jobs[w].kind = "webhook"
              THEN [webhooks EXCEPT ![jobs[w].key] = status] ELSE webhooks

(* findFirst, without a lock.                                              *)
ReadPayment(w) ==
  /\ jobs[w].pc = "read"
  /\ \E o \in RowsOf(jobs[w].resource) :
       Goto(w, [jobs[w] EXCEPT !.pc = "apply", !.order = o,
                               !.found = payments[o].status])
  /\ UNCHANGED <<database, world, sent, history>>

(* No row: the webhook's row is marked and its request ends in an error.   *)
RejectStatus(w) ==
  /\ jobs[w].pc = "read"
  /\ RowsOf(jobs[w].resource) = {}
  /\ SetWebhook(w, "IGNORED")
  /\ Goto(w, Idle)
  /\ UNCHANGED <<payments, ledger, world, sent, history>>

(* mutant: a payment in a final status announces nothing.                  *)
OnlyUnsettled(job) == ~IsTerminal(job.found)

Announces(job) == ~(IsTerminal(job.found) /\ job.found = job.fetched)

(* UPDATE, the webhook's row, the row of payment_events, and COMMIT.       *)
Apply(w) ==
  LET job == jobs[w] IN
  /\ job.pc = "apply"
  /\ payments' = [payments EXCEPT ![job.order] =
       [status |-> job.fetched, providerPaymentId |-> job.resource]]
  /\ SetWebhook(w, "PROCESSED")
  /\ ledger' = [ledger EXCEPT ![job.order] =
       Append(@, [resource |-> job.resource, at |-> job.at,
                  status |-> job.fetched])]
  /\ Goto(w, [job EXCEPT !.pc = IF Announces(job) THEN "publish" ELSE "answer"])
  /\ UNCHANGED <<world, sent, history>>

Publish(w) ==
  /\ jobs[w].pc = "publish"
  /\ sent' = [sent EXCEPT ![jobs[w].order][EventFor(jobs[w].fetched)] = @ + 1]
  /\ Goto(w, [jobs[w] EXCEPT !.pc = "answer"])
  /\ UNCHANGED <<database, world, history>>

Finish(w) ==
  /\ jobs[w].pc = "answer"
  /\ Answer(w)
  /\ UNCHANGED <<database, mode, provider, prefs, sent, history>>

-----------------------------------------------------------------------------
(* The environment                                                         *)

(* A call to a provider, the database or the broker fails, or the process  *)
(* stops: the transaction is rolled back, and nothing resumes the handler. *)
Fail(w) ==
  LET job == jobs[w] IN
  /\ job.pc # "idle"
  /\ Goto(w, Idle)
  /\ abandoned' = IF job.pc = "insert"
                  THEN [abandoned EXCEPT ![job.order] = @ + 1] ELSE abandoned
  /\ lost' = IF job.pc = "publish"
             THEN [lost EXCEPT ![job.order] = @ \cup {EventFor(job.fetched)}]
             ELSE lost
  /\ UNCHANGED <<database, world, sent, started>>

(* What Mercado Pago may turn a status into; pending and in_process change *)
(* as authorized does, cancelled and expired as rejected, and charged_back *)
(* as refunded.                                                            *)
Turns == [none       |-> {"authorized", "approved", "rejected"},
          authorized |-> {"approved", "rejected"},
          approved   |-> {"refunded"},
          rejected   |-> {},
          refunded   |-> {}]

(* A payment is made through the checkout URL of the order's row, or is    *)
(* somebody else's; identifiers grow.                                      *)
ProviderChanges(p) ==
  LET n == Len(provider[p])
      current == IF n = 0 THEN "none" ELSE provider[p][n]
  IN /\ mode = "MERCADO_PAGO"
     /\ n < MaxChanges[p]
     /\ n = 0 => \A q \in ProviderPayments : q > p => provider[q] = <<>>
     /\ Reference[p] \in Orders => payments[Reference[p]].status # "NONE"
     /\ \E s \in Turns[current] :
          provider' = [provider EXCEPT ![p] = Append(@, s)]
     /\ UNCHANGED <<database, mode, prefs, heard, sent, jobs, history>>

-----------------------------------------------------------------------------
Proceed(w) ==
  \/ LockPaymentOrder(w) \/ FindPayment(w) \/ InsertPayment(w)
  \/ \E status \in Statuses : CreatePaymentPreference(w, status)
  \/ FindWebhook(w) \/ CreateWebhook(w) \/ MarkWebhookIgnored(w)
  \/ FindForSync(w) \/ FetchStatus(w) \/ FetchMockStatus(w)
  \/ ReadPayment(w) \/ RejectStatus(w) \/ Apply(w) \/ Publish(w) \/ Finish(w)

Next ==
  \/ \E w \in Workers :
       \/ Proceed(w) \/ Fail(w)
       \/ \E o \in Orders : RequestPayment(w, o)
       \/ \E p \in ProviderPayments : \E n \in 1..MaxChanges[p] :
            ProcessWebhook(w, p, n)
       \/ ProcessWebhook(w, NoResource, 0)
       \/ \E o \in Orders, p \in ProviderPayments \cup {NoResource} :
            SyncPaymentStatus(w, o, p)
  \/ \E p \in ProviderPayments : ProviderChanges(p)

Spec == Init /\ [][Next]_vars

-----------------------------------------------------------------------------
(* Properties                                                              *)

(* One checkout per order: however often and however concurrently a        *)
(* payment is requested, a preference that the provider was asked for is   *)
(* the stored one, or the one of the request that holds the lock now, or   *)
(* was left behind by a request that was cut off before its COMMIT.        *)
PreferencesAccounted ==
  \A o \in Orders :
    prefs[o] = abandoned[o]
               + Cardinality({w \in Workers : jobs[w].pc = "insert"
                                              /\ jobs[w].order = o})
               + (IF payments[o].status = "NONE" THEN 0 ELSE 1)

Written(o, e) == {i \in DOMAIN ledger[o] : EventFor(ledger[o][i].status) = e}

Publishing(o, e) == {w \in Workers : /\ jobs[w].pc = "publish"
                                     /\ jobs[w].order = o
                                     /\ EventFor(jobs[w].fetched) = e}

(* Nothing is announced that was not written: each publication of an event *)
(* and each one still to come has a row of payment_events of its own, so a *)
(* repeated request, and a webhook that was processed, announce nothing.   *)
AnnouncedAsRecorded ==
  \A o \in Orders, e \in Events :
    sent[o][e] + Cardinality(Publishing(o, e)) <= Cardinality(Written(o, e))

(* A payment is announced as succeeded only if the provider approved one   *)
(* of the order's payments, whatever the notifications said and in what    *)
(* order they came.                                                        *)
SucceededMeansApproved ==
  \A o \in Orders :
    sent[o]["payment_succeeded"] > 0 =>
      \/ mode = "MOCK"
      \/ \E p \in Created(o) : \E i \in DOMAIN provider[p] :
           provider[p][i] = "approved"

(* Whichever of two overlapping handlers writes a status last, the event   *)
(* of the status a row shows was published or is about to be, unless the   *)
(* handler that had to publish it was cut off after its COMMIT.            *)
AnnouncedUnlessLost ==
  \A o \in Orders :
    LET e == EventFor(payments[o].status)
    IN payments[o].status # "NONE" =>
         sent[o][e] > 0 \/ Publishing(o, e) # {} \/ e \in lost[o]

FirstChange(k) == IF k.action = "created" THEN 1 ELSE 2

(* A webhook's row says PROCESSED only when a status that the provider     *)
(* reported at that change or later was written to a payment.              *)
ProcessedMeansApplied ==
  \A k \in Keys :
    webhooks[k] = "PROCESSED" =>
      \E o \in Orders : \E i \in DOMAIN ledger[o] :
        ledger[o][i].resource = k.resource /\ ledger[o][i].at >= FirstChange(k)
=============================================================================
