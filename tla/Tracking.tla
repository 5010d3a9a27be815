------------------------------ MODULE Tracking ------------------------------
(***************************************************************************)
(* What the customer sees of a checkout: the page that Mercado Pago sends  *)
(* the browser back to, and the page of an order.  Both ask order-service  *)
(* for the order every 2 s until they show a final status, and ask         *)
(* payment-service to look at the provider.  One query per order is under  *)
(* way at a time: React Query drops the answer of one it starts anew.      *)
(***************************************************************************)
EXTENDS Saga

CONSTANT MaxFailures \* bound: requests of the browser that fail

ASSUME TrackingAssumption == MaxFailures \in Nat

VARIABLES page,      \* "none", "return" or "order": the page that is open
          shown,     \* the status it shows
          poll,      \* the query: "idle", "asked", or the answer on its way
          sync,      \* POST /payments/sync-status: "idle", "asked", "done"
          throttled, \* whether the page of the order has sent that request
          failures   \* failed requests so far

webVars == <<page, shown, poll, sync, throttled, failures>>
vars    == <<sagaVars, webVars>>

Init == /\ SagaInit
        /\ page      = [o \in Orders |-> "none"]
        /\ shown     = [o \in Orders |-> "none"]
        /\ poll      = [o \in Orders |-> "idle"]
        /\ sync      = [o \in Orders |-> "idle"]
        /\ throttled = [o \in Orders |-> FALSE]
        /\ failures  = 0

(* TERMINAL_ORDER_STATUSES                                                 *)
IsFinal(status) ==
  status \in {"CANCELLED", "CONFIRMED", "DELIVERED", "FAILED", "REFUNDED"}

(* mutant: a pending payment ends the polling.                             *)
AsksUntilPending(o) ==
  /\ page[o] # "none"
  /\ poll[o] = "idle"
  /\ shown[o] # "PAYMENT_PENDING" /\ ~IsFinal(shown[o])

RequestFails == failures < MaxFailures /\ failures' = failures + 1

(* refetchInterval                                                         *)
Asks(o) == page[o] # "none" /\ poll[o] = "idle" /\ ~IsFinal(shown[o])

-----------------------------------------------------------------------------

(* Mercado Pago sends the browser back: a new document, which asks once    *)
(* for the payment to be looked at.                                        *)
ReturnFromProvider(o) ==
  /\ session[o] = "ready"
  /\ page[o] = "none"
  /\ page'  = [page  EXCEPT ![o] = "return"]
  /\ shown' = [shown EXCEPT ![o] = "none"]
  /\ poll'  = [poll  EXCEPT ![o] = "idle"]
  /\ sync'  = [sync  EXCEPT ![o] = "asked"]
  /\ UNCHANGED <<sagaVars, throttled, failures>>

(* The effect of the page of an order, when it is rendered: it asks for    *)
(* the payment, and again only where 15 s have gone by.  Two such requests *)
(* at once count as the later one.                                         *)
Renders(o, status) ==
  \/ /\ page'[o] = "order" /\ status = "PAYMENT_PENDING"
     /\ sync'      = [sync EXCEPT ![o] = "asked"]
     /\ throttled' = [throttled EXCEPT ![o] = TRUE]
  \/ /\ page'[o] = "order" /\ status = "PAYMENT_PENDING" => throttled[o]
     /\ UNCHANGED <<sync, throttled>>

(* The page of the order, from the list or from the page of the return:    *)
(* what the query has cached is shown at once.                             *)
ViewOrder(o) ==
  /\ orders[o] # "none"
  /\ page[o] \in {"none", "return"}
  /\ page' = [page EXCEPT ![o] = "order"]
  /\ Renders(o, shown[o])
  /\ UNCHANGED <<sagaVars, shown, poll, failures>>

(* What was asked of payment-service is done all the same.                 *)
LeavePage(o) ==
  /\ page[o] # "none"
  /\ page'  = [page  EXCEPT ![o] = "none"]
  /\ shown' = [shown EXCEPT ![o] = "none"]
  /\ poll'  = [poll  EXCEPT ![o] = "idle"]
  /\ throttled' = [throttled EXCEPT ![o] = FALSE]
  /\ UNCHANGED <<sagaVars, sync, failures>>

Poll(o) ==
  /\ Asks(o)
  /\ poll' = [poll EXCEPT ![o] = "asked"]
  /\ UNCHANGED <<sagaVars, page, shown, sync, throttled, failures>>

(* order-service reads the order.                                          *)
GetOrder(o) ==
  /\ poll[o] = "asked"
  /\ poll' = [poll EXCEPT ![o] = orders[o]]
  /\ UNCHANGED <<sagaVars, page, shown, sync, throttled, failures>>

(* The answer arrives; only one that differs renders the page again.       *)
PollAnswered(o) ==
  /\ poll[o] \notin {"idle", "asked"}
  /\ poll'  = [poll  EXCEPT ![o] = "idle"]
  /\ shown' = [shown EXCEPT ![o] = poll[o]]
  /\ UNCHANGED page
  /\ IF poll[o] = shown[o] THEN UNCHANGED <<sync, throttled>>
                           ELSE Renders(o, poll[o])
  /\ UNCHANGED <<sagaVars, failures>>

(* The request, or the retry of it, fails: what was shown stays, and an    *)
(* error that is shown renders the page again.                             *)
PollFails(o) ==
  /\ poll[o] # "idle"
  /\ RequestFails
  /\ poll' = [poll EXCEPT ![o] = "idle"]
  /\ UNCHANGED page
  /\ Renders(o, shown[o])
  /\ UNCHANGED <<sagaVars, shown>>

(* payment-service does what was asked, or answers that it finds nothing.  *)
Synchronise(o) ==
  /\ sync[o] = "asked"
  /\ IF provider[o] = "none"
     THEN /\ sync' = [sync EXCEPT ![o] = "idle"]
          /\ UNCHANGED sagaVars
     ELSE /\ SyncPaymentStatus(o)
          /\ sync' = [sync EXCEPT ![o] = "done"]
  /\ UNCHANGED <<page, shown, poll, throttled, failures>>

(* mutant: the answer about the payment is shown as the order's status.    *)
SyncShown(o) ==
  /\ sync[o] = "done"
  /\ sync'  = [sync EXCEPT ![o] = "idle"]
  /\ shown' = [shown EXCEPT
       ![o] = IF payments[o] = "APPROVED" THEN "CONFIRMED" ELSE @]
  /\ UNCHANGED <<sagaVars, page, poll, throttled, failures>>

(* The answer makes the query of an open page start anew.                  *)
SyncAnswered(o) ==
  /\ sync[o] = "done"
  /\ sync' = [sync EXCEPT ![o] = "idle"]
  /\ poll' = [poll EXCEPT ![o] = IF page[o] = "none" THEN "idle" ELSE "asked"]
  /\ UNCHANGED <<sagaVars, page, shown, throttled, failures>>

(* The request fails, or times out after its handler ran: nothing is shown *)
(* and nothing asked again.                                                *)
SyncFails(o) ==
  /\ sync[o] # "idle"
  /\ RequestFails
  /\ sync' = [sync EXCEPT ![o] = "idle"]
  /\ UNCHANGED <<sagaVars, page, shown, poll, throttled>>

-----------------------------------------------------------------------------

(* What comes about as long as the page stays open.                        *)
Browser(o) == \/ Poll(o) \/ GetOrder(o) \/ PollAnswered(o)
              \/ Synchronise(o) \/ SyncAnswered(o)

Customer(o) == \/ ReturnFromProvider(o) \/ ViewOrder(o) \/ LeavePage(o)
               \/ PollFails(o) \/ SyncFails(o)

Next == \E o \in Orders :
          \/ (Service(o) \/ Surroundings(o)) /\ UNCHANGED webVars
          \/ Browser(o) \/ Customer(o)

Fairness == \A o \in Orders :
  /\ WF_vars(Service(o) /\ UNCHANGED webVars)
  /\ WF_vars(Poll(o)) /\ WF_vars(GetOrder(o)) /\ WF_vars(PollAnswered(o))
  /\ WF_vars(Synchronise(o)) /\ WF_vars(SyncAnswered(o))

Spec == Init /\ [][Next]_vars /\ Fairness

-----------------------------------------------------------------------------
(* Properties                                                              *)

(* What the order-service may do to an order that is settled: an           *)
(* administrator changes it, or a handler that read it before it was       *)
(* settled writes after.                                                   *)
Reopened(o) == past[o] \cap {"by hand", "overwritten"} # {}

(* A page stops asking once it shows a final status: it must be the        *)
(* order's own, although the payment was decided earlier and answers are   *)
(* computed before they are shown.  It is not polled again, so where an    *)
(* administrator or an overlapping handler changes a settled order, the    *)
(* page goes on showing what was; nothing else makes the two differ.       *)
ShownForGoodIsTrue ==
  \A o \in Orders : IsFinal(shown[o]) => shown[o] = orders[o] \/ Reopened(o)

(* An order that is settled while a page shows it comes to be shown so,    *)
(* whichever requests fail, unless the page is left, or the order is       *)
(* changed once more.                                                      *)
SettledIsShown ==
  \A o \in Orders :
    page[o] # "none" /\ IsTerminalOrder(orders[o])
      ~> shown[o] = orders[o] \/ page[o] = "none" \/ Reopened(o)

(* A customer who comes back after the payment was decided comes to see    *)
(* the order settled, with no webhook ever delivered, unless something     *)
(* fails on the way, or somebody reopens the order: one request is sent,   *)
(* and not again.                                                          *)
ReturnSettles ==
  \A o \in Orders :
    sync[o] = "asked" /\ IsTerminalPayment(provider[o])
      ~> IsFinal(shown[o]) \/ page[o] = "none" \/ faults + failures > 0 \/ Reopened(o)
=============================================================================
