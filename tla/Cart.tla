-------------------------------- MODULE Cart --------------------------------
(***************************************************************************)
(* cart-service: one customer's active cart.  A job is one command.  Its   *)
(* transaction runs at READ COMMITTED and takes no locks for what it       *)
(* reads: it sees what others have committed and its own writes, holds the *)
(* rows it has written until it ends, and waits for rows others hold.  The *)
(* subtotal is computed from the lines and stored in the cart's row.       *)
(*                                                                         *)
(* A transaction may be rolled back at any time: by an error, by Prisma's  *)
(* limit of five seconds, as the victim of a deadlock, by a crash.         *)
(***************************************************************************)
EXTENDS Catalog, FiniteSets, FiniteSetsExt

CONSTANTS Workers,       \* commands that may run at once
          MaxJobs,       \* bound: commands in a behaviour
          DefaultCurrency,
          MaxQuantity    \* bound: the quantity a command names

Keep == "keep"   \* the transaction does not write the cart's currency

ASSUME CartAssumption ==
  /\ DefaultCurrency \in Currencies /\ Keep \notin Currencies
  /\ MaxJobs \in Nat /\ MaxQuantity \in Nat

VARIABLES cart,     \* the row of the active cart
          lines,    \* lines[v]: the row of cart_items for variant v
          jobs,     \* what each worker is doing
          started,  \* commands started so far
          answers,  \* commands that have committed so far
          raced,    \* whether overlapping transactions have committed
          ideal     \* the quantities that lone transactions should leave

cartRows == <<cart, lines>>
counters == <<started, answers>>
ghosts   == <<raced, ideal>>

NoCart == [exists |-> FALSE, currency |-> DefaultCurrency, subtotal |-> 0]
NoLine == [id |-> 0, variant |-> 0, quantity |-> 0, unitPrice |-> 0,
           currency |-> DefaultCurrency]
Idle   == [pc |-> "idle"]

NoAnswer == [cart |-> NoCart, lines |-> [v \in Variants |-> NoLine], at |-> 0]

CartInit == /\ cart = NoCart
            /\ lines = [v \in Variants |-> NoLine]
            /\ jobs = [w \in Workers |-> Idle]
            /\ started = 0 /\ answers = 0
            /\ raced = "never"
            /\ ideal = [v \in Variants |-> 0]

-----------------------------------------------------------------------------
(* Lines and money.  A line keeps the price and the currency of its first  *)
(* addition; currency is no column, it says what unitPrice is in.          *)

Rows(ls) == {ls[v] : v \in Variants} \ {NoLine}

LineTotal(l) == l.unitPrice * l.quantity

Subtotal(ls) == MapThenSumSet(LineTotal, Rows(ls))

WithId(ls, id) == {l \in Rows(ls) : l.id = id}

-----------------------------------------------------------------------------
(* Jobs                                                                    *)

InTransaction == {"create", "currency", "find", "write", "store", "fetch"}

Goto(w, job) == jobs' = [jobs EXCEPT ![w] = job]

(* A command: of a kind, for variant v of product p and n pieces of it, or *)
(* for the line item; by says who sent it, the browser or an order, whose  *)
(* clear_cart is published and not awaited.                                *)
Command(by, kind, p, v, n, item) ==
  [by |-> by, kind |-> kind, product |-> p, variant |-> v, quantity |-> n,
   item |-> item]

NewJob(c, serial) ==
  [pc |-> IF c.kind = "add" THEN "product" ELSE "cart",
   awaited |-> c.by = "web" \/ c.kind = "get",
   by |-> c.by, kind |-> c.kind, product |-> c.product, variant |-> c.variant,
   quantity |-> c.quantity, item |-> c.item, serial |-> serial,
   offer |-> NoProduct, seen |-> DefaultCurrency, found |-> {},
   creates |-> FALSE, currency |-> Keep, writes |-> <<>>, sum |-> 0,
   alone |-> TRUE, answer |-> NoAnswer]

(* A job that has ended; it keeps its command, which may be delivered      *)
(* again.                                                                  *)
Ended(job, pc, answer) ==
  [NewJob(job, 0) EXCEPT !.pc = pc, !.awaited = job.awaited, !.answer = answer]

Receive(w, by, kind, p, v, n, item) ==
  /\ jobs[w].pc = "idle"
  /\ started < MaxJobs
  /\ started' = started + 1
  /\ Goto(w, NewJob(Command(by, kind, p, v, n, item), started'))
  /\ UNCHANGED <<cartRows, answers, ghosts>>

(* The service stops after the COMMIT and before the acknowledgement: the  *)
(* command is delivered again.  No idempotency key tells the two apart.    *)
Redeliver(w) ==
  /\ jobs[w].pc = "done"
  /\ started < MaxJobs
  /\ started' = started + 1
  /\ Goto(w, [NewJob(jobs[w], started') EXCEPT !.awaited = jobs[w].awaited])
  /\ UNCHANGED <<cartRows, answers, ghosts>>

(* The transaction is rolled back, and the command answered with an error. *)
Fail(w) ==
  /\ Goto(w, Ended(jobs[w], "failed", NoAnswer))
  /\ UNCHANGED <<cartRows, counters, ghosts>>

Abort(w) == jobs[w].pc \in InTransaction /\ Fail(w)

Step(w, job) == Goto(w, job) /\ UNCHANGED <<cartRows, counters, ghosts>>

(* What the transaction of w sees.                                         *)
View(w) == [v \in Variants |-> IF v \in DOMAIN jobs[w].writes
                               THEN jobs[w].writes[v] ELSE lines[v]]

LineFree(w, v) ==
  \A x \in Workers \ {w} :
    jobs[x].pc \in InTransaction => v \notin DOMAIN jobs[x].writes

CartFree(w) == \A x \in Workers \ {w} :
                 jobs[x].pc \in InTransaction => jobs[x].currency = Keep

-----------------------------------------------------------------------------
(* addItem, before its transaction: the product is asked for.              *)
GetProductById(w) ==
  LET p == GetProduct(jobs[w].product) IN
  /\ jobs[w].pc = "product"
  /\ IF Offers(p, jobs[w].variant)
     THEN Step(w, [jobs[w] EXCEPT !.pc = "cart", !.offer = p])
     ELSE Fail(w)

Writers == {x \in Workers : jobs[x].pc \in InTransaction
                            /\ jobs[x].kind # "get"}

AfterCart(kind) == CASE kind = "get" -> "fetch"
                     [] kind = "add" -> "currency"
                     [] OTHER        -> "find"

(* The transaction begins, and reads the cart's row: getOrCreateActiveCart *)
(* and getActiveCartOrThrow.                                               *)
FindCart(w) ==
  LET job  == jobs[w]
      pc   == IF cart.exists THEN AfterCart(job.kind) ELSE "create"
      solo == job.kind = "get" \/ Writers = {}
  IN /\ job.pc = "cart"
     /\ IF ~cart.exists /\ job.kind \in {"update", "remove"}
        THEN Fail(w)
        ELSE /\ jobs' = [x \in Workers |->
                  CASE x = w -> [job EXCEPT !.pc = pc, !.alone = solo,
                                            !.seen = cart.currency]
                    [] x \in Writers /\ job.kind # "get" ->
                         [jobs[x] EXCEPT !.alone = FALSE]
                    [] OTHER -> jobs[x]]
             /\ UNCHANGED <<cartRows, counters, ghosts>>

(* One active cart per user: an insert waits for another one to end.       *)
CreateCart(w) ==
  LET job == jobs[w]
      c   == IF job.kind = "add" THEN job.offer.currency ELSE DefaultCurrency
  IN /\ job.pc = "create"
     /\ CartFree(w)
     /\ IF cart.exists THEN Fail(w)
        ELSE Step(w, [job EXCEPT !.pc = AfterCart(job.kind), !.creates = TRUE,
                                 !.currency = c, !.seen = c])

(* mutant: the currency is changed though the cart has lines.              *)
EnsureAnyCurrency(w) ==
  LET job == jobs[w] IN
  /\ job.pc = "currency"
  /\ CartFree(w)
  /\ Step(w, [job EXCEPT !.pc = "find", !.currency = job.offer.currency])

EnsureCartCurrency(w) ==
  LET job == jobs[w] IN
  /\ job.pc = "currency"
  /\ IF job.seen = job.offer.currency
     THEN Step(w, [job EXCEPT !.pc = "find"])
     ELSE IF Rows(View(w)) # {} THEN Fail(w)
     ELSE /\ CartFree(w)
          /\ Step(w, [job EXCEPT !.pc = "find",
                                 !.currency = job.offer.currency])

(* The line of the variant, or of the item, or all of them; only addItem   *)
(* and clearCart do without one.                                           *)
FindItem(w) ==
  LET job  == jobs[w]
      rows == CASE job.kind = "add"   -> Rows(lines) \cap {lines[job.variant]}
                [] job.kind = "clear" -> Rows(lines)
                [] OTHER              -> WithId(lines, job.item)
  IN /\ job.pc = "find"
     /\ IF rows = {} /\ job.kind \in {"update", "remove"}
        THEN Fail(w)
        ELSE Step(w, [job EXCEPT !.pc = "write", !.found = rows])

NewLine(job) == [id |-> job.serial, variant |-> job.variant,
                 quantity |-> job.quantity,
                 unitPrice |-> UnitPrice(job.offer, job.variant),
                 currency |-> job.offer.currency]

(* mutant: an addition sets the quantity.                                  *)
WrittenOver(job, l) ==
  IF job.kind \in {"add", "update"} THEN [l EXCEPT !.quantity = job.quantity]
  ELSE NoLine

(* What becomes of the line l that was found, as it was when it was found. *)
Written(job, l) ==
  CASE job.kind = "add"    -> [l EXCEPT !.quantity = @ + job.quantity]
    [] job.kind = "update" -> [l EXCEPT !.quantity = job.quantity]
    [] OTHER               -> NoLine

(* The lines that the job writes.  A line that is gone, or a variant that  *)
(* has got a line meanwhile, is an error, except to clearCart.             *)
Writes(job) ==
  IF job.kind = "add" /\ job.found = {}
  THEN [v \in {job.variant} |-> NewLine(job)]
  ELSE [v \in {l.variant : l \in {k \in job.found : WithId(lines, k.id) # {}}}
          |-> Written(job, CHOOSE l \in job.found : l.variant = v)]

Targets(job) == IF job.kind = "add" /\ job.found = {} THEN {job.variant}
                ELSE {l.variant : l \in job.found}

Outrun(job) ==
  /\ job.kind # "clear"
  /\ \/ job.found = {} /\ lines[job.variant] # NoLine
     \/ \E l \in job.found : WithId(lines, l.id) = {}

(* Write the lines, then read the totals for the subtotal                  *)
(* (recalculateCartSubtotal).                                              *)
WriteLines(w) ==
  LET job  == jobs[w]
      new  == Writes(job)
      view == [v \in Variants |-> IF v \in DOMAIN new THEN new[v] ELSE lines[v]]
  IN /\ job.pc = "write"
     /\ \A v \in Targets(job) : LineFree(w, v)
     /\ IF Outrun(job) THEN Fail(w)
        ELSE Step(w, [job EXCEPT !.pc = "store", !.writes = new, !.sum =
                        IF job.kind = "clear" THEN 0 ELSE Subtotal(view)])

(* The quantities after a transaction that ran alone.                      *)
Applied(job) ==
  [v \in Variants |->
     CASE job.kind = "clear"                     -> 0
       [] job.kind = "add" /\ v = job.variant    -> ideal[v] + job.quantity
       [] job.kind = "update" /\ v \in Targets(job) -> job.quantity
       [] job.kind = "remove" /\ v \in Targets(job) -> 0
       [] OTHER                                  -> ideal[v]]

(* mutant: the answer is read before the totals are stored.                *)
ServedEarly(w, row) == [cart |-> cart, lines |-> View(w), at |-> answers + 1]

(* fetchCart: the answer to a command that leaves the cart's row as row.   *)
Served(w, row) == [cart |-> row, lines |-> View(w), at |-> answers + 1]

(* Write the cart's row, read the answer, COMMIT.  Once the row is         *)
(* written, no other transaction that writes can commit before this one.   *)
StoreSubtotal(w) ==
  LET job == jobs[w]
      row == [exists |-> TRUE, subtotal |-> job.sum, currency |->
                IF job.currency = Keep THEN cart.currency ELSE job.currency]
  IN /\ job.pc = "store"
     /\ CartFree(w)
     /\ cart' = row
     /\ lines' = View(w)
     /\ answers' = answers + 1
     /\ Goto(w, Ended(job, "done", Served(w, row)))
     /\ raced' = IF ~job.alone THEN "last"
                 ELSE IF raced = "never" THEN "never" ELSE "earlier"
     /\ ideal' = IF job.alone THEN Applied(job)
                 ELSE [v \in Variants |-> lines'[v].quantity]
     /\ UNCHANGED started

(* getActiveCart: the answer, and the COMMIT of a cart that it created.    *)
FetchCart(w) ==
  LET job == jobs[w]
      row == IF job.creates THEN [NoCart EXCEPT !.exists = TRUE] ELSE cart
  IN /\ job.pc = "fetch"
     /\ cart' = row
     /\ answers' = answers + 1
     /\ Goto(w, Ended(job, "done", Served(w, row)))
     /\ UNCHANGED <<lines, started, ghosts>>

CartStep(w) == \/ GetProductById(w) \/ FindCart(w) \/ CreateCart(w)
               \/ EnsureCartCurrency(w) \/ FindItem(w) \/ WriteLines(w)
               \/ StoreSubtotal(w) \/ FetchCart(w) \/ Abort(w) \/ Redeliver(w)

-----------------------------------------------------------------------------
(* Properties                                                              *)

(* A transaction that ran alone does exactly what its command says, to     *)
(* whatever it finds: an addition adds to the quantity, and the stored     *)
(* subtotal is the sum of the lines, also when overlapping transactions    *)
(* had left it wrong before (addItem, updateItem, removeItem, clearCart,   *)
(* recalculateCartSubtotal).                                               *)
AppliedExactly ==
  raced # "last" =>
    /\ \A v \in Variants : lines[v].quantity = ideal[v]
    /\ cart.subtotal = Subtotal(lines)

(* All prices of a cart are in the cart's currency, through every edit of  *)
(* a product's currency, unless transactions have overlapped               *)
(* (ensureCartCurrency).                                                   *)
OneCurrency ==
  raced = "never" => \A l \in Rows(lines) : l.currency = cart.currency
=============================================================================
