-------------------------- MODULE StorefrontProofs --------------------------
(***************************************************************************)
(* Proofs about the cart, the customer's page and the orders made of the   *)
(* cart, for every set of products, of variants and of commands at once.   *)
(***************************************************************************)
EXTENDS Storefront, TLAPS

Line == [id : Nat, variant : Variants \cup {0}, quantity : Nat, unitPrice : Prices,
         currency : Currencies]

(* A line is in the place of its variant.                                  *)
Lines == {ls \in [Variants -> Line] :
            \A v \in Variants : ls[v] # NoLine => ls[v].variant = v}

(* What a command may find.                                                *)
Found == {l \in Line : l.variant \in Variants}

(* What is stored as a subtotal.                                           *)
Sums == {Subtotal(ls) : ls \in Lines} \cup {0}

CartRow == [exists : BOOLEAN, currency : Currencies, subtotal : Sums]

Answer == [cart : CartRow, lines : Lines, at : Nat]

VariantsGiven == {p.variants : p \in NewProducts}
                 \cup {e.variants : e \in {f \in Edits : "variants" \in DOMAIN f}}

ProductRow == [exists : {TRUE}, isActive : BOOLEAN, price : Prices, currency : Currencies,
               variants : VariantsGiven]

Writings == UNION {[V -> Line] : V \in SUBSET Variants}

Job == [pc : {"product", "cart", "done", "failed"} \cup InTransaction, awaited : BOOLEAN,
        by : {"web"} \cup Orders, kind : {"add", "update", "remove", "clear", "get"},
        product : Products \cup {AnyProduct}, variant : Variants \cup {AnyVariant},
        quantity : Nat, item : Nat, serial : Nat, offer : ProductRow \cup {NoProduct},
        seen : Currencies, found : SUBSET Found, creates : BOOLEAN,
        currency : Currencies \cup {Keep}, writes : Writings, sum : Sums,
        alone : BOOLEAN, answer : Answer]

(* What a job's type says at each of its steps.                            *)
GoodJob == {job \in Job :
  /\ job.pc \in {"product", "currency"} => job.kind = "add"
  /\ job.pc = "fetch" => job.kind = "get"
  /\ job.pc \in {"find", "write", "store"} => job.kind # "get"
  /\ job.by \in Orders => job.kind \in {"get", "clear"}
  /\ job.pc # "store" => DOMAIN job.writes = {}
  /\ job.pc \in {"cart", "create", "product"} => job.currency = Keep /\ ~job.creates
  /\ job.creates => job.currency # Keep
  /\ job.kind # "add" /\ ~job.creates => job.currency = Keep
  /\ job.kind \in {"update", "remove"} => ~job.creates /\ job.pc # "create"
  /\ job.kind = "add" => job.variant \in Variants /\ job.product \in Products
  /\ job.kind = "add" /\ job.pc \in {"cart"} \cup InTransaction =>
       job.offer \in ProductRow /\ job.variant \in DOMAIN job.offer.variants
  /\ \A v \in DOMAIN job.writes :
       /\ job.writes[v] # NoLine => job.writes[v].variant = v
       /\ job.kind = "clear" => job.writes[v] = NoLine
  /\ job.pc = "done" => job.answer.at > 0}

OrderRow == [status : {"none", "placing", "refused", "created", "confirmed"}, lines : Lines]

Typed ==
  /\ products \in [Products -> ProductRow \cup {NoProduct}]
  /\ cart \in CartRow /\ lines \in Lines
  /\ jobs \in [Workers -> GoodJob \cup {Idle}]
  /\ started \in Nat /\ answers \in Nat
  /\ raced \in {"never", "earlier", "last"} /\ ideal \in [Variants -> Nat]
  /\ shown \in Answer /\ behind \in BOOLEAN
  /\ orders \in [Orders -> OrderRow]
  /\ touched \in [Orders -> SUBSET Variants]

Within(w) == jobs[w].pc \in InTransaction
Holds(w)  == Within(w) /\ jobs[w].currency # Keep

(* The row of the cart: there is none before the first commit, one         *)
(* transaction at a time holds it, and only one that has found none makes  *)
(* one.                                                                    *)
CartHeld ==
  /\ ~cart.exists => /\ cart = NoCart /\ \A v \in Variants : lines[v] = NoLine
                     /\ answers = 0 /\ shown = NoAnswer
  /\ \A w, x \in Workers : Holds(w) /\ Holds(x) => w = x
  /\ \A w \in Workers : Within(w) /\ jobs[w].pc # "create" =>
       (jobs[w].creates <=> ~cart.exists)

(* The tally is what there is.                                             *)
Placed == \A v \in Variants : ideal[v] = lines[v].quantity

(* A transaction that has been alone still is.                             *)
OnlyOne == \A w \in Writers : jobs[w].alone => \A x \in Writers : x = w

Current(job) == CASE job.kind = "add"   -> Rows(lines) \cap {lines[job.variant]}
                  [] job.kind = "clear" -> Rows(lines)
                  [] OTHER              -> WithId(lines, job.item)

ViewOf(job) == [v \in Variants |-> IF v \in DOMAIN job.writes THEN job.writes[v] ELSE lines[v]]

CurrencyOf(job) == IF job.currency = Keep THEN cart.currency ELSE job.currency

(* What a transaction that is alone knows.                                 *)
Fits(job) ==
  job.pc \in InTransaction \ {"create", "fetch"} /\ job.alone /\ job.kind # "get" =>
    /\ job.pc = "currency" => job.seen = CurrencyOf(job)
    /\ job.kind = "add" /\ job.pc # "currency" => CurrencyOf(job) = job.offer.currency
    /\ job.currency # Keep => Rows(lines) = {}
    /\ job.pc = "write" => job.found = Current(job)
    /\ job.pc = "store" =>
         /\ \A v \in Variants : ViewOf(job)[v].quantity = Applied(job)[v]
         /\ job.sum = Subtotal(ViewOf(job))
         /\ \A v \in DOMAIN job.writes : job.writes[v] # NoLine =>
              \/ lines[v] # NoLine /\ job.writes[v].currency = lines[v].currency
              \/ job.kind = "add" /\ job.writes[v].currency = job.offer.currency

JobInv(w) == \A job \in GoodJob : jobs[w] = job => Fits(job)

SumInv == raced # "last" => cart.subtotal = Subtotal(lines)

(* The answers that the page shows or will show.                           *)
Fresh(a) == a.lines = lines /\ (a.cart = cart \/ a = NoAnswer)

Coming == {w \in Workers : jobs[w].pc = "done" /\ jobs[w].by = "web" /\ jobs[w].awaited}

Shows(a) == a = shown \/ \E w \in Coming : a = jobs[w].answer

ShownInv ==
  /\ shown.at <= answers
  /\ \A w \in Workers : jobs[w].pc = "done" => jobs[w].answer.at <= answers
  /\ \E n \in 0..answers :
       /\ \A a \in Answer : Shows(a) /\ a.at >= n => Fresh(a)
       /\ ~behind => \E a \in Answer : Shows(a) /\ a.at >= n

(* What an order has read, until the customer changes it, is there, or has *)
(* been cleared.                                                           *)
Reading(w, o) == jobs[w].pc # "idle" /\ jobs[w].by = o /\ jobs[w].kind = "get"

Kept(o, ls) == \A v \in Variants : v \notin touched[o] => lines[v] \in {ls[v], NoLine}

OrderInv(o) ==
  /\ \A w, x \in Workers : Reading(w, o) /\ Reading(x, o) => w = x
  /\ \A w \in Workers : Reading(w, o) =>
       /\ orders[o].status = "placing"
       /\ \A ls \in Lines : jobs[w].pc = "done" /\ jobs[w].answer.lines = ls => Kept(o, ls)
  /\ \A w \in Workers : jobs[w].pc # "idle" /\ jobs[w].by = o /\ jobs[w].kind = "clear" =>
       orders[o].status = "confirmed"
  /\ \A ls \in Lines : orders[o].status \in {"created", "confirmed"} /\ orders[o].lines = ls =>
       Kept(o, ls)

CartInv == /\ Typed /\ CartHeld /\ Placed /\ OnlyOne
           /\ (\A w \in Workers : JobInv(w))
           /\ SumInv /\ OneCurrency /\ ShownInv

IInv == CartInv /\ \A o \in Orders : OrderInv(o)

-----------------------------------------------------------------------------
(* Steps that change one job and no row                                    *)

Goes(w, new) == /\ jobs' \in [Workers -> GoodJob \cup {Idle}]
                /\ jobs'[w] = new
                /\ \A x \in Workers \ {w} : jobs'[x] = jobs[x]

Still(w, new) ==
  /\ Goes(w, new)
  /\ UNCHANGED <<products, cart, lines, answers, raced, ideal, shown>>
  /\ started' \in Nat /\ behind' \in BOOLEAN
  /\ new.pc \in InTransaction =>
       Within(w) /\ new.kind = jobs[w].kind /\ (new.alone => jobs[w].alone)
  /\ new.pc \in InTransaction /\ new.currency # Keep =>
       Holds(w) \/ \A x \in Workers \ {w} : ~Holds(x)
  /\ new.pc \in InTransaction \ {"create"} => (new.creates <=> ~cart.exists)
  /\ new # Idle => Fits(new)
  /\ w \notin Coming'
  /\ ~behind' => ~behind /\ w \notin Coming
  /\ new.pc = "done" => jobs[w].pc = "done" /\ new.answer = jobs[w].answer

Quiet(w, new) ==
  /\ Still(w, new)
  /\ UNCHANGED <<orders, touched>>
  /\ \A o \in Orders :
       /\ Reading(w, o)' => Reading(w, o)
       /\ new.pc # "idle" /\ new.by = o /\ new.kind = "clear" => orders[o].status = "confirmed"

(* A job that is under way.                                                *)
LEMMA JobIs ==
  ASSUME Typed, NEW w \in Workers, jobs[w].pc # "idle"
  PROVE  jobs[w] \in GoodJob
BY DEF Typed, Idle

(* What is no job is no good one.                                          *)
LEMMA IdleIs ==
  /\ Idle.pc = "idle" /\ Idle \notin GoodJob
  /\ \A job \in GoodJob : job # Idle /\ job.pc # "idle"
<1>1. Idle.pc = "idle"
  BY DEF Idle
<1>2. \A job \in GoodJob : job.pc # "idle"
  BY DEF GoodJob, Job, InTransaction
<1>3. QED
  BY <1>1, <1>2

(* A step that changes one job, and no row of the cart's, keeps the        *)
(* invariant of the cart.                                                  *)
LEMMA StillKeeps ==
  ASSUME CartInv, NEW w \in Workers, NEW new, Still(w, new),
         orders' \in [Orders -> OrderRow], touched' \in [Orders -> SUBSET Variants]
  PROVE  CartInv'
<1>0. /\ Typed /\ CartHeld /\ Placed /\ OnlyOne
      /\ (\A x \in Workers : JobInv(x))
      /\ SumInv /\ OneCurrency /\ ShownInv
  BY DEF CartInv
<1>1. /\ jobs'[w] = new /\ \A x \in Workers \ {w} : jobs'[x] = jobs[x]
      /\ jobs' \in [Workers -> GoodJob \cup {Idle}]
  BY DEF Still, Goes
<1>2. UNCHANGED <<products, cart, lines, answers, raced, ideal, shown>>
  BY DEF Still
<1>3. Typed'
  BY <1>0, <1>1, <1>2 DEF Typed, Still
<1>4. CartHeld'
  <2>1. \A x \in Workers : Within(x)' /\ x # w => Within(x) /\ jobs'[x] = jobs[x]
    BY <1>1 DEF Within
  <2>2. \A x, y \in Workers : Holds(x)' /\ Holds(y)' => x = y
    <3>1. \A x \in Workers \ {w} : Holds(x)' => Holds(x)
      BY <1>1 DEF Within, Holds
    <3>2. Holds(w)' => Holds(w) \/ \A x \in Workers \ {w} : ~Holds(x)
      BY <1>1 DEF Within, Holds, Still
    <3>3. QED
      BY <1>0, <3>1, <3>2 DEF CartHeld
  <2>3. ASSUME NEW x \in Workers, Within(x)', jobs'[x].pc # "create"
        PROVE  jobs'[x].creates <=> ~cart'.exists
    BY <1>0, <1>1, <1>2, <2>1, <2>3 DEF CartHeld, Still, Within
  <2>4. QED
    BY <1>0, <1>2, <2>2, <2>3 DEF CartHeld
<1>5. Placed' /\ SumInv' /\ OneCurrency'
  BY <1>0, <1>2 DEF Placed, SumInv, OneCurrency
<1>6. OnlyOne'
  <2>1. \A x \in Workers : x \in Writers' =>
          x \in Writers /\ (jobs'[x].alone => jobs[x].alone)
    BY <1>1 DEF Writers, Still, Within
  <2>2. QED
    BY <1>0, <2>1 DEF OnlyOne, Writers
<1>7. ASSUME NEW x \in Workers
      PROVE  JobInv(x)'
  <2>1. \A job \in GoodJob : Fits(job) => Fits(job)'
    <3>1. UNCHANGED <<cart, lines, ideal>>
      BY <1>2
    <3>2. QED
      BY ONLY <3>1 DEF Fits, CurrencyOf, Current, ViewOf, Applied, Targets, WithId, Rows
  <2>2. CASE x = w
    <3>1. new \in GoodJob => Fits(new)
      BY IdleIs DEF Still
    <3>2. QED
      BY <1>1, <2>1, <2>2, <3>1 DEF JobInv
  <2>3. CASE x # w
    BY <1>0, <1>1, <2>1, <2>3 DEF JobInv
  <2>4. QED
    BY <2>2, <2>3
<1>8. ShownInv'
  <2>1. /\ \A x \in Workers : x \in Coming' => x \in Coming /\ jobs'[x] = jobs[x]
        /\ w \notin Coming => \A x \in Workers : x \in Coming => x \in Coming' /\ jobs'[x] = jobs[x]
    BY <1>1 DEF Coming, Still
  <2>2. /\ \A a : Shows(a)' => Shows(a)
        /\ ~behind' => \A a : Shows(a) => Shows(a)'
    BY <1>2, <2>1 DEF Shows, Coming, Still
  <2>3. \A a : Fresh(a)' <=> Fresh(a)
    BY <1>2 DEF Fresh
  <2>4. \A x \in Workers : jobs'[x].pc = "done" => jobs[x].pc = "done" /\ jobs'[x].answer = jobs[x].answer
    BY <1>1 DEF Still
  <2>5. ~behind' => ~behind
    BY DEF Still
  <2>6. PICK n \in 0..answers :
          /\ \A a \in Answer : Shows(a) /\ a.at >= n => Fresh(a)
          /\ ~behind => \E a \in Answer : Shows(a) /\ a.at >= n
    BY <1>0 DEF ShownInv
  <2>7. /\ n \in 0..answers'
        /\ \A a \in Answer : Shows(a)' /\ a.at >= n => Fresh(a)'
        /\ ~behind' => \E a \in Answer : Shows(a)' /\ a.at >= n
    BY <1>2, <2>2, <2>3, <2>5, <2>6
  <2>8. shown'.at <= answers' /\ \A x \in Workers : jobs'[x].pc = "done" => jobs'[x].answer.at <= answers'
    BY <1>0, <1>2, <2>4 DEF ShownInv
  <2>9. QED
    BY <2>7, <2>8 DEF ShownInv
<1>9. QED
  BY <1>3, <1>4, <1>5, <1>6, <1>7, <1>8 DEF CartInv

(* A step that changes one job, and no row, keeps the invariant.           *)
LEMMA QuietKeeps ==
  ASSUME IInv, NEW w \in Workers, NEW new, Quiet(w, new)
  PROVE  IInv'
<1>0. Typed /\ \A o \in Orders : OrderInv(o)
  BY DEF IInv, CartInv
<1>1. /\ jobs'[w] = new /\ \A x \in Workers \ {w} : jobs'[x] = jobs[x]
  BY DEF Quiet, Still, Goes
<1>2. UNCHANGED <<products, cart, lines, answers, raced, ideal, shown, orders, touched>>
  BY DEF Quiet, Still
<1>3. CartInv'
  BY <1>0, <1>2, StillKeeps DEF IInv, CartInv, Quiet, Still, Typed
<1>4. ASSUME NEW o \in Orders
      PROVE  OrderInv(o)'
  <2>1. \A x \in Workers : Reading(x, o)' => Reading(x, o)
    BY <1>1 DEF Reading, Quiet, Still
  <2>2. \A x \in Workers : jobs'[x].pc = "done" => jobs[x].pc = "done" /\ jobs'[x].answer = jobs[x].answer
    BY <1>1 DEF Quiet, Still
  <2>3. \A ls : Kept(o, ls)' <=> Kept(o, ls)
    BY <1>2 DEF Kept
  <2>4. \A x \in Workers : jobs'[x].pc # "idle" /\ jobs'[x].by = o /\ jobs'[x].kind = "clear" =>
          orders'[o].status = "confirmed"
    BY <1>0, <1>1, <1>2 DEF OrderInv, Quiet, Still
  <2>5. \A x \in Workers : Reading(x, o)' =>
          /\ orders'[o].status = "placing"
          /\ \A ls \in Lines : jobs'[x].pc = "done" /\ jobs'[x].answer.lines = ls => Kept(o, ls)'
    BY <1>0, <1>2, <2>1, <2>2, <2>3 DEF OrderInv
  <2>6. \A ls \in Lines : orders'[o].status \in {"created", "confirmed"} /\ orders'[o].lines = ls =>
          Kept(o, ls)'
    BY <1>0, <1>2, <2>3 DEF OrderInv
  <2>7. \A x, y \in Workers : Reading(x, o)' /\ Reading(y, o)' => x = y
    BY <1>0, <2>1 DEF OrderInv
  <2>8. QED
    BY <2>4, <2>5, <2>6, <2>7 DEF OrderInv
<1>5. QED
  BY <1>3, <1>4 DEF IInv, CartInv

(* What there is before anything.                                          *)
LEMMA NothingIs ==
  /\ NoLine \in Line /\ NoCart \in CartRow /\ NoAnswer \in Answer
  /\ NoAnswer.at = 0 /\ NoAnswer.cart = NoCart
  /\ NoAnswer.lines = [v \in Variants |-> NoLine] /\ NoAnswer.lines \in Lines
  /\ NoLine.quantity = 0 /\ NoCart.exists = FALSE /\ NoCart.subtotal = 0
<1>1. NoLine \in Line /\ NoLine.quantity = 0
  BY CartAssumption DEF NoLine, Line, Prices
<1>2. NoCart \in CartRow /\ NoCart.exists = FALSE /\ NoCart.subtotal = 0
  BY CartAssumption DEF NoCart, CartRow, Sums
<1>3. [v \in Variants |-> NoLine] \in Lines
  BY <1>1 DEF Lines
<1>4. QED
  BY <1>1, <1>2, <1>3 DEF NoAnswer, Answer

(* A transaction that has written nothing.                                 *)
LEMMA NoWrites ==
  <<>> \in Writings /\ DOMAIN <<>> = {}
<1>1. <<>> \in [{} -> Line]
  OBVIOUS
<1>2. [{} -> Line] \in {[V -> Line] : V \in SUBSET Variants}
  OBVIOUS
<1>3. QED
  BY <1>1, <1>2 DEF Writings

(* A cart without lines costs nothing.                                     *)
LEMMA NothingSums ==
  ASSUME NEW ls, \A v \in Variants : ls[v] = NoLine
  PROVE  Rows(ls) = {} /\ Subtotal(ls) = 0
<1>1. MapThenSumSet(LineTotal, {}) = 0
  BY DEF MapThenSumSet, MapThenFoldSet
<1>2. Rows(ls) = {}
  BY DEF Rows
<1>3. QED
  BY <1>1, <1>2 DEF Subtotal

(* A job that starts.                                                      *)
LEMMA NewJobIs ==
  ASSUME NEW c, c.kind \in {"add", "update", "remove", "clear", "get"},
         c.by \in {"web"} \cup Orders, c.product \in Products \cup {AnyProduct},
         c.variant \in Variants \cup {AnyVariant}, c.quantity \in Nat, c.item \in Nat,
         c.kind = "add" => c.variant \in Variants /\ c.product \in Products,
         c.by \in Orders => c.kind \in {"get", "clear"},
         NEW serial \in Nat
  PROVE  /\ NewJob(c, serial) \in GoodJob
         /\ NewJob(c, serial).pc \in {"product", "cart"}
         /\ NewJob(c, serial).kind = c.kind /\ NewJob(c, serial).by = c.by
         /\ NewJob(c, serial).awaited \in BOOLEAN
<1>1. PICK job, pc, awaited :
        /\ pc = IF c.kind = "add" THEN "product" ELSE "cart"
        /\ awaited = (c.by = "web" \/ c.kind = "get")
        /\ job = [pc |-> pc, awaited |-> awaited,
                  by |-> c.by, kind |-> c.kind, product |-> c.product, variant |-> c.variant,
                  quantity |-> c.quantity, item |-> c.item, serial |-> serial,
                  offer |-> NoProduct, seen |-> DefaultCurrency, found |-> {},
                  creates |-> FALSE, currency |-> Keep, writes |-> <<>>, sum |-> 0,
                  alone |-> TRUE, answer |-> NoAnswer]
  OBVIOUS
<1>2. job = NewJob(c, serial)
  BY <1>1 DEF NewJob
<1>3. awaited \in BOOLEAN /\ pc \in {"product", "cart"} /\ (pc = "product" <=> c.kind = "add")
  BY <1>1
<1>4. PICK empty : empty = <<>>
  OBVIOUS
<1>5. empty \in Writings /\ DOMAIN empty = {} /\ 0 \in Sums
  BY <1>4, NoWrites DEF Sums
<1>6. /\ job.pc = pc /\ job.kind = c.kind /\ job.by = c.by /\ job.awaited = awaited
      /\ job.currency = Keep /\ job.creates = FALSE /\ job.writes = empty
      /\ job.variant = c.variant /\ job.product = c.product
  BY <1>1, <1>4
<1>7. job \in Job
  BY <1>1, <1>3, <1>4, <1>5, CartAssumption, NothingIs DEF Job
<1>8. job \in GoodJob
  BY <1>3, <1>5, <1>6, <1>7 DEF GoodJob, InTransaction
<1>9. QED
  BY <1>2, <1>3, <1>6, <1>8

(* A job that has ended.                                                   *)
LEMMA EndedIs ==
  ASSUME NEW job \in GoodJob, NEW pc \in {"done", "failed"}, NEW answer \in Answer,
         pc = "done" => answer.at > 0
  PROVE  /\ Ended(job, pc, answer) \in GoodJob
         /\ Ended(job, pc, answer).pc = pc
         /\ Ended(job, pc, answer).kind = job.kind
         /\ Ended(job, pc, answer).by = job.by
         /\ Ended(job, pc, answer).awaited = job.awaited
         /\ Ended(job, pc, answer).answer = answer
<1>1. PICK new : new = NewJob(job, 0)
  OBVIOUS
<1>2. new \in GoodJob /\ new.kind = job.kind /\ new.by = job.by
  <2>1. /\ job.kind \in {"add", "update", "remove", "clear", "get"}
        /\ job.by \in {"web"} \cup Orders /\ job.product \in Products \cup {AnyProduct}
        /\ job.variant \in Variants \cup {AnyVariant} /\ job.quantity \in Nat
        /\ job.item \in Nat /\ (job.kind = "add" => job.variant \in Variants /\ job.product \in Products)
        /\ (job.by \in Orders => job.kind \in {"get", "clear"}) /\ 0 \in Nat
    BY DEF GoodJob, Job
  <2>2. QED
    BY ONLY <1>1, <2>1, NewJobIs
<1>3. /\ new.currency = Keep /\ new.creates = FALSE /\ new.writes = <<>>
  BY <1>1 DEF NewJob
<1>4. PICK old : old = [new EXCEPT !.pc = pc, !.awaited = job.awaited, !.answer = answer]
  OBVIOUS
<1>5. /\ old \in Job /\ old.pc = pc /\ old.kind = job.kind /\ old.by = job.by
      /\ old.awaited = job.awaited /\ old.answer = answer /\ old.writes = <<>>
      /\ old.currency = Keep /\ old.creates = FALSE /\ old.variant = new.variant
      /\ old.product = new.product
  BY <1>2, <1>3, <1>4, ZenonT(60) DEF GoodJob, Job
<1>6. old \in GoodJob
  <2>1. DOMAIN old.writes = {}
    BY <1>5, NoWrites
  <2>2. old.kind = "add" => old.variant \in Variants /\ old.product \in Products
    BY <1>2, <1>5 DEF GoodJob
  <2>3. old.by \in Orders => old.kind \in {"get", "clear"}
    BY <1>5 DEF GoodJob
  <2>4. QED
    BY <1>5, <2>1, <2>2, <2>3 DEF GoodJob, InTransaction
<1>7. old = Ended(job, pc, answer)
  BY <1>1, <1>4 DEF Ended
<1>8. QED
  BY <1>5, <1>6, <1>7

-----------------------------------------------------------------------------
(* The steps of a command that commit nothing                              *)

(* What a rolling transaction has not committed is seen by nobody.         *)
LEMMA WorkIsQuiet ==
  ASSUME IInv, NEW w \in Workers, NEW new \in GoodJob, Work(w), Step(w, new),
         jobs[w] \in GoodJob, jobs[w].pc # "done", new.pc # "done",
         new.kind = jobs[w].kind, new.by = jobs[w].by,
         new.pc \in InTransaction => Within(w) /\ (new.alone => jobs[w].alone),
         new.pc \in InTransaction /\ new.currency # Keep =>
           Holds(w) \/ \A x \in Workers \ {w} : ~Holds(x),
         new.pc \in InTransaction \ {"create"} => (new.creates <=> ~cart.exists),
         Fits(new)
  PROVE  IInv'
<1>0. Typed /\ \A o \in Orders : OrderInv(o)
  BY DEF IInv, CartInv
<1>1. Goes(w, new)
  BY <1>0 DEF Step, Goto, Goes, Typed
<1>2. UNCHANGED <<products, cart, lines, started, answers, raced, ideal, shown, orders>>
  BY DEF Step, Work, cartRows, counters, ghosts, catalog
<1>3. jobs'[w].pc # "done" /\ jobs[w].pc # "idle"
  BY <1>1, IdleIs DEF Goes
<1>4. behind' = behind
  BY <1>0, <1>3 DEF Work, Repeats, Commits, Typed
<1>5. touched' = touched
  <2>1. touched' = [o \in Orders |-> touched[o]]
    BY <1>3 DEF Work, Reads, Commits
  <2>2. QED
    BY <1>0, <2>1 DEF Typed
<1>6. started' \in Nat /\ behind' \in BOOLEAN
  BY <1>0, <1>2, <1>4 DEF Typed
<1>7. w \notin Coming' /\ w \notin Coming
  BY <1>3 DEF Coming
<1>8. ASSUME NEW o \in Orders
      PROVE  /\ Reading(w, o)' => Reading(w, o)
             /\ new.pc # "idle" /\ new.by = o /\ new.kind = "clear" => orders[o].status = "confirmed"
  BY <1>0, <1>1, <1>3 DEF Reading, OrderInv, Goes
<1>9. Quiet(w, new)
  BY <1>1, <1>2, <1>4, <1>5, <1>6, <1>7, <1>8 DEF Quiet, Still
<1>10. QED
  BY <1>9, QuietKeeps

(* A command that is answered with an error has changed nothing.           *)
LEMMA FailKeeps ==
  ASSUME IInv, NEW w \in Workers, Work(w), Fail(w), jobs[w] \in GoodJob, jobs[w].pc # "done"
  PROVE  IInv'
<1>1. PICK new : new = Ended(jobs[w], "failed", NoAnswer)
  OBVIOUS
<1>2. new \in GoodJob /\ new.pc = "failed" /\ new.kind = jobs[w].kind /\ new.by = jobs[w].by
  BY <1>1, EndedIs, NothingIs
<1>3. Step(w, new)
  BY <1>1 DEF Fail, Step
<1>4. new.pc \notin InTransaction /\ new.pc # "done"
  BY <1>2 DEF InTransaction
<1>5. Fits(new)
  BY <1>4 DEF Fits
<1>6. QED
  BY <1>2, <1>3, <1>4, <1>5, WorkIsQuiet

(* The catalog's rows.                                                     *)
LEMMA OfferIs ==
  ASSUME Typed, NEW job \in GoodJob, NEW p, job.kind = "add",
         p = GetProduct(job.product), Offers(p, job.variant)
  PROVE  p \in ProductRow /\ job.variant \in DOMAIN p.variants
<1>1. p # NoProduct
  BY DEF Offers, NoProduct
<1>2. p = products[job.product] /\ products[job.product].exists
  BY <1>1 DEF GetProduct
<1>3. QED
  BY <1>1, <1>2 DEF Typed, Offers, GoodJob, Job

(* What is stored about a job under way.                                   *)
LEMMA JobFacts ==
  ASSUME IInv, NEW w \in Workers, jobs[w].pc # "idle"
  PROVE  /\ Typed /\ CartHeld /\ Placed /\ jobs[w] \in GoodJob /\ Fits(jobs[w])
         /\ Within(w) /\ jobs[w].pc # "create" => (jobs[w].creates <=> ~cart.exists)
BY JobIs DEF IInv, CartInv, JobInv, CartHeld

(* addItem asks for the product.                                           *)
LEMMA GetProductByIdKeeps ==
  ASSUME IInv, NEW w \in Workers, Work(w), GetProductById(w)
  PROVE  IInv'
<1>1. jobs[w].pc = "product"
  BY DEF GetProductById
<1>2. Typed /\ jobs[w] \in GoodJob
  BY <1>1, JobFacts
<1>3. jobs[w].kind = "add"
  BY <1>1, <1>2 DEF GoodJob
<1>4. PICK p : p = GetProduct(jobs[w].product)
  OBVIOUS
<1>5. CASE Offers(p, jobs[w].variant)
  <2>1. p \in ProductRow /\ jobs[w].variant \in DOMAIN p.variants
    BY ONLY <1>2, <1>3, <1>4, <1>5, OfferIs
  <2>2. PICK new : new = [jobs[w] EXCEPT !.pc = "cart", !.offer = p]
    OBVIOUS
  <2>3. Step(w, new)
    BY <1>4, <1>5, <2>2 DEF GetProductById
  <2>4. /\ new \in Job /\ new.pc = "cart" /\ new.offer = p /\ new.kind = "add"
        /\ new.by = jobs[w].by /\ new.variant = jobs[w].variant /\ new.writes = jobs[w].writes
        /\ new.currency = jobs[w].currency /\ new.creates = jobs[w].creates
        /\ new.product = jobs[w].product
    BY <1>2, <1>3, <2>1, <2>2 DEF GoodJob, Job
  <2>5. new \in GoodJob
    BY <1>1, <1>2, <1>3, <2>1, <2>4 DEF GoodJob, InTransaction
  <2>6. Fits(new) /\ new.pc \notin InTransaction
    BY <2>4 DEF Fits, InTransaction
  <2>7. QED
    BY <1>1, <1>2, <1>3, <2>3, <2>4, <2>5, <2>6, WorkIsQuiet
<1>6. CASE ~Offers(p, jobs[w].variant)
  BY <1>1, <1>2, <1>4, <1>6, FailKeeps DEF GetProductById
<1>7. QED
  BY <1>5, <1>6

(* A transaction is rolled back.                                           *)
LEMMA AbortKeeps ==
  ASSUME IInv, NEW w \in Workers, Work(w), Abort(w)
  PROVE  IInv'
<1>1. jobs[w].pc \notin {"idle", "done"}
  BY DEF Abort, InTransaction
<1>2. QED
  BY <1>1, JobFacts, FailKeeps DEF Abort

(* A transaction that writes the cart's row has it to itself.              *)
LEMMA CartIsFree ==
  ASSUME NEW w \in Workers, CartFree(w)
  PROVE  \A x \in Workers \ {w} : ~Holds(x)
BY DEF CartFree, Holds, Within

(* A cart is made.                                                         *)
LEMMA CreateCartKeeps ==
  ASSUME IInv, NEW w \in Workers, Work(w), CreateCart(w)
  PROVE  IInv'
<1>1. jobs[w].pc = "create"
  BY DEF CreateCart
<1>2. Typed /\ CartHeld /\ jobs[w] \in GoodJob
  BY <1>1, JobFacts
<1>3. CASE cart.exists
  BY <1>1, <1>2, <1>3, FailKeeps DEF CreateCart
<1>4. CASE ~cart.exists
  <2>1. PICK c : c = IF jobs[w].kind = "add" THEN jobs[w].offer.currency ELSE DefaultCurrency
    OBVIOUS
  <2>2. c \in Currencies /\ c # Keep
    <3>1. jobs[w].kind = "add" => jobs[w].offer \in ProductRow
      BY <1>1, <1>2 DEF GoodJob, InTransaction
    <3>2. QED
      BY <2>1, <3>1, CartAssumption DEF ProductRow
  <2>3. PICK pc : pc = AfterCart(jobs[w].kind)
    OBVIOUS
  <2>4. /\ jobs[w].kind = "add" => pc = "currency"
        /\ jobs[w].kind = "get" => pc = "fetch"
        /\ jobs[w].kind \notin {"add", "get"} => pc = "find"
    BY <2>3 DEF AfterCart
  <2>5. PICK new : new = [jobs[w] EXCEPT !.pc = pc, !.creates = TRUE, !.currency = c, !.seen = c]
    OBVIOUS
  <2>6. Step(w, new) /\ CartFree(w)
    BY <1>4, <2>1, <2>3, <2>5 DEF CreateCart
  <2>7. /\ new \in Job /\ new.pc = pc /\ new.offer = jobs[w].offer /\ new.kind = jobs[w].kind
        /\ new.by = jobs[w].by /\ new.variant = jobs[w].variant /\ new.writes = jobs[w].writes
        /\ new.currency = c /\ new.creates = TRUE /\ new.product = jobs[w].product
        /\ new.seen = c /\ new.alone = jobs[w].alone
    BY <1>2, <2>2, <2>4, <2>5, ZenonT(60) DEF GoodJob, Job, InTransaction
  <2>8. jobs[w].kind \in {"add", "clear", "get"}
    BY <1>1, <1>2 DEF GoodJob, Job
  <2>9. new \in GoodJob
    BY <1>1, <1>2, <2>2, <2>4, <2>7, <2>8 DEF GoodJob, InTransaction
  <2>10. Rows(lines) = {}
    BY <1>2, <1>4 DEF CartHeld, Rows
  <2>11. Fits(new)
    BY <2>2, <2>4, <2>7, <2>10 DEF Fits, CurrencyOf
  <2>12. Within(w) /\ \A x \in Workers \ {w} : ~Holds(x)
    BY <1>1, <2>6, CartIsFree DEF Within, InTransaction
  <2>13. new.pc # "done" /\ jobs[w].pc # "done"
    BY <1>1, <2>4, <2>7
  <2>14. QED
    BY ONLY IInv, Work(w), w \in Workers, <1>2, <1>4, <2>6, <2>7, <2>9, <2>11, <2>12, <2>13, WorkIsQuiet
<1>5. QED
  BY <1>3, <1>4

(* A transaction that has written no line sees the lines there are.        *)
LEMMA NothingWritten ==
  ASSUME Typed, NEW w \in Workers, NEW job \in GoodJob, jobs[w] = job, job.pc # "store"
  PROVE  View(w) = lines /\ ViewOf(job) = lines
BY DEF View, ViewOf, Typed, Lines, GoodJob

(* The currency of the cart is changed for the first line.                 *)
LEMMA EnsureCartCurrencyKeeps ==
  ASSUME IInv, NEW w \in Workers, Work(w), EnsureCartCurrency(w)
  PROVE  IInv'
<1>1. jobs[w].pc = "currency"
  BY DEF EnsureCartCurrency
<1>2. /\ Typed /\ CartHeld /\ jobs[w] \in GoodJob /\ Fits(jobs[w]) /\ Within(w)
      /\ (jobs[w].creates <=> ~cart.exists)
  BY <1>1, JobFacts DEF Within, InTransaction
<1>3. /\ jobs[w].kind = "add" /\ jobs[w].offer \in ProductRow
      /\ jobs[w].offer.currency \in Currencies /\ jobs[w].offer.currency # Keep
  BY <1>1, <1>2, CartAssumption DEF GoodJob, InTransaction, ProductRow
<1>4. jobs[w].alone => jobs[w].seen = CurrencyOf(jobs[w])
                       /\ (jobs[w].currency # Keep => Rows(lines) = {})
  BY <1>1, <1>2, <1>3 DEF Fits, InTransaction
<1>5. CASE jobs[w].seen = jobs[w].offer.currency
  <2>1. PICK new : new = [jobs[w] EXCEPT !.pc = "find"]
    OBVIOUS
  <2>2. Step(w, new)
    BY <1>5, <2>1 DEF EnsureCartCurrency
  <2>3. /\ new \in Job /\ new.pc = "find" /\ new.offer = jobs[w].offer /\ new.kind = "add"
        /\ new.by = jobs[w].by /\ new.variant = jobs[w].variant /\ new.writes = jobs[w].writes
        /\ new.currency = jobs[w].currency /\ new.creates = jobs[w].creates
        /\ new.product = jobs[w].product /\ new.alone = jobs[w].alone
    BY <1>2, <1>3, <2>1 DEF GoodJob, Job, InTransaction
  <2>4. new \in GoodJob
    BY <1>1, <1>2, <1>3, <2>3 DEF GoodJob, InTransaction
  <2>5. Fits(new)
    BY <1>4, <1>5, <2>3 DEF Fits, CurrencyOf
  <2>6. new.currency # Keep => Holds(w)
    BY <1>2, <2>3 DEF Holds
  <2>7. QED
    BY <1>1, <1>2, <1>3, <2>2, <2>3, <2>4, <2>5, <2>6, WorkIsQuiet
<1>6. CASE jobs[w].seen # jobs[w].offer.currency /\ Rows(View(w)) # {}
  BY <1>1, <1>2, <1>6, FailKeeps DEF EnsureCartCurrency
<1>7. CASE jobs[w].seen # jobs[w].offer.currency /\ Rows(View(w)) = {}
  <2>1. PICK new : new = [jobs[w] EXCEPT !.pc = "find", !.currency = jobs[w].offer.currency]
    OBVIOUS
  <2>2. Step(w, new) /\ CartFree(w)
    BY <1>7, <2>1 DEF EnsureCartCurrency
  <2>3. /\ new \in Job /\ new.pc = "find" /\ new.offer = jobs[w].offer /\ new.kind = "add"
        /\ new.by = jobs[w].by /\ new.variant = jobs[w].variant /\ new.writes = jobs[w].writes
        /\ new.currency = jobs[w].offer.currency /\ new.creates = jobs[w].creates
        /\ new.product = jobs[w].product /\ new.alone = jobs[w].alone
    BY <1>2, <1>3, <2>1 DEF GoodJob, Job, InTransaction
  <2>4. new \in GoodJob
    BY <1>1, <1>2, <1>3, <2>3 DEF GoodJob, InTransaction
  <2>5. Rows(lines) = {}
    BY <1>1, <1>2, <1>7, NothingWritten
  <2>6. Fits(new)
    BY <1>3, <2>3, <2>5 DEF Fits, CurrencyOf
  <2>7. \A x \in Workers \ {w} : ~Holds(x)
    BY <2>2, CartIsFree
  <2>8. QED
    BY <1>1, <1>2, <1>3, <2>2, <2>3, <2>4, <2>6, <2>7, WorkIsQuiet
<1>8. QED
  BY <1>5, <1>6, <1>7

(* The rows of the cart's lines are typed, and each is its variant's.      *)
LEMMA RowsAre ==
  ASSUME NEW ls \in Lines
  PROVE  /\ Rows(ls) \in SUBSET Found
         /\ \A l \in Rows(ls) : l = ls[l.variant] /\ l # NoLine
BY DEF Rows, Lines, Found

(* The line is looked for.                                                 *)
LEMMA FindItemKeeps ==
  ASSUME IInv, NEW w \in Workers, Work(w), FindItem(w)
  PROVE  IInv'
<1>1. jobs[w].pc = "find"
  BY DEF FindItem
<1>2. /\ Typed /\ CartHeld /\ jobs[w] \in GoodJob /\ Fits(jobs[w]) /\ Within(w)
      /\ (jobs[w].creates <=> ~cart.exists)
  BY <1>1, JobFacts DEF Within, InTransaction
<1>3. PICK rows : rows = Current(jobs[w])
  OBVIOUS
<1>4. CASE rows = {} /\ jobs[w].kind \in {"update", "remove"}
  BY <1>1, <1>2, <1>3, <1>4, FailKeeps DEF FindItem, Current
<1>5. CASE ~(rows = {} /\ jobs[w].kind \in {"update", "remove"})
  <2>1. PICK new : new = [jobs[w] EXCEPT !.pc = "write", !.found = rows]
    OBVIOUS
  <2>2. Step(w, new)
    BY <1>3, <1>5, <2>1 DEF FindItem, Current
  <2>3. rows \in SUBSET Found
    <3>1. rows \subseteq Rows(lines)
      BY <1>3 DEF Current, WithId
    <3>2. QED
      BY <1>2, <3>1, RowsAre DEF Typed
  <2>4. /\ new \in Job /\ new.pc = "write" /\ new.offer = jobs[w].offer /\ new.kind = jobs[w].kind
        /\ new.by = jobs[w].by /\ new.variant = jobs[w].variant /\ new.writes = jobs[w].writes
        /\ new.currency = jobs[w].currency /\ new.creates = jobs[w].creates
        /\ new.product = jobs[w].product /\ new.alone = jobs[w].alone /\ new.found = rows
        /\ new.item = jobs[w].item
    BY <1>2, <2>1, <2>3, ZenonT(60) DEF GoodJob, Job, InTransaction
  <2>5. new \in GoodJob
    BY <1>1, <1>2, <2>4 DEF GoodJob, InTransaction
  <2>6. Current(new) = rows
    BY <1>3, <2>4 DEF Current
  <2>7. Fits(new)
    BY <1>1, <1>2, <2>4, <2>6 DEF Fits, CurrencyOf, InTransaction
  <2>8. new.currency # Keep => Holds(w)
    BY <1>2, <2>4 DEF Holds
  <2>9. QED
    BY <1>1, <1>2, <2>2, <2>4, <2>5, <2>7, <2>8, WorkIsQuiet
<1>6. QED
  BY <1>4, <1>5

(* What a command makes of a line.                                         *)
LEMMA WrittenIs ==
  ASSUME NEW job \in GoodJob, job.kind # "get", NEW l \in Found
  PROVE  /\ Written(job, l) \in Line
         /\ Written(job, l) # NoLine =>
              Written(job, l).variant = l.variant /\ Written(job, l).currency = l.currency
         /\ job.kind = "add" => Written(job, l).quantity = l.quantity + job.quantity
         /\ job.kind = "update" => Written(job, l).quantity = job.quantity
         /\ job.kind \in {"remove", "clear"} => Written(job, l) = NoLine
<1>1. l \in Line /\ job.quantity \in Nat /\ job.kind \in {"add", "update", "remove", "clear"}
  BY DEF Found, GoodJob, Job
<1>2. CASE job.kind = "add"
  <2>1. PICK q \in Nat : q = l.quantity + job.quantity
    BY <1>1 DEF Line
  <2>2. Written(job, l) = [l EXCEPT !.quantity = q]
    BY <1>2, <2>1 DEF Written
  <2>3. QED
    BY <1>1, <1>2, <2>1, <2>2 DEF Line
<1>3. CASE job.kind = "update"
  <2>1. Written(job, l) = [l EXCEPT !.quantity = job.quantity]
    BY <1>3 DEF Written
  <2>2. QED
    BY <1>1, <1>3, <2>1 DEF Line
<1>4. CASE job.kind \in {"remove", "clear"}
  BY <1>4, NothingIs DEF Written
<1>5. QED
  BY <1>1, <1>2, <1>3, <1>4

(* A line that is added.                                                   *)
LEMMA NewLineIs ==
  ASSUME NEW job \in GoodJob, job.kind = "add", job.pc = "write"
  PROVE  /\ NewLine(job) \in Found /\ NewLine(job).variant = job.variant
         /\ NewLine(job).quantity = job.quantity /\ NewLine(job).currency = job.offer.currency
<1>1. /\ job.offer \in ProductRow /\ job.variant \in DOMAIN job.offer.variants
      /\ job.variant \in Variants /\ job.serial \in Nat /\ job.quantity \in Nat
  BY DEF GoodJob, Job, InTransaction
<1>2. PICK vs : vs = job.offer.variants
  OBVIOUS
<1>3. IsVariants(vs)
  <2>1. vs \in VariantsGiven
    BY <1>1, <1>2 DEF ProductRow
  <2>2. \A p \in NewProducts : IsVariants(p.variants)
    BY CatalogAssumption DEF IsProduct
  <2>3. \A e \in Edits : "variants" \in DOMAIN e => IsVariants(e.variants)
    BY CatalogAssumption DEF IsEdit
  <2>4. QED
    BY <2>1, <2>2, <2>3 DEF VariantsGiven
<1>4. vs[job.variant] \in VariantData
  BY <1>1, <1>2, <1>3 DEF IsVariants
<1>5. UnitPrice(job.offer, job.variant) \in Prices
  BY <1>1, <1>2, <1>4 DEF UnitPrice, VariantData, ProductRow
<1>6. job.offer.currency \in Currencies
  BY <1>1 DEF ProductRow
<1>7. QED
  BY <1>1, <1>5, <1>6 DEF NewLine, Found, Line

(* What a command writes: the line it adds, or what it makes of the lines  *)
(* that it has found and that are still there.                             *)
AsWritten(job, new) ==
  /\ new \in Writings
  /\ job.kind = "add" /\ job.found = {} =>
       DOMAIN new = {job.variant} /\ new[job.variant] = NewLine(job)
  /\ ~(job.kind = "add" /\ job.found = {}) =>
       /\ DOMAIN new = {l.variant : l \in {k \in job.found : WithId(lines, k.id) # {}}}
       /\ \A v \in DOMAIN new : \E l \in job.found : l.variant = v /\ new[v] = Written(job, l)

(* A command writes so.                                                    *)
LEMMA WritesAre ==
  ASSUME NEW job \in GoodJob, job.kind # "get", job.pc = "write", NEW new, new = Writes(job)
  PROVE  AsWritten(job, new)
<1>1. CASE job.kind = "add" /\ job.found = {}
  <2>1. new = [v \in {job.variant} |-> NewLine(job)]
    BY <1>1 DEF Writes
  <2>2. NewLine(job) \in Line /\ job.variant \in Variants
    BY <1>1, NewLineIs DEF Found, GoodJob
  <2>3. new \in [{job.variant} -> Line] /\ {job.variant} \in SUBSET Variants
    BY <2>1, <2>2
  <2>4. QED
    BY <1>1, <2>1, <2>3 DEF Writings, AsWritten
<1>2. CASE ~(job.kind = "add" /\ job.found = {})
  <2>1. PICK vs : vs = {l.variant : l \in {k \in job.found : WithId(lines, k.id) # {}}}
    OBVIOUS
  <2>2. new = [v \in vs |-> Written(job, CHOOSE l \in job.found : l.variant = v)]
    BY <1>2, <2>1 DEF Writes
  <2>3. ASSUME NEW v \in vs
        PROVE  \E l \in job.found : l.variant = v /\ new[v] = Written(job, l)
    <3>1. \E l \in job.found : l.variant = v
      BY <2>1
    <3>2. PICK l \in job.found : l.variant = v /\ l = CHOOSE k \in job.found : k.variant = v
      BY <3>1
    <3>3. new[v] = Written(job, l)
      BY <2>2, <3>2
    <3>4. QED
      BY <3>2, <3>3
  <2>4. vs \in SUBSET Variants /\ DOMAIN new = vs
    BY <2>1, <2>2 DEF GoodJob, Job, Found
  <2>5. \A v \in vs : new[v] \in Line
    BY <2>3, WrittenIs DEF GoodJob, Job
  <2>6. new \in [vs -> Line]
    BY <2>2, <2>5
  <2>7. QED
    BY <1>2, <2>1, <2>3, <2>4, <2>6 DEF Writings, AsWritten
<1>3. QED
  BY <1>1, <1>2

(* What it writes is in the place of its variant.                          *)
LEMMA WritesPlaced ==
  ASSUME NEW job \in GoodJob, job.kind # "get", job.pc = "write", NEW new, new = Writes(job),
         NEW v \in DOMAIN new
  PROVE  /\ v \in Variants /\ new[v] \in Line
         /\ new[v] # NoLine => new[v].variant = v
         /\ job.kind = "clear" => new[v] = NoLine
<1>0. AsWritten(job, new)
  BY WritesAre
<1>1. /\ new \in Writings
      /\ job.kind = "add" /\ job.found = {} =>
           DOMAIN new = {job.variant} /\ new[job.variant] = NewLine(job)
      /\ ~(job.kind = "add" /\ job.found = {}) =>
           \A u \in DOMAIN new : \E l \in job.found : l.variant = u /\ new[u] = Written(job, l)
  BY <1>0 DEF AsWritten
<1>2. PICK V \in SUBSET Variants : new \in [V -> Line]
  BY <1>1 DEF Writings
<1>3. CASE job.kind = "add" /\ job.found = {}
  BY <1>1, <1>2, <1>3, NewLineIs
<1>4. CASE ~(job.kind = "add" /\ job.found = {})
  <2>1. PICK l \in job.found : l.variant = v /\ new[v] = Written(job, l)
    BY <1>1, <1>4
  <2>2. l \in Found
    BY DEF GoodJob, Job
  <2>3. QED
    BY <1>2, <2>1, <2>2, WrittenIs
<1>5. QED
  BY <1>3, <1>4

(* A command that is alone finds the lines there are, and so writes over   *)
(* them.                                                                   *)
LEMMA WritesWhatIs ==
  ASSUME Typed, NEW job \in GoodJob, job.kind # "get", job.pc = "write",
         job.found = Current(job), NEW new, new = Writes(job)
  PROVE  /\ ~(job.kind = "add" /\ job.found = {}) =>
              /\ DOMAIN new = Targets(job)
              /\ \A v \in DOMAIN new : /\ lines[v] \in job.found /\ lines[v] # NoLine
                                       /\ new[v] = Written(job, lines[v])
         /\ job.found \in SUBSET Rows(lines)
<1>1. job.found \subseteq Rows(lines)
  BY DEF Current, WithId
<1>2. ASSUME NEW l \in job.found
      PROVE  l = lines[l.variant] /\ l # NoLine /\ WithId(lines, l.id) # {}
  BY <1>1, RowsAre DEF Typed, WithId
<1>3. AsWritten(job, new)
  BY WritesAre
<1>4. CASE ~(job.kind = "add" /\ job.found = {})
  <2>1. DOMAIN new = {l.variant : l \in {k \in job.found : WithId(lines, k.id) # {}}}
    BY <1>3, <1>4 DEF AsWritten
  <2>2. {k \in job.found : WithId(lines, k.id) # {}} = job.found
    BY <1>2
  <2>3. DOMAIN new = Targets(job)
    BY <1>4, <2>1, <2>2 DEF Targets
  <2>4. ASSUME NEW v \in DOMAIN new
        PROVE  lines[v] \in job.found /\ lines[v] # NoLine /\ new[v] = Written(job, lines[v])
    <3>1. PICK l \in job.found : l.variant = v /\ new[v] = Written(job, l)
      BY <1>3, <1>4 DEF AsWritten
    <3>2. QED
      BY <1>2, <3>1
  <2>5. QED
    BY <1>1, <2>3, <2>4
<1>5. QED
  BY <1>1, <1>4

(* What a command that is alone leaves.                                    *)
LEMMA WritesApply ==
  ASSUME Typed, Placed, NEW job \in GoodJob, job.kind # "get", job.pc = "write",
         job.found = Current(job), ~Outrun(job), NEW new, new = Writes(job),
         NEW v \in Variants
  PROVE  (IF v \in DOMAIN new THEN new[v] ELSE lines[v]).quantity = Applied(job)[v]
<1>0. /\ lines[v] \in Line /\ lines[v].quantity \in Nat /\ ideal[v] = lines[v].quantity
      /\ job.quantity \in Nat
      /\ lines[v] # NoLine => lines[v].variant = v /\ lines[v] \in Rows(lines)
  BY DEF Typed, Lines, Line, Placed, GoodJob, Job, Rows
<1>1. PICK q : q = Applied(job)[v]
  OBVIOUS
<1>2. q = CASE job.kind = "clear"                     -> 0
            [] job.kind = "add" /\ v = job.variant    -> ideal[v] + job.quantity
            [] job.kind = "update" /\ v \in Targets(job) -> job.quantity
            [] job.kind = "remove" /\ v \in Targets(job) -> 0
            [] OTHER                                  -> ideal[v]
  BY <1>1 DEF Applied
<1>3. CASE job.kind = "add" /\ job.found = {}
  <2>1. DOMAIN new = {job.variant} /\ new[job.variant] = NewLine(job)
    BY <1>3, WritesAre DEF AsWritten
  <2>2. v = job.variant => lines[v] = NoLine
    BY <1>3 DEF Outrun
  <2>3. v = job.variant => q = job.quantity
    BY <1>0, <1>2, <1>3, <2>2, NothingIs
  <2>4. v # job.variant => q = ideal[v]
    BY <1>2, <1>3
  <2>5. QED
    BY <1>0, <1>1, <1>3, <2>1, <2>3, <2>4, NewLineIs
<1>4. CASE ~(job.kind = "add" /\ job.found = {})
  <2>1. /\ DOMAIN new = Targets(job)
        /\ \A u \in DOMAIN new : /\ lines[u] \in job.found /\ lines[u] # NoLine
                                 /\ new[u] = Written(job, lines[u])
        /\ job.found \in SUBSET Rows(lines)
    BY <1>4, WritesWhatIs
  <2>2. v \in DOMAIN new => lines[v] \in Found
    BY <2>1 DEF GoodJob, Job
  <2>3. Targets(job) = {l.variant : l \in job.found}
    BY <1>4 DEF Targets
  <2>4. CASE job.kind = "clear"
    <3>1. lines[v] # NoLine => v \in DOMAIN new
      BY <1>0, <2>1, <2>3, <2>4 DEF Current
    <3>2. v \in DOMAIN new => new[v] = NoLine
      BY <2>1, <2>2, <2>4, WrittenIs
    <3>3. QED
      BY <1>1, <1>2, <2>4, <3>1, <3>2, NothingIs
  <2>5. CASE job.kind = "add"
    <3>1. job.found \subseteq {lines[job.variant]} /\ job.found # {}
      BY <1>4, <2>5 DEF Current
    <3>2. v \in DOMAIN new <=> v = job.variant
      <4>1. lines[job.variant] \in job.found
        BY <3>1
      <4>2. lines[job.variant].variant = job.variant
        BY <2>1, <2>5, <4>1 DEF Typed, Lines, Rows, GoodJob
      <4>3. QED
        BY <2>1, <2>3, <3>1, <4>1, <4>2
    <3>3. v = job.variant => q = ideal[v] + job.quantity
      BY <1>2, <2>5
    <3>4. v # job.variant => q = ideal[v]
      BY <1>2, <2>5
    <3>5. v = job.variant => new[v].quantity = lines[v].quantity + job.quantity
      BY <2>1, <2>2, <2>5, <3>2, WrittenIs
    <3>6. QED
      BY <1>0, <1>1, <3>2, <3>3, <3>4, <3>5
  <2>6. CASE job.kind = "update"
    <3>1. v \in Targets(job) => q = job.quantity
      BY <1>2, <2>6
    <3>2. v \notin Targets(job) => q = ideal[v]
      BY <1>2, <2>6
    <3>3. v \in DOMAIN new => new[v].quantity = job.quantity
      BY <2>1, <2>2, <2>6, WrittenIs
    <3>4. QED
      BY <1>0, <1>1, <2>1, <3>1, <3>2, <3>3
  <2>7. CASE job.kind = "remove"
    <3>1. v \in Targets(job) => q = 0
      BY <1>2, <2>7
    <3>2. v \notin Targets(job) => q = ideal[v]
      BY <1>2, <2>7
    <3>3. v \in DOMAIN new => new[v] = NoLine
      BY <2>1, <2>2, <2>7, WrittenIs
    <3>4. QED
      BY <1>0, <1>1, <2>1, <3>1, <3>2, <3>3, NothingIs
  <2>8. QED
    BY <2>4, <2>5, <2>6, <2>7 DEF GoodJob, Job
<1>5. QED
  BY <1>3, <1>4

(* The lines as the command leaves them.                                   *)
LEMMA ViewIs ==
  ASSUME Typed, NEW job \in GoodJob, job.kind # "get", job.pc = "write",
         NEW new, new = Writes(job), NEW view,
         view = [v \in Variants |-> IF v \in DOMAIN new THEN new[v] ELSE lines[v]]
  PROVE  view \in Lines
<1>1. \A v \in DOMAIN new : /\ v \in Variants /\ new[v] \in Line
                            /\ new[v] # NoLine => new[v].variant = v
  BY WritesPlaced
<1>2. \A v \in Variants : lines[v] \in Line /\ (lines[v] # NoLine => lines[v].variant = v)
  BY DEF Typed, Lines
<1>3. ASSUME NEW v \in Variants
      PROVE  view[v] \in Line /\ (view[v] # NoLine => view[v].variant = v)
  BY <1>1, <1>2
<1>4. QED
  BY <1>3 DEF Lines

(* The command, when it has written its lines.                             *)
LEMMA WritesFit ==
  ASSUME Typed, CartHeld, Placed, NEW job \in GoodJob, Fits(job), job.pc = "write",
         ~Outrun(job), job.alone,
         NEW new, new = Writes(job), NEW view,
         view = [v \in Variants |-> IF v \in DOMAIN new THEN new[v] ELSE lines[v]]
  PROVE  /\ \A v \in Variants : view[v].quantity = Applied(job)[v]
         /\ job.kind = "clear" => Subtotal(view) = 0
         /\ \A v \in DOMAIN new : new[v] # NoLine =>
              \/ lines[v] # NoLine /\ new[v].currency = lines[v].currency
              \/ job.kind = "add" /\ new[v].currency = job.offer.currency
<1>0. job.kind # "get"
  BY DEF GoodJob
<1>1. job.found = Current(job)
  BY <1>0 DEF Fits, InTransaction
<1>2. ASSUME NEW v \in Variants
      PROVE  view[v].quantity = Applied(job)[v]
  <2>1. (IF v \in DOMAIN new THEN new[v] ELSE lines[v]).quantity = Applied(job)[v]
    BY ONLY Typed, Placed, job \in GoodJob, <1>0, job.pc = "write", <1>1, ~Outrun(job),
            new = Writes(job), v \in Variants, WritesApply
  <2>2. QED
    BY <2>1
<1>3. /\ ~(job.kind = "add" /\ job.found = {}) =>
           /\ DOMAIN new = Targets(job)
           /\ \A v \in DOMAIN new : /\ lines[v] \in job.found /\ lines[v] # NoLine
                                    /\ new[v] = Written(job, lines[v])
      /\ job.found \in SUBSET Rows(lines)
  BY ONLY Typed, job \in GoodJob, <1>0, job.pc = "write", <1>1, new = Writes(job), WritesWhatIs
<1>4. ASSUME job.kind = "clear"
      PROVE  Subtotal(view) = 0
  <2>1. job.found = Rows(lines)
    BY <1>1, <1>4 DEF Current
  <2>2. DOMAIN new = {l.variant : l \in Rows(lines)}
    BY <1>3, <1>4, <2>1 DEF Targets
  <2>3. ASSUME NEW v \in Variants
        PROVE  view[v] = NoLine
    <3>1. lines[v] # NoLine => v \in DOMAIN new
      BY <2>2 DEF Typed, Lines, Rows
    <3>2. v \in DOMAIN new => new[v] = NoLine
      BY <1>0, <1>4, WritesPlaced
    <3>3. QED
      BY <3>1, <3>2
  <2>4. QED
    BY <2>3, NothingSums
<1>5. ASSUME NEW v \in DOMAIN new, new[v] # NoLine
      PROVE  \/ lines[v] # NoLine /\ new[v].currency = lines[v].currency
             \/ job.kind = "add" /\ new[v].currency = job.offer.currency
  <2>1. CASE job.kind = "add" /\ job.found = {}
    <3>1. DOMAIN new = {job.variant} /\ new[job.variant] = NewLine(job)
      BY <1>0, <2>1, WritesAre DEF AsWritten
    <3>2. QED
      BY <1>5, <2>1, <3>1, NewLineIs
  <2>2. CASE ~(job.kind = "add" /\ job.found = {})
    <3>1. lines[v] \in Found
      BY <1>3, <2>2 DEF GoodJob, Job
    <3>2. QED
      BY <1>0, <1>3, <1>5, <2>2, <3>1, WrittenIs
  <2>3. QED
    BY <2>1, <2>2
<1>6. QED
  BY <1>2, <1>4, <1>5

(* The lines are written, and the totals read.                             *)
LEMMA WriteLinesKeeps ==
  ASSUME IInv, NEW w \in Workers, Work(w), WriteLines(w)
  PROVE  IInv'
<1>1. jobs[w].pc = "write"
  BY DEF WriteLines
<1>2. PICK job : job = jobs[w]
  OBVIOUS
<1>3. /\ Typed /\ CartHeld /\ Placed /\ job \in GoodJob /\ Fits(job) /\ Within(w)
      /\ (job.creates <=> ~cart.exists)
  BY <1>1, <1>2, JobFacts DEF Within, InTransaction
<1>4. CASE Outrun(job)
  BY <1>1, <1>2, <1>3, <1>4, FailKeeps DEF WriteLines
<1>5. CASE ~Outrun(job)
  <2>0. job.kind # "get" /\ job.pc = "write"
    BY <1>1, <1>2, <1>3 DEF GoodJob
  <2>1. PICK new : new = Writes(job)
    OBVIOUS
  <2>2. PICK view : view = [v \in Variants |-> IF v \in DOMAIN new THEN new[v] ELSE lines[v]]
    OBVIOUS
  <2>3. PICK sum : sum = IF job.kind = "clear" THEN 0 ELSE Subtotal(view)
    OBVIOUS
  <2>4. PICK done : done = [job EXCEPT !.pc = "store", !.writes = new, !.sum = sum]
    OBVIOUS
  <2>5. Step(w, done)
    BY <1>2, <1>5, <2>1, <2>2, <2>3, <2>4 DEF WriteLines
  <2>6. new \in Writings
    BY <1>3, <2>0, <2>1, WritesAre DEF AsWritten
  <2>7. view \in Lines
    BY ONLY <1>3, <2>0, <2>1, <2>2, ViewIs
  <2>8. sum \in Sums
    BY <2>3, <2>7 DEF Sums
  <2>9. /\ done \in Job /\ done.pc = "store" /\ done.offer = job.offer /\ done.kind = job.kind
        /\ done.by = job.by /\ done.variant = job.variant /\ done.writes = new
        /\ done.currency = job.currency /\ done.creates = job.creates
        /\ done.product = job.product /\ done.alone = job.alone /\ done.found = job.found
        /\ done.quantity = job.quantity /\ done.sum = sum
    BY <1>3, <2>4, <2>6, <2>8 DEF GoodJob, Job, InTransaction
  <2>10. \A v \in DOMAIN new : /\ new[v] # NoLine => new[v].variant = v
                               /\ job.kind = "clear" => new[v] = NoLine
    BY <1>3, <2>0, <2>1, WritesPlaced
  <2>11. done \in GoodJob
    BY <1>3, <2>0, <2>9, <2>10 DEF GoodJob, InTransaction
  <2>12. Fits(done)
    <3>1. ViewOf(done) = view /\ Applied(done) = Applied(job) /\ CurrencyOf(done) = CurrencyOf(job)
      BY <2>2, <2>9 DEF ViewOf, Applied, Targets, CurrencyOf
    <3>2. CASE job.alone
      <4>1. /\ \A v \in Variants : view[v].quantity = Applied(job)[v]
            /\ job.kind = "clear" => Subtotal(view) = 0
            /\ \A v \in DOMAIN new : new[v] # NoLine =>
                 \/ lines[v] # NoLine /\ new[v].currency = lines[v].currency
                 \/ job.kind = "add" /\ new[v].currency = job.offer.currency
        BY ONLY <1>3, <1>5, <2>0, <2>1, <2>2, <3>2, WritesFit
      <4>2. /\ job.kind = "add" => CurrencyOf(job) = job.offer.currency
            /\ job.currency # Keep => Rows(lines) = {}
        BY <1>3, <2>0, <3>2 DEF Fits, InTransaction
      <4>3. sum = Subtotal(view)
        BY <2>3, <4>1
      <4>4. QED
        BY <2>9, <3>1, <4>1, <4>2, <4>3 DEF Fits
    <3>3. CASE ~job.alone
      BY <2>9, <3>3 DEF Fits
    <3>4. QED
      BY <3>2, <3>3
  <2>13. done.currency # Keep => Holds(w)
    BY <1>2, <1>3, <2>9 DEF Holds
  <2>14. QED
    BY <1>2, <1>3, <2>0, <2>5, <2>9, <2>11, <2>12, <2>13, WorkIsQuiet
<1>6. QED
  BY <1>4, <1>5

(* A command that is no longer alone.                                      *)
LEMMA JoinedIs ==
  ASSUME NEW job \in GoodJob, NEW new, new = [job EXCEPT !.alone = FALSE]
  PROVE  /\ new \in GoodJob /\ ~new.alone
         /\ new.pc = job.pc /\ new.kind = job.kind /\ new.by = job.by
         /\ new.currency = job.currency /\ new.creates = job.creates
<1>1. /\ new \in Job /\ new.pc = job.pc /\ new.kind = job.kind /\ new.by = job.by
      /\ new.currency = job.currency /\ new.creates = job.creates
      /\ new.variant = job.variant /\ new.product = job.product /\ new.offer = job.offer
      /\ new.writes = job.writes /\ new.answer = job.answer /\ ~new.alone
  BY DEF GoodJob, Job
<1>2. new \in GoodJob
  <2>1. \A v \in DOMAIN new.writes : /\ new.writes[v] # NoLine => new.writes[v].variant = v
                                     /\ new.kind = "clear" => new.writes[v] = NoLine
    BY <1>1 DEF GoodJob
  <2>2. new.kind = "add" /\ new.pc \in {"cart"} \cup InTransaction =>
          new.offer \in ProductRow /\ new.variant \in DOMAIN new.offer.variants
    BY <1>1 DEF GoodJob
  <2>3. new.pc = "done" => new.answer.at > 0
    BY <1>1 DEF GoodJob
  <2>4. /\ new.pc \in {"product", "currency"} => new.kind = "add"
        /\ new.pc = "fetch" => new.kind = "get"
        /\ new.pc \in {"find", "write", "store"} => new.kind # "get"
        /\ new.by \in Orders => new.kind \in {"get", "clear"}
        /\ new.pc # "store" => DOMAIN new.writes = {}
        /\ new.pc \in {"cart", "create", "product"} => new.currency = Keep /\ ~new.creates
        /\ new.creates => new.currency # Keep
        /\ new.kind # "add" /\ ~new.creates => new.currency = Keep
        /\ new.kind \in {"update", "remove"} => ~new.creates /\ new.pc # "create"
        /\ new.kind = "add" => new.variant \in Variants /\ new.product \in Products
    BY <1>1 DEF GoodJob
  <2>5. new \in Job
    BY <1>1
  <2>6. QED
    BY ONLY <2>1, <2>2, <2>3, <2>4, <2>5 DEF GoodJob
<1>3. QED
  BY <1>1, <1>2

(* The transaction that begins, and what it makes of the others.           *)
LEMMA FoundCartKeeps ==
  ASSUME IInv, NEW w \in Workers, jobs[w].pc = "cart",
         NEW new \in GoodJob, jobs'[w] = new,
         new.pc = IF cart.exists THEN AfterCart(jobs[w].kind) ELSE "create",
         new.kind = jobs[w].kind, new.by = jobs[w].by, new.currency = Keep, ~new.creates,
         new.seen = cart.currency, new.alone => new.kind = "get" \/ Writers = {},
         jobs' \in [Workers -> GoodJob \cup {Idle}],
         \A x \in Workers \ {w} :
           \/ jobs'[x] = jobs[x] /\ (new.kind = "get" \/ x \notin Writers)
           \/ /\ x \in Writers /\ ~jobs'[x].alone
              /\ jobs'[x].pc = jobs[x].pc /\ jobs'[x].kind = jobs[x].kind
              /\ jobs'[x].by = jobs[x].by
              /\ jobs'[x].currency = jobs[x].currency /\ jobs'[x].creates = jobs[x].creates,
         UNCHANGED <<products, cart, lines, started, answers, raced, ideal, shown, behind,
                     orders, touched>>
  PROVE  IInv'
<1>0. /\ Typed /\ CartHeld /\ Placed /\ OnlyOne
      /\ (\A x \in Workers : JobInv(x))
      /\ SumInv /\ OneCurrency /\ ShownInv
      /\ \A o \in Orders : OrderInv(o)
  BY DEF IInv, CartInv
<1>1. Typed' /\ UNCHANGED <<cart, lines, ideal>>
  BY <1>0 DEF Typed
<1>2. /\ cart.exists => new.pc = AfterCart(new.kind)
      /\ ~cart.exists => new.pc = "create"
      /\ new.pc \in InTransaction /\ new.pc \notin {"write", "store"}
      /\ new.pc = "find" => new.kind \notin {"add", "get"}
  BY DEF AfterCart, InTransaction
<1>3. /\ w \notin Writers /\ new.pc \notin {"idle", "done"}
      /\ \A x \in Writers : jobs[x].pc \notin {"idle", "done"}
  BY <1>2 DEF Writers, InTransaction
<1>4. \A x \in Workers : /\ jobs'[x].pc = "done" => jobs'[x] = jobs[x]
                         /\ jobs'[x].pc = "done" <=> jobs[x].pc = "done"
                         /\ jobs'[x].pc = "idle" <=> jobs[x].pc = "idle"
                         /\ jobs'[x].kind = jobs[x].kind \/ jobs'[x] = jobs[x]
                         /\ jobs'[x].by = jobs[x].by \/ jobs'[x] = jobs[x]
  BY <1>3
<1>5. CartHeld'
  <2>1. \A x \in Workers \ {w} : /\ Within(x)' <=> Within(x)
                                 /\ Holds(x)' <=> Holds(x)
                                 /\ jobs'[x].pc = jobs[x].pc /\ jobs'[x].creates = jobs[x].creates
    BY DEF Within, Holds
  <2>2. ~Holds(w)'
    BY DEF Holds
  <2>3. \A x, y \in Workers : Holds(x)' /\ Holds(y)' => x = y
    BY <1>0, <2>1, <2>2 DEF CartHeld
  <2>4. \A x \in Workers : Within(x)' /\ jobs'[x].pc # "create" =>
          (jobs'[x].creates <=> ~cart'.exists)
    BY <1>0, <1>2, <2>1 DEF CartHeld
  <2>5. QED
    BY <1>0, <2>3, <2>4 DEF CartHeld
<1>6. Placed' /\ SumInv' /\ OneCurrency'
  BY <1>0 DEF Placed, SumInv, OneCurrency
<1>7. OnlyOne'
  <2>1. CASE new.kind = "get"
    <3>1. w \notin Writers'
      BY <2>1 DEF Writers
    <3>2. \A x \in Workers : x \in Writers' => x \in Writers /\ (jobs'[x].alone => jobs[x].alone)
      BY <3>1 DEF Writers
    <3>3. QED
      BY <1>0, <3>2 DEF OnlyOne, Writers
  <2>2. CASE new.kind # "get"
    <3>1. \A x \in Workers \ {w} : x \in Writers' => x \in Writers /\ ~jobs'[x].alone
      BY <2>2 DEF Writers
    <3>2. QED
      BY <2>2, <3>1 DEF OnlyOne, Writers
  <2>3. QED
    BY <2>1, <2>2
<1>8. ASSUME NEW x \in Workers
      PROVE  JobInv(x)'
  <2>1. \A job \in GoodJob : Fits(job) => Fits(job)'
    BY ONLY <1>1 DEF Fits, CurrencyOf, Current, ViewOf, Applied, Targets, WithId, Rows
  <2>2. Fits(new)
    <3>1. CurrencyOf(new) = cart.currency
      BY DEF CurrencyOf
    <3>2. new.kind = "add" => new.pc \notin {"find"}
      BY <1>2
    <3>3. new.kind = "add" /\ new.pc \in InTransaction \ {"create", "fetch"} => new.pc = "currency"
      BY ONLY <1>2, <3>2 DEF InTransaction
    <3>4. new.seen = cart.currency /\ new.currency = Keep
      OBVIOUS
    <3>5. QED
      BY ONLY <1>2, <3>1, <3>3, <3>4 DEF Fits
  <2>3. \A job \in GoodJob : ~job.alone => Fits(job)
    BY DEF Fits
  <2>4. CASE x = w
    BY <2>1, <2>2, <2>4 DEF JobInv
  <2>5. CASE x # w
    BY <1>0, <2>1, <2>3, <2>5 DEF JobInv
  <2>6. QED
    BY <2>4, <2>5
<1>9. ShownInv'
  <2>1. \A x \in Workers : /\ x \in Coming' <=> x \in Coming
                           /\ x \in Coming => jobs'[x] = jobs[x]
    BY <1>4 DEF Coming
  <2>2. \A a : (Shows(a)' <=> Shows(a)) /\ (Fresh(a)' <=> Fresh(a))
    BY <2>1 DEF Shows, Coming, Fresh
  <2>3. \A x \in Workers : jobs'[x].pc = "done" => jobs'[x].answer.at <= answers'
    BY <1>0, <1>4 DEF ShownInv
  <2>4. PICK n \in 0..answers :
          /\ \A a \in Answer : Shows(a) /\ a.at >= n => Fresh(a)
          /\ ~behind => \E a \in Answer : Shows(a) /\ a.at >= n
    BY <1>0 DEF ShownInv
  <2>5. /\ n \in 0..answers'
        /\ \A a \in Answer : Shows(a)' /\ a.at >= n => Fresh(a)'
        /\ ~behind' => \E a \in Answer : Shows(a)' /\ a.at >= n
    BY <2>2, <2>4
  <2>6. QED
    BY <1>0, <2>3, <2>5 DEF ShownInv
<1>10. ASSUME NEW o \in Orders
       PROVE  OrderInv(o)'
  <2>1. \A x \in Workers : Reading(x, o)' <=> Reading(x, o)
    BY <1>4 DEF Reading
  <2>2. \A ls : Kept(o, ls)' <=> Kept(o, ls)
    BY DEF Kept
  <2>3. \A x \in Workers : jobs'[x].pc # "idle" /\ jobs'[x].by = o /\ jobs'[x].kind = "clear" =>
          orders'[o].status = "confirmed"
    BY <1>0, <1>4 DEF OrderInv
  <2>4. \A x \in Workers : Reading(x, o)' =>
          /\ orders'[o].status = "placing"
          /\ \A ls \in Lines : jobs'[x].pc = "done" /\ jobs'[x].answer.lines = ls => Kept(o, ls)'
    BY <1>0, <1>4, <2>1, <2>2 DEF OrderInv
  <2>5. QED
    BY <1>0, <2>1, <2>2, <2>3, <2>4 DEF OrderInv
<1>11. QED
  BY <1>1, <1>5, <1>6, <1>7, <1>8, <1>9, <1>10 DEF IInv, CartInv

(* The transaction begins.                                                 *)
LEMMA FindCartKeeps ==
  ASSUME IInv, NEW w \in Workers, Work(w), FindCart(w)
  PROVE  IInv'
<1>1. jobs[w].pc = "cart"
  BY DEF FindCart
<1>2. Typed /\ jobs[w] \in GoodJob
  BY <1>1, JobFacts
<1>3. CASE ~cart.exists /\ jobs[w].kind \in {"update", "remove"}
  BY <1>1, <1>2, <1>3, FailKeeps DEF FindCart
<1>4. CASE ~(~cart.exists /\ jobs[w].kind \in {"update", "remove"})
  <2>1. PICK pc : pc = IF cart.exists THEN AfterCart(jobs[w].kind) ELSE "create"
    OBVIOUS
  <2>2. PICK solo : solo = (jobs[w].kind = "get" \/ Writers = {})
    OBVIOUS
  <2>3. PICK new : new = [jobs[w] EXCEPT !.pc = pc, !.alone = solo, !.seen = cart.currency]
    BY SMTT(30)
  <2>4. /\ jobs' = [x \in Workers |->
             CASE x = w -> new
               [] x \in Writers /\ jobs[w].kind # "get" -> [jobs[x] EXCEPT !.alone = FALSE]
               [] OTHER -> jobs[x]]
        /\ UNCHANGED <<cartRows, counters, ghosts>>
    BY <1>4, <2>1, <2>2, <2>3 DEF FindCart
  <2>5. /\ pc \in InTransaction /\ pc \notin {"write", "store"}
        /\ pc = "currency" => jobs[w].kind = "add"
        /\ pc = "fetch" => jobs[w].kind = "get"
        /\ pc = "find" => jobs[w].kind # "get"
        /\ pc = "create" => jobs[w].kind \notin {"update", "remove"}
    BY <1>4, <2>1 DEF AfterCart, InTransaction
  <2>6. /\ new \in Job /\ new.pc = pc /\ new.offer = jobs[w].offer /\ new.kind = jobs[w].kind
        /\ new.by = jobs[w].by /\ new.variant = jobs[w].variant /\ new.writes = jobs[w].writes
        /\ new.currency = jobs[w].currency /\ new.creates = jobs[w].creates
        /\ new.product = jobs[w].product /\ new.alone = solo /\ new.seen = cart.currency
    <3>1. cart.currency \in Currencies /\ solo \in BOOLEAN
      BY <1>2, <2>2 DEF Typed, CartRow
    <3>2. QED
      BY <1>2, <2>3, <2>5, <3>1, ZenonT(60) DEF GoodJob, Job
  <2>7. jobs[w].currency = Keep /\ ~jobs[w].creates
    BY <1>1, <1>2 DEF GoodJob
  <2>8. jobs[w].kind = "add" =>
          jobs[w].offer \in ProductRow /\ jobs[w].variant \in DOMAIN jobs[w].offer.variants
    BY <1>1, <1>2 DEF GoodJob
  <2>9. new \in GoodJob
    <3>1. DOMAIN new.writes = {}
      BY <1>1, <1>2, <2>6 DEF GoodJob
    <3>2. new.by \in Orders => new.kind \in {"get", "clear"}
      BY <1>2, <2>6 DEF GoodJob
    <3>3. new.kind = "add" => new.variant \in Variants /\ new.product \in Products
      BY <1>2, <2>6 DEF GoodJob
    <3>4. new.pc # "done"
      BY <2>5, <2>6 DEF InTransaction
    <3>5. new.pc # "product"
      BY <2>5, <2>6 DEF InTransaction
    <3>6. QED
      BY <2>5, <2>6, <2>7, <2>8, <3>1, <3>2, <3>3, <3>4, <3>5 DEF GoodJob
  <2>10. ASSUME NEW x \in Workers \ {w}
         PROVE  /\ jobs'[x] \in GoodJob \cup {Idle}
                /\ \/ jobs'[x] = jobs[x] /\ (new.kind = "get" \/ x \notin Writers)
                   \/ /\ x \in Writers /\ ~jobs'[x].alone
                      /\ jobs'[x].pc = jobs[x].pc /\ jobs'[x].kind = jobs[x].kind
                      /\ jobs'[x].by = jobs[x].by
                      /\ jobs'[x].currency = jobs[x].currency /\ jobs'[x].creates = jobs[x].creates
    <3>1. CASE x \in Writers /\ jobs[w].kind # "get"
      <4>1. jobs[x] \in GoodJob
        BY <1>2, <3>1, JobIs DEF Writers, InTransaction
      <4>2. PICK one : one = [jobs[x] EXCEPT !.alone = FALSE]
        OBVIOUS
      <4>3. jobs'[x] = one
        BY <2>4, <3>1, <4>2
      <4>4. QED
        BY <3>1, <4>1, <4>2, <4>3, JoinedIs
    <3>2. CASE ~(x \in Writers /\ jobs[w].kind # "get")
      BY <1>2, <2>4, <2>6, <3>2 DEF Typed
    <3>3. QED
      BY <3>1, <3>2
  <2>11. jobs'[w] = new /\ jobs' \in [Workers -> GoodJob \cup {Idle}]
    <3> DEFINE G(x) ==
          CASE x = w -> new
            [] x \in Writers /\ jobs[w].kind # "get" -> [jobs[x] EXCEPT !.alone = FALSE]
            [] OTHER -> jobs[x]
    <3>a. jobs' = [x \in Workers |-> G(x)]
      BY ONLY <2>4, Zenon
    <3>b. G(w) = new
      <4>1. w \notin Writers
        BY <1>1 DEF Writers, InTransaction
      <4>2. QED
        BY ONLY <4>1
    <3>1. jobs'[w] = new /\ jobs' = [x \in Workers |-> jobs'[x]]
      <4> HIDE DEF G
      <4>1. QED
        BY ONLY <3>a, <3>b, w \in Workers
    <3>2. \A x \in Workers : jobs'[x] \in GoodJob \cup {Idle}
      BY <2>9, <2>10, <3>1
    <3>3. QED
      BY ONLY <3>1, <3>2
  <2>12. UNCHANGED <<products, cart, lines, started, answers, raced, ideal, shown, orders>>
    BY <2>4 DEF Work, cartRows, counters, ghosts, catalog
  <2>13. behind' = behind
    BY <1>1, <1>2 DEF Work, Repeats, Commits, Typed
  <2>14. touched' = touched
    <3>1. touched' = [o \in Orders |-> touched[o]]
      BY <1>1 DEF Work, Reads, Commits
    <3>2. QED
      BY <1>2, <3>1 DEF Typed
  <2>15. UNCHANGED <<products, cart, lines, started, answers, raced, ideal, shown, behind,
                     orders, touched>>
    BY <2>12, <2>13, <2>14
  <2>16. new.alone => new.kind = "get" \/ Writers = {}
    BY <2>2, <2>6
  <2>17. QED
    BY <1>1, <2>1, <2>6, <2>7, <2>9, <2>10, <2>11, <2>15, <2>16, FoundCartKeeps
<1>5. QED
  BY <1>3, <1>4

-----------------------------------------------------------------------------
(* Commands that start, start again, or are no longer waited for           *)

(* A command is sent.                                                      *)
LEMMA SendKeeps ==
  ASSUME IInv, NEW w \in Workers, NEW by \in {"web"} \cup Orders,
         NEW kind \in {"add", "update", "remove", "clear", "get"},
         NEW p \in Products \cup {AnyProduct}, NEW v \in Variants \cup {AnyVariant},
         NEW n \in Nat, NEW item \in Nat,
         kind = "add" => v \in Variants /\ p \in Products,
         by \in Orders => kind = "clear" /\ orders[by].status = "confirmed",
         Send(w, by, kind, p, v, n, item), UNCHANGED browser
  PROVE  IInv'
<1>0. Typed
  BY DEF IInv, CartInv
<1>1. PICK c : c = Command(by, kind, p, v, n, item)
  OBVIOUS
<1>2. /\ c.by = by /\ c.kind = kind /\ c.product = p /\ c.variant = v /\ c.quantity = n
      /\ c.item = item
  BY <1>1 DEF Command
<1>3. PICK serial \in Nat : serial = started + 1
  BY <1>0 DEF Typed
<1>4. PICK new : new = NewJob(c, serial)
  OBVIOUS
<1>5. /\ new \in GoodJob /\ new.pc \in {"product", "cart"}
      /\ new.kind = kind /\ new.by = by
  BY <1>2, <1>4, NewJobIs
<1>6. /\ jobs[w].pc = "idle" /\ Goto(w, new) /\ started' = serial
      /\ UNCHANGED <<cartRows, answers, ghosts, catalog, ordering>>
  BY <1>1, <1>3, <1>4 DEF Send, Receive
<1>7. Goes(w, new)
  BY <1>0, <1>5, <1>6 DEF Goto, Goes, Typed
<1>8. UNCHANGED <<products, cart, lines, answers, raced, ideal, shown, behind, orders, touched>>
  BY <1>6 DEF cartRows, ghosts, catalog, ordering, browser
<1>9. new.pc \notin InTransaction \cup {"done"}
  BY <1>5 DEF InTransaction
<1>10. Fits(new)
  BY <1>9 DEF Fits
<1>11. w \notin Coming' /\ w \notin Coming
  BY <1>6, <1>7, <1>9 DEF Coming, Goes
<1>12. started' \in Nat /\ behind' \in BOOLEAN
  BY <1>0, <1>3, <1>6, <1>8 DEF Typed
<1>13. ASSUME NEW o \in Orders
       PROVE  /\ Reading(w, o)' => Reading(w, o)
              /\ new.pc # "idle" /\ new.by = o /\ new.kind = "clear" => orders[o].status = "confirmed"
  BY <1>5, <1>7 DEF Reading, Goes
<1>14. Quiet(w, new)
  BY <1>7, <1>8, <1>9, <1>10, <1>11, <1>12, <1>13 DEF Quiet, Still
<1>15. QED
  BY <1>14, QuietKeeps

(* A command that has been carried out is delivered again.                 *)
LEMMA RedeliverKeeps ==
  ASSUME IInv, NEW w \in Workers, Work(w), Redeliver(w)
  PROVE  IInv'
<1>0. jobs[w].pc = "done"
  BY DEF Redeliver
<1>1. Typed /\ jobs[w] \in GoodJob /\ \A o \in Orders : OrderInv(o)
  BY <1>0, JobFacts DEF IInv, CartInv
<1>2. PICK job : job = jobs[w]
  OBVIOUS
<1>3. PICK serial \in Nat : serial = started + 1
  BY <1>1 DEF Typed
<1>4. PICK fresh : fresh = NewJob(job, serial)
  OBVIOUS
<1>5. /\ job.kind \in {"add", "update", "remove", "clear", "get"}
      /\ job.by \in {"web"} \cup Orders /\ job.product \in Products \cup {AnyProduct}
      /\ job.variant \in Variants \cup {AnyVariant} /\ job.quantity \in Nat
      /\ job.item \in Nat /\ job.awaited \in BOOLEAN
      /\ (job.kind = "add" => job.variant \in Variants /\ job.product \in Products)
      /\ (job.by \in Orders => job.kind \in {"get", "clear"})
  BY <1>1, <1>2 DEF GoodJob, Job
<1>6. /\ fresh \in GoodJob /\ fresh.pc \in {"product", "cart"}
      /\ fresh.kind = job.kind /\ fresh.by = job.by
  BY ONLY <1>3, <1>4, <1>5, NewJobIs
<1>7. PICK new : new = [fresh EXCEPT !.awaited = job.awaited]
  OBVIOUS
<1>8. /\ new \in Job /\ new.pc = fresh.pc /\ new.kind = fresh.kind /\ new.by = fresh.by
      /\ new.variant = fresh.variant /\ new.product = fresh.product /\ new.offer = fresh.offer
      /\ new.currency = fresh.currency /\ new.creates = fresh.creates
      /\ new.writes = fresh.writes
  BY <1>5, <1>6, <1>7 DEF GoodJob, Job
<1>9. new \in GoodJob /\ new.pc \notin InTransaction \cup {"done"}
  <2>1. DOMAIN new.writes = {} /\ new.pc \in {"product", "cart"}
    BY <1>6, <1>8 DEF GoodJob
  <2>2. new.kind = "add" /\ new.pc = "cart" =>
          new.offer \in ProductRow /\ new.variant \in DOMAIN new.offer.variants
    BY <1>6, <1>8 DEF GoodJob
  <2>3. /\ new.kind = "add" => new.variant \in Variants /\ new.product \in Products
        /\ new.by \in Orders => new.kind \in {"get", "clear"}
        /\ new.pc = "product" => new.kind = "add"
        /\ new.currency = Keep /\ ~new.creates
    BY <1>6, <1>8 DEF GoodJob
  <2>4. QED
    BY ONLY <1>8, <2>1, <2>2, <2>3 DEF GoodJob, InTransaction
<1>10. Goto(w, new) /\ started' = serial /\ UNCHANGED <<cartRows, answers, ghosts>>
  BY <1>2, <1>3, <1>4, <1>7 DEF Redeliver
<1>11. Goes(w, new)
  BY <1>1, <1>9, <1>10 DEF Goto, Goes, Typed
<1>12. UNCHANGED <<products, cart, lines, answers, raced, ideal, shown, orders>> /\ behind' = TRUE
  BY <1>0, <1>10 DEF Work, Repeats, cartRows, ghosts, catalog
<1>13. touched' = touched
  <2>1. touched' = [o \in Orders |-> touched[o]]
    BY <1>0 DEF Work, Reads, Commits
  <2>2. QED
    BY <1>1, <2>1 DEF Typed
<1>14. Fits(new)
  BY <1>9 DEF Fits
<1>15. w \notin Coming'
  BY <1>9, <1>11 DEF Coming, Goes
<1>16. ASSUME NEW o \in Orders
       PROVE  /\ Reading(w, o)' => Reading(w, o)
              /\ new.pc # "idle" /\ new.by = o /\ new.kind = "clear" => orders[o].status = "confirmed"
  BY <1>0, <1>1, <1>2, <1>6, <1>8, <1>11 DEF Reading, Goes, OrderInv
<1>17. started' \in Nat /\ behind' \in BOOLEAN
  BY <1>3, <1>10, <1>12
<1>18. Quiet(w, new)
  BY <1>9, <1>11, <1>12, <1>13, <1>14, <1>15, <1>16, <1>17 DEF Quiet, Still
<1>19. QED
  BY <1>18, QuietKeeps

(* Nobody waits for a command any more.                                    *)
LEMMA LeftIs ==
  ASSUME NEW job \in GoodJob, NEW new, new = [job EXCEPT !.awaited = FALSE], Fits(job)
  PROVE  /\ new \in GoodJob /\ ~new.awaited /\ Fits(new)
         /\ new.pc = job.pc /\ new.kind = job.kind /\ new.by = job.by /\ new.answer = job.answer
         /\ new.currency = job.currency /\ new.creates = job.creates /\ new.alone = job.alone
<1>1. /\ new \in Job /\ new.pc = job.pc /\ new.kind = job.kind /\ new.by = job.by
      /\ new.currency = job.currency /\ new.creates = job.creates
      /\ new.variant = job.variant /\ new.product = job.product /\ new.offer = job.offer
      /\ new.writes = job.writes /\ new.answer = job.answer /\ ~new.awaited
      /\ new.alone = job.alone /\ new.found = job.found /\ new.item = job.item
      /\ new.quantity = job.quantity /\ new.seen = job.seen /\ new.sum = job.sum
  BY DEF GoodJob, Job
<1>2. new \in GoodJob
  <2>1. \A v \in DOMAIN new.writes : /\ new.writes[v] # NoLine => new.writes[v].variant = v
                                     /\ new.kind = "clear" => new.writes[v] = NoLine
    BY <1>1 DEF GoodJob
  <2>2. new.kind = "add" /\ new.pc \in {"cart"} \cup InTransaction =>
          new.offer \in ProductRow /\ new.variant \in DOMAIN new.offer.variants
    BY <1>1 DEF GoodJob
  <2>3. new.pc = "done" => new.answer.at > 0
    BY <1>1 DEF GoodJob
  <2>4. /\ new.pc \in {"product", "currency"} => new.kind = "add"
        /\ new.pc = "fetch" => new.kind = "get"
        /\ new.pc \in {"find", "write", "store"} => new.kind # "get"
        /\ new.by \in Orders => new.kind \in {"get", "clear"}
        /\ new.pc # "store" => DOMAIN new.writes = {}
        /\ new.pc \in {"cart", "create", "product"} => new.currency = Keep /\ ~new.creates
        /\ new.creates => new.currency # Keep
        /\ new.kind # "add" /\ ~new.creates => new.currency = Keep
        /\ new.kind \in {"update", "remove"} => ~new.creates /\ new.pc # "create"
        /\ new.kind = "add" => new.variant \in Variants /\ new.product \in Products
    BY <1>1 DEF GoodJob
  <2>5. QED
    BY ONLY <1>1, <2>1, <2>2, <2>3, <2>4 DEF GoodJob
<1>3. /\ ViewOf(new) = ViewOf(job) /\ Applied(new) = Applied(job)
      /\ CurrencyOf(new) = CurrencyOf(job) /\ Current(new) = Current(job)
  BY <1>1 DEF ViewOf, Applied, Targets, CurrencyOf, Current
<1>4. /\ new.pc = job.pc /\ new.kind = job.kind /\ new.alone = job.alone
      /\ new.currency = job.currency /\ new.seen = job.seen /\ new.found = job.found
      /\ new.offer = job.offer /\ new.sum = job.sum /\ new.writes = job.writes
  BY ONLY <1>1
<1>5. Fits(new)
  BY ONLY <1>3, <1>4, Fits(job) DEF Fits
<1>6. QED
  BY <1>1, <1>2, <1>5

(* The gateway or the browser gives up.                                    *)
LEMMA GiveUpKeeps ==
  ASSUME IInv, NEW w \in Workers, GiveUp(w)
  PROVE  IInv'
<1>0. jobs[w].pc # "idle"
  BY DEF GiveUp
<1>1. /\ Typed /\ CartHeld /\ jobs[w] \in GoodJob /\ Fits(jobs[w])
      /\ (Within(w) /\ jobs[w].pc # "create" => (jobs[w].creates <=> ~cart.exists))
      /\ \A o \in Orders : OrderInv(o)
  BY <1>0, JobFacts DEF IInv, CartInv
<1>2. PICK new : new = [jobs[w] EXCEPT !.awaited = FALSE]
  OBVIOUS
<1>3. /\ new \in GoodJob /\ ~new.awaited /\ Fits(new)
      /\ new.pc = jobs[w].pc /\ new.kind = jobs[w].kind /\ new.by = jobs[w].by
      /\ new.answer = jobs[w].answer
      /\ new.currency = jobs[w].currency /\ new.creates = jobs[w].creates
      /\ new.alone = jobs[w].alone
  BY <1>1, <1>2, LeftIs
<1>4. /\ Goto(w, new) /\ behind' = (behind \/ jobs[w].pc = "done")
      /\ UNCHANGED <<catalog, cartRows, counters, ghosts, shown, ordering>>
  BY <1>2 DEF GiveUp
<1>5. Goes(w, new)
  BY <1>1, <1>3, <1>4 DEF Goto, Goes, Typed
<1>6. UNCHANGED <<products, cart, lines, started, answers, raced, ideal, shown, orders, touched>>
  BY <1>4 DEF cartRows, ghosts, catalog, ordering, counters
<1>7. started' \in Nat /\ behind' \in BOOLEAN
  BY <1>1, <1>4, <1>6 DEF Typed
<1>8. w \notin Coming' /\ (~behind' => ~behind /\ w \notin Coming)
  BY <1>1, <1>3, <1>4, <1>5 DEF Coming, Goes, Typed
<1>9. ASSUME NEW o \in Orders
      PROVE  /\ Reading(w, o)' => Reading(w, o)
             /\ new.pc # "idle" /\ new.by = o /\ new.kind = "clear" => orders[o].status = "confirmed"
  BY <1>0, <1>1, <1>3, <1>5 DEF Reading, Goes, OrderInv
<1>10. /\ new.pc \in InTransaction => Within(w)
       /\ new.pc \in InTransaction /\ new.currency # Keep => Holds(w)
       /\ new.pc \in InTransaction \ {"create"} => (new.creates <=> ~cart.exists)
  BY <1>1, <1>3 DEF Within, Holds
<1>11. Quiet(w, new)
  BY <1>3, <1>5, <1>6, <1>7, <1>8, <1>9, <1>10 DEF Quiet, Still
<1>12. QED
  BY <1>11, QuietKeeps

(* A command that nobody waits for ends.                                   *)
LEMMA ForgetKeeps ==
  ASSUME IInv, NEW w \in Workers, Forget(w)
  PROVE  IInv'
<1>1. Typed
  BY DEF IInv, CartInv
<1>2. /\ Goto(w, Idle)
      /\ UNCHANGED <<catalog, cartRows, counters, ghosts, browser, ordering>>
      /\ ~jobs[w].awaited
  BY DEF Forget
<1>3. Goes(w, Idle)
  BY <1>1, <1>2 DEF Goto, Goes, Typed
<1>4. UNCHANGED <<products, cart, lines, started, answers, raced, ideal, shown, behind, orders,
                  touched>>
  BY <1>2 DEF cartRows, ghosts, catalog, ordering, counters, browser
<1>5. started' \in Nat /\ behind' \in BOOLEAN
  BY <1>1, <1>4 DEF Typed
<1>6. w \notin Coming' /\ w \notin Coming
  BY <1>2, <1>3, IdleIs DEF Coming, Goes
<1>7. Idle.pc \notin InTransaction \cup {"done"} /\ Idle.pc = "idle"
  BY IdleIs DEF InTransaction
<1>8. \A o \in Orders : ~Reading(w, o)'
  BY <1>3, <1>7 DEF Reading, Goes
<1>9. Quiet(w, Idle)
  BY <1>3, <1>4, <1>5, <1>6, <1>7, <1>8 DEF Quiet, Still
<1>10. QED
  BY <1>9, QuietKeeps

(* The customer's commands, and the orders' clear_cart.                    *)
LEMMA CommandKeeps ==
  ASSUME IInv, NEW w \in Workers,
         \/ \E p \in Products, v \in Variants : AddToCart(w, p, v)
         \/ \E l \in Rows(shown.lines) :
              RemoveItem(w, l) \/ \E n \in 1..MaxQuantity : UpdateItem(w, l, n)
         \/ ClearCart(w) \/ GetCart(w)
         \/ \E o \in Orders : ClearOrdered(w, o)
  PROVE  IInv'
<1>1. Typed
  BY DEF IInv, CartInv
<1>2. shown.lines \in Lines
  BY <1>1 DEF Typed, Answer
<1>3. /\ NoItem \in Nat /\ 1 \in Nat /\ (\A n \in 1..MaxQuantity : n \in Nat)
      /\ \A o \in Orders : "web" # o
  BY CartAssumption, OrdersAssumption DEF NoItem
<1>4. ASSUME NEW p \in Products, NEW v \in Variants, AddToCart(w, p, v)
      PROVE  IInv'
  BY <1>3, <1>4, SendKeeps DEF AddToCart
<1>5. ASSUME NEW l \in Rows(shown.lines),
             RemoveItem(w, l) \/ \E n \in 1..MaxQuantity : UpdateItem(w, l, n)
      PROVE  IInv'
  <2>1. l.variant \in Variants /\ l.id \in Nat
    BY <1>2, <1>5, RowsAre DEF Found, Line
  <2>2. CASE RemoveItem(w, l)
    BY <1>3, <2>1, <2>2, SendKeeps DEF RemoveItem
  <2>3. CASE \E n \in 1..MaxQuantity : UpdateItem(w, l, n)
    <3>1. PICK n \in 1..MaxQuantity : UpdateItem(w, l, n)
      BY <2>3
    <3>2. QED
      BY <1>3, <2>1, <3>1, SendKeeps DEF UpdateItem
  <2>4. QED
    BY <1>5, <2>2, <2>3
<1>6. CASE ClearCart(w)
  BY <1>3, <1>6, SendKeeps DEF ClearCart
<1>7. CASE GetCart(w)
  BY <1>3, <1>7, SendKeeps DEF GetCart
<1>8. ASSUME NEW o \in Orders, ClearOrdered(w, o)
      PROVE  IInv'
  BY <1>3, <1>8, SendKeeps DEF ClearOrdered
<1>9. QED
  BY <1>4, <1>5, <1>6, <1>7, <1>8

-----------------------------------------------------------------------------
(* A command commits                                                       *)

(* What a transaction sees when it commits.                                *)
LEMMA SeenIs ==
  ASSUME Typed, NEW job \in GoodJob, NEW view, view = ViewOf(job)
  PROVE  view \in Lines
<1>1. job.writes \in Writings
  BY DEF GoodJob, Job
<1>2. \A v \in DOMAIN job.writes : v \in Variants /\ job.writes[v] \in Line
  BY <1>1 DEF Writings
<1>3. \A v \in Variants : lines[v] \in Line /\ (lines[v] # NoLine => lines[v].variant = v)
  BY DEF Typed, Lines
<1>4. ASSUME NEW v \in Variants
      PROVE  view[v] \in Line /\ (view[v] # NoLine => view[v].variant = v)
  <2>1. view[v] = IF v \in DOMAIN job.writes THEN job.writes[v] ELSE lines[v]
    BY DEF ViewOf
  <2>2. v \in DOMAIN job.writes => (job.writes[v] # NoLine => job.writes[v].variant = v)
    BY DEF GoodJob
  <2>3. QED
    BY <1>2, <1>3, <2>1, <2>2
<1>5. view = [v \in Variants |-> view[v]]
  BY DEF ViewOf
<1>6. QED
  BY ONLY <1>4, <1>5 DEF Lines

(* One currency, if the transaction was alone.                             *)
LEMMA CurrencyStays ==
  ASSUME Typed, NEW job \in GoodJob, Fits(job), job.pc = "store", job.alone,
         \A l \in Rows(lines) : l.currency = cart.currency,
         NEW view, view = ViewOf(job)
  PROVE  \A l \in Rows(view) : l.currency = CurrencyOf(job)
<1>1. /\ job.kind = "add" => CurrencyOf(job) = job.offer.currency
      /\ job.currency # Keep => Rows(lines) = {}
      /\ \A v \in DOMAIN job.writes : job.writes[v] # NoLine =>
           \/ lines[v] # NoLine /\ job.writes[v].currency = lines[v].currency
           \/ job.kind = "add" /\ job.writes[v].currency = job.offer.currency
  <2>1. job.kind # "get" /\ job.pc \in InTransaction \ {"create", "fetch"}
    BY DEF GoodJob, InTransaction
  <2>2. QED
    BY <2>1 DEF Fits
<1>2. ASSUME NEW v \in Variants, lines[v] # NoLine
      PROVE  lines[v].currency = CurrencyOf(job)
  <2>1. lines[v] \in Rows(lines)
    BY <1>2 DEF Rows
  <2>2. QED
    BY <1>1, <2>1 DEF CurrencyOf
<1>3. ASSUME NEW v \in Variants, view[v] # NoLine
      PROVE  view[v].currency = CurrencyOf(job)
  <2>1. view[v] = IF v \in DOMAIN job.writes THEN job.writes[v] ELSE lines[v]
    BY DEF ViewOf
  <2>2. QED
    BY <1>1, <1>2, <1>3, <2>1
<1>4. QED
  BY <1>3 DEF Rows

(* An order's reading is kept by every command that commits.               *)
LEMMA KeptStays ==
  ASSUME Typed, NEW job \in GoodJob, job.pc = "store", NEW o \in Orders,
         lines' = ViewOf(job),
         job.by = "web" => touched'[o] = touched[o] \cup DOMAIN job.writes,
         job.by # "web" => touched'[o] = touched[o],
         NEW ls, Kept(o, ls)
  PROVE  Kept(o, ls)'
<1>1. PICK view : view = ViewOf(job)
  OBVIOUS
<1>2. \A v \in Variants : view[v] = IF v \in DOMAIN job.writes THEN job.writes[v] ELSE lines[v]
  BY <1>1 DEF ViewOf
<1>3. job.by = "web" \/ job.kind = "clear"
  BY DEF GoodJob, Job
<1>4. job.kind = "clear" => \A v \in DOMAIN job.writes : job.writes[v] = NoLine
  BY DEF GoodJob
<1>5. ASSUME NEW v \in Variants, v \notin touched'[o]
      PROVE  view[v] \in {ls[v], NoLine}
  <2>1. lines[v] \in {ls[v], NoLine}
    BY <1>3, <1>5 DEF Kept
  <2>2. CASE job.by = "web"
    BY <1>2, <1>5, <2>1, <2>2
  <2>3. CASE job.by # "web"
    BY <1>2, <1>3, <1>4, <2>1, <2>3
  <2>4. QED
    BY <2>2, <2>3
<1>6. lines' = view
  BY <1>1
<1>7. QED
  BY <1>5, <1>6 DEF Kept

(* The row of the cart that it leaves, and the answer.                     *)
RowOf(job) == [exists |-> TRUE, subtotal |-> job.sum, currency |-> CurrencyOf(job)]

AnswerOf(row, view) == [cart |-> row, lines |-> view, at |-> answers + 1]

(* What the step has done.                                                 *)
Stored(w, job, view, row, done) ==
  /\ job \in GoodJob /\ job.pc = "store" /\ job.kind # "get"
  /\ view \in Lines /\ row \in CartRow
  /\ done \in GoodJob /\ done.pc = "done" /\ done.kind = job.kind /\ done.by = job.by
  /\ done.awaited = job.awaited /\ done.answer \in Answer
  /\ done.answer.cart = row /\ done.answer.lines = view /\ done.answer.at = answers + 1
  /\ jobs'[w] = done /\ jobs' \in [Workers -> GoodJob \cup {Idle}]
  /\ \A x \in Workers \ {w} : jobs'[x] = jobs[x]
  /\ cart' = row /\ lines' = view /\ answers' = answers + 1
  /\ raced' = (IF ~job.alone THEN "last" ELSE IF raced = "never" THEN "never" ELSE "earlier")
  /\ ideal' = (IF job.alone THEN Applied(job) ELSE [v \in Variants |-> view[v].quantity])
  /\ UNCHANGED <<products, started, shown, orders>>
  /\ behind' = (behind \/ ~Told(w))
  /\ touched' = [o \in Orders |-> IF job.by = "web" THEN touched[o] \cup DOMAIN job.writes
                                                    ELSE touched[o]]

(* The step does so.                                                       *)
LEMMA StoreStores ==
  ASSUME IInv, NEW w \in Workers, Work(w), StoreSubtotal(w),
         NEW job, job = jobs[w], NEW view, view = ViewOf(job),
         NEW row, row = RowOf(job), NEW done, done = Ended(job, "done", AnswerOf(row, view))
  PROVE  Stored(w, job, view, row, done)
<1>1. job.pc = "store"
  BY DEF StoreSubtotal
<1>2. Typed /\ job \in GoodJob
  BY <1>1, JobFacts
<1>3. view \in Lines
  BY <1>2, SeenIs
<1>4. row \in CartRow /\ row.exists /\ row.subtotal = job.sum /\ row.currency = CurrencyOf(job)
  <2>1. CurrencyOf(job) \in Currencies
    BY <1>2 DEF CurrencyOf, Typed, CartRow, GoodJob, Job
  <2>2. job.sum \in Sums
    BY <1>2 DEF GoodJob, Job
  <2>3. QED
    BY <2>1, <2>2 DEF CartRow, RowOf
<1>5. PICK n \in Nat : n = answers + 1
  BY <1>2 DEF Typed
<1>6. n > 0
  BY <1>2, <1>5 DEF Typed
<1>7. PICK answer : answer = [cart |-> row, lines |-> view, at |-> n]
  OBVIOUS
<1>8. answer \in Answer /\ answer.cart = row /\ answer.lines = view /\ answer.at = n
  BY <1>3, <1>4, <1>5, <1>7 DEF Answer
<1>9. done = Ended(job, "done", answer)
  BY <1>5, <1>7 DEF AnswerOf
<1>10. /\ done \in GoodJob /\ done.pc = "done" /\ done.kind = job.kind /\ done.by = job.by
       /\ done.awaited = job.awaited /\ done.answer = answer
  BY <1>2, <1>6, <1>8, <1>9, EndedIs
<1>11. View(w) = view
  BY DEF View, ViewOf
<1>12. Served(w, row) = answer
  BY <1>5, <1>7, <1>11 DEF Served
<1>13. /\ cart' = row /\ lines' = view /\ answers' = answers + 1
       /\ Goto(w, done)
       /\ raced' = (IF ~job.alone THEN "last" ELSE IF raced = "never" THEN "never" ELSE "earlier")
       /\ ideal' = (IF job.alone THEN Applied(job) ELSE [v \in Variants |-> lines'[v].quantity])
       /\ UNCHANGED started
  BY <1>9, <1>11, <1>12 DEF StoreSubtotal, CurrencyOf, RowOf
<1>14. ideal' = (IF job.alone THEN Applied(job) ELSE [v \in Variants |-> view[v].quantity])
  BY <1>13
<1>15. /\ jobs'[w] = done /\ jobs' \in [Workers -> GoodJob \cup {Idle}]
       /\ \A x \in Workers \ {w} : jobs'[x] = jobs[x]
  BY <1>2, <1>10, <1>13 DEF Typed, Goto
<1>16. UNCHANGED <<products, shown, orders>>
  BY DEF Work, catalog
<1>17. Commits(w) /\ ~Repeats(w) /\ ~Reads(w)
  BY <1>1, <1>10, <1>15 DEF Commits, Repeats, Reads
<1>18. behind' = (behind \/ ~Told(w))
  BY <1>17 DEF Work
<1>19. touched' = [o \in Orders |-> IF job.by = "web" THEN touched[o] \cup DOMAIN job.writes
                                                     ELSE touched[o]]
  <2>1. touched' = [o \in Orders |->
          CASE Reads(w) /\ jobs[w].by = o -> {}
            [] Commits(w) /\ jobs[w].by = "web" -> touched[o] \cup DOMAIN jobs[w].writes
            [] OTHER -> touched[o]]
    BY DEF Work
  <2>2. QED
    BY <1>17, <2>1
<1>20. job.kind # "get"
  BY <1>1, <1>2 DEF GoodJob
<1>21. done.answer.at = answers + 1
  BY <1>5, <1>8, <1>10
<1>22. QED
  BY <1>1, <1>2, <1>3, <1>4, <1>8, <1>10, <1>13, <1>14, <1>15, <1>16, <1>18, <1>19, <1>20, <1>21
  DEF Stored

(* A command that changes the cart commits.                                *)
LEMMA StoreSubtotalKeeps ==
  ASSUME IInv, NEW w \in Workers, Work(w), StoreSubtotal(w)
  PROVE  IInv'
<1>0. /\ Typed /\ CartHeld /\ Placed /\ OnlyOne
      /\ (\A x \in Workers : JobInv(x))
      /\ SumInv /\ OneCurrency /\ ShownInv
      /\ \A o \in Orders : OrderInv(o)
  BY DEF IInv, CartInv
<1>1. PICK job : job = jobs[w]
  OBVIOUS
<1>2. PICK view : view = ViewOf(job)
  OBVIOUS
<1>3. PICK row : row = RowOf(job)
  OBVIOUS
<1>4. PICK done : done = Ended(job, "done", AnswerOf(row, view))
  OBVIOUS
<1>a. Stored(w, job, view, row, done)
  BY ONLY IInv, w \in Workers, Work(w), StoreSubtotal(w), <1>1, <1>2, <1>3, <1>4, StoreStores
<1>5. /\ job \in GoodJob /\ job.pc = "store" /\ job.kind # "get"
      /\ view \in Lines /\ row \in CartRow
      /\ done \in GoodJob /\ done.pc = "done" /\ done.kind = job.kind /\ done.by = job.by
      /\ done.awaited = job.awaited /\ done.answer \in Answer
      /\ done.answer.cart = row /\ done.answer.lines = view /\ done.answer.at = answers + 1
  BY <1>a DEF Stored
<1>6. /\ jobs'[w] = done /\ jobs' \in [Workers -> GoodJob \cup {Idle}]
      /\ \A x \in Workers \ {w} : jobs'[x] = jobs[x]
      /\ cart' = row /\ lines' = view /\ answers' = answers + 1
      /\ raced' = (IF ~job.alone THEN "last" ELSE IF raced = "never" THEN "never" ELSE "earlier")
      /\ ideal' = (IF job.alone THEN Applied(job) ELSE [v \in Variants |-> view[v].quantity])
      /\ UNCHANGED <<products, started, shown, orders>>
      /\ behind' = (behind \/ ~Told(w))
      /\ touched' = [o \in Orders |-> IF job.by = "web" THEN touched[o] \cup DOMAIN job.writes
                                                        ELSE touched[o]]
  BY <1>a DEF Stored
<1>7. row.exists /\ row.subtotal = job.sum /\ row.currency = CurrencyOf(job)
  BY <1>3 DEF RowOf
<1>8. Fits(job) /\ Within(w) /\ w \in Writers
  BY <1>0, <1>1, <1>5 DEF JobInv, Within, Writers, InTransaction
<1>9. job.alone => /\ \A v \in Variants : view[v].quantity = Applied(job)[v]
                   /\ job.sum = Subtotal(view)
  <2>1. job.pc \in InTransaction \ {"create", "fetch"}
    BY <1>5 DEF InTransaction
  <2>2. QED
    BY <1>2, <1>5, <1>8, <2>1 DEF Fits
<1>10. ideal' = [v \in Variants |-> view[v].quantity]
  <2>1. Applied(job) = [v \in Variants |-> Applied(job)[v]]
    BY DEF Applied
  <2>2. job.alone => Applied(job) = [v \in Variants |-> view[v].quantity]
    BY <1>9, <2>1
  <2>3. QED
    BY <1>6, <2>2
<1>11. \A x \in Workers \ {w} : ~Holds(x)
  BY CartIsFree DEF StoreSubtotal
<1>12. Typed'
  <2>1. ideal' \in [Variants -> Nat]
    BY <1>5, <1>10 DEF Lines, Line
  <2>2. touched' \in [Orders -> SUBSET Variants]
    <3>1. DOMAIN job.writes \in SUBSET Variants
      BY <1>5 DEF GoodJob, Job, Writings
    <3>2. QED
      BY <1>0, <1>6, <3>1 DEF Typed
  <2>3. raced' \in {"never", "earlier", "last"}
    BY <1>0, <1>6 DEF Typed
  <2>4. behind' \in BOOLEAN /\ answers' \in Nat
    BY <1>0, <1>6 DEF Typed
  <2>5. QED
    BY <1>0, <1>5, <1>6, <2>1, <2>2, <2>3, <2>4 DEF Typed
<1>13. Placed'
  BY <1>6, <1>10 DEF Placed
<1>14. CartHeld'
  <2>1. \A x \in Workers \ {w} : /\ Within(x)' <=> Within(x)
                                 /\ Holds(x)' <=> Holds(x)
    BY <1>6 DEF Within, Holds
  <2>2. ~Within(w)' /\ ~Holds(w)'
    BY <1>5, <1>6 DEF Within, Holds, InTransaction
  <2>3. ASSUME NEW x \in Workers, Within(x)', jobs'[x].pc # "create"
        PROVE  ~jobs'[x].creates /\ cart'.exists
    <3>1. x # w /\ Within(x) /\ jobs'[x] = jobs[x] /\ ~Holds(x)
      BY <1>6, <1>11, <2>1, <2>2, <2>3
    <3>2. jobs[x] \in GoodJob
      BY <1>0, <3>1, JobIs DEF Within, InTransaction
    <3>3. ~jobs[x].creates
      BY <3>1, <3>2 DEF Holds, GoodJob
    <3>4. cart'.exists
      BY <1>6, <1>7
    <3>5. QED
      BY <3>1, <3>3, <3>4
  <2>4. QED
    BY <1>6, <1>7, <1>11, <2>1, <2>2, <2>3 DEF CartHeld

<1>15. OnlyOne'
  <2>1. \A x \in Workers : x \in Writers' => x \in Writers /\ jobs'[x] = jobs[x]
    BY <1>5, <1>6 DEF Writers, InTransaction
  <2>2. QED
    BY <1>0, <2>1 DEF OnlyOne, Writers
<1>16. ASSUME NEW x \in Workers
       PROVE  JobInv(x)'
  <2>1. CASE x = w
    <3>1. Fits(done)'
      BY <1>5 DEF Fits, InTransaction
    <3>2. QED
      BY <1>6, <2>1, <3>1 DEF JobInv
  <2>2. CASE x # w
    <3>1. ASSUME NEW other \in GoodJob, jobs[x] = other
          PROVE  Fits(other)'
      <4>1. other.pc \in InTransaction /\ other.kind # "get" /\ other.alone => x \in Writers
        BY <3>1 DEF Writers
      <4>2. x \in Writers /\ jobs[x].alone => x = w
        BY <1>0, <1>8 DEF OnlyOne
      <4>3. ~(other.pc \in InTransaction /\ other.kind # "get" /\ other.alone)
        BY <2>2, <3>1, <4>1, <4>2
      <4>4. QED
        BY <4>3 DEF Fits
    <3>2. QED
      BY <1>6, <2>2, <3>1 DEF JobInv
  <2>3. QED
    BY <2>1, <2>2
<1>17. SumInv' /\ OneCurrency'
  <2>1. raced' # "last" => job.alone
    BY <1>6
  <2>2. raced' = "never" => job.alone /\ raced = "never"
    BY <1>6
  <2>3. SumInv'
    BY <1>6, <1>7, <1>9, <2>1 DEF SumInv
  <2>4. raced' = "never" => \A l \in Rows(view) : l.currency = CurrencyOf(job)
    BY <1>0, <1>2, <1>5, <1>8, <2>2, CurrencyStays DEF OneCurrency
  <2>5. Rows(lines)' = Rows(view)
    BY <1>6
  <2>6. OneCurrency'
    BY <1>6, <1>7, <2>4, <2>5 DEF OneCurrency
  <2>7. QED
    BY <2>3, <2>6
<1>18. ShownInv'
  <2>1. PICK n \in Nat : n = answers + 1
    BY <1>0 DEF Typed
  <2>2. /\ n \in 0..answers' /\ answers < n /\ answers' = n /\ answers \in Nat
    BY <1>0, <1>6, <2>1 DEF Typed
  <2>3. /\ shown.at <= answers /\ shown.at \in Nat
        /\ \A x \in Workers : jobs[x].pc = "done" => jobs[x].answer.at <= answers
                                                     /\ jobs[x].answer.at \in Nat
    <3>1. \A x \in Workers : jobs[x].pc = "done" => jobs[x] \in GoodJob
      BY <1>0, JobIs
    <3>2. QED
      BY <1>0, <3>1 DEF ShownInv, Typed, Answer, GoodJob, Job
  <2>4. done.answer.at = n
    BY <1>5, <2>1
  <2>5. shown'.at <= answers' /\ \A x \in Workers : jobs'[x].pc = "done" => jobs'[x].answer.at <= answers'
    <3>1. shown'.at <= answers'
      BY <1>6, <2>2, <2>3
    <3>2. ASSUME NEW x \in Workers, jobs'[x].pc = "done"
          PROVE  jobs'[x].answer.at <= answers'
      <4>1. CASE x = w
        BY <1>6, <2>2, <2>4, <4>1
      <4>2. CASE x # w
        <5>1. jobs[x].answer.at <= answers /\ jobs[x].answer.at \in Nat /\ jobs'[x] = jobs[x]
          BY <1>6, <2>3, <3>2, <4>2
        <5>2. QED
          BY <2>2, <5>1
      <4>3. QED
        BY <4>1, <4>2
    <3>3. QED
      BY <3>1, <3>2
  <2>6. ASSUME NEW a \in Answer, Shows(a)', a.at >= n
        PROVE  Fresh(a)'
    <3>1. a = shown \/ \E x \in Workers : jobs'[x].pc = "done" /\ a = jobs'[x].answer
      BY <1>6, <2>6 DEF Shows, Coming
    <3>2. a # shown
      BY <2>2, <2>3, <2>6
    <3>3. \A x \in Workers \ {w} : jobs'[x].pc = "done" => a # jobs'[x].answer
      BY <1>6, <2>2, <2>3, <2>6
    <3>4. a = done.answer
      BY <1>6, <3>1, <3>2, <3>3
    <3>5. QED
      BY <1>5, <1>6, <3>4 DEF Fresh
  <2>7. ASSUME ~behind'
        PROVE  \E a \in Answer : Shows(a)' /\ a.at >= n
    <3>1. Told(w)
      BY <1>6, <2>7
    <3>2. w \in Coming'
      BY <1>1, <1>5, <1>6, <3>1 DEF Told, Coming
    <3>3. Shows(done.answer)'
      BY <1>6, <3>2 DEF Shows
    <3>4. done.answer.at >= n
      BY <2>4
    <3>5. QED
      BY <1>5, <3>3, <3>4
  <2>8. QED
    BY <2>2, <2>5, <2>6, <2>7 DEF ShownInv
<1>19. ASSUME NEW o \in Orders
       PROVE  OrderInv(o)'
  <2>1. ~Reading(w, o)' /\ \A x \in Workers \ {w} : Reading(x, o)' <=> Reading(x, o)
    BY <1>5, <1>6 DEF Reading
  <2>2. \A ls : Kept(o, ls) => Kept(o, ls)'
    <3>1. /\ lines' = ViewOf(job)
          /\ job.by = "web" => touched'[o] = touched[o] \cup DOMAIN job.writes
          /\ job.by # "web" => touched'[o] = touched[o]
      BY <1>2, <1>6
    <3>2. QED
      BY <1>0, <1>5, <3>1, KeptStays
  <2>3. \A x \in Workers : jobs'[x].pc # "idle" /\ jobs'[x].by = o /\ jobs'[x].kind = "clear" =>
          orders'[o].status = "confirmed"
    <3>1. jobs[w].pc # "idle"
      BY <1>1, <1>5
    <3>2. QED
      BY <1>0, <1>1, <1>5, <1>6, <3>1 DEF OrderInv
  <2>4. \A x \in Workers : Reading(x, o)' =>
          /\ orders'[o].status = "placing"
          /\ \A ls \in Lines : jobs'[x].pc = "done" /\ jobs'[x].answer.lines = ls => Kept(o, ls)'
    BY <1>0, <1>6, <2>1, <2>2 DEF OrderInv
  <2>5. \A x, y \in Workers : Reading(x, o)' /\ Reading(y, o)' => x = y
    BY <1>0, <2>1 DEF OrderInv
  <2>6. \A ls \in Lines : orders'[o].status \in {"created", "confirmed"} /\ orders'[o].lines = ls =>
          Kept(o, ls)'
    BY <1>0, <1>6, <2>2 DEF OrderInv
  <2>7. QED
    BY <2>3, <2>4, <2>5, <2>6 DEF OrderInv
<1>20. QED
  BY <1>12, <1>13, <1>14, <1>15, <1>16, <1>17, <1>18, <1>19 DEF IInv, CartInv

(* The row of the cart that getActiveCart leaves.                          *)
RowFound(job) == IF job.creates THEN [NoCart EXCEPT !.exists = TRUE] ELSE cart

(* What the step has done.                                                 *)
Fetched(w, job, row, done) ==
  /\ job \in GoodJob /\ job.pc = "fetch" /\ job.kind = "get" /\ row \in CartRow
  /\ done \in GoodJob /\ done.pc = "done" /\ done.kind = "get" /\ done.by = job.by
  /\ done.awaited = job.awaited /\ done.answer \in Answer
  /\ done.answer.cart = row /\ done.answer.lines = lines /\ done.answer.at = answers + 1
  /\ jobs'[w] = done /\ jobs' \in [Workers -> GoodJob \cup {Idle}]
  /\ \A x \in Workers \ {w} : jobs'[x] = jobs[x]
  /\ cart' = row /\ answers' = answers + 1
  /\ UNCHANGED <<products, lines, started, raced, ideal, shown, behind, orders>>
  /\ touched' = [o \in Orders |-> IF job.by = o THEN {} ELSE touched[o]]

(* The step does so.                                                       *)
LEMMA FetchFetches ==
  ASSUME IInv, NEW w \in Workers, Work(w), FetchCart(w), NEW job, job = jobs[w],
         NEW row, row = RowFound(job), NEW done, done = Ended(job, "done", AnswerOf(row, lines))
  PROVE  /\ Fetched(w, job, row, done) /\ row.exists
         /\ row.currency = cart.currency /\ row.subtotal = cart.subtotal
         /\ job.creates \/ row = cart
<1>1. job.pc = "fetch"
  BY DEF FetchCart
<1>2. /\ Typed /\ job \in GoodJob /\ CartHeld
      /\ (job.creates <=> ~cart.exists)
  BY <1>1, JobFacts DEF Within, InTransaction
<1>3. job.kind = "get"
  BY <1>1, <1>2 DEF GoodJob
<1>4. row \in CartRow /\ row.exists /\ row.currency = cart.currency /\ row.subtotal = cart.subtotal
  <2>1. CASE job.creates
    <3>1. cart = NoCart /\ row = [NoCart EXCEPT !.exists = TRUE]
      BY <1>2, <2>1 DEF CartHeld, RowFound
    <3>2. QED
      BY <3>1, NothingIs DEF CartRow
  <2>2. CASE ~job.creates
    BY <1>2, <2>2 DEF Typed, RowFound
  <2>3. QED
    BY <2>1, <2>2
<1>5. PICK n \in Nat : n = answers + 1
  BY <1>2 DEF Typed
<1>6. n > 0
  BY <1>2, <1>5 DEF Typed
<1>7. PICK answer : answer = [cart |-> row, lines |-> lines, at |-> n]
  OBVIOUS
<1>8. answer \in Answer /\ answer.cart = row /\ answer.lines = lines /\ answer.at = n
  BY <1>2, <1>4, <1>5, <1>7 DEF Answer, Typed
<1>9. done = Ended(job, "done", answer)
  BY <1>5, <1>7 DEF AnswerOf
<1>10. /\ done \in GoodJob /\ done.pc = "done" /\ done.kind = job.kind /\ done.by = job.by
       /\ done.awaited = job.awaited /\ done.answer = answer
  BY <1>2, <1>6, <1>8, <1>9, EndedIs
<1>11. Served(w, row) = answer
  BY <1>1, <1>2, <1>5, <1>7, NothingWritten DEF Served
<1>12. /\ cart' = row /\ answers' = answers + 1 /\ Goto(w, done)
       /\ UNCHANGED <<lines, started, ghosts>>
  BY <1>9, <1>11 DEF FetchCart, RowFound
<1>13. /\ jobs'[w] = done /\ jobs' \in [Workers -> GoodJob \cup {Idle}]
       /\ \A x \in Workers \ {w} : jobs'[x] = jobs[x]
  BY <1>2, <1>10, <1>12 DEF Typed, Goto
<1>14. ~Commits(w) /\ ~Repeats(w) /\ Reads(w)
  BY <1>1, <1>10, <1>13 DEF Commits, Repeats, Reads
<1>15. behind' = behind
  BY <1>2, <1>14 DEF Work, Typed
<1>16. touched' = [o \in Orders |-> IF job.by = o THEN {} ELSE touched[o]]
  <2>1. touched' = [o \in Orders |->
          CASE Reads(w) /\ jobs[w].by = o -> {}
            [] Commits(w) /\ jobs[w].by = "web" -> touched[o] \cup DOMAIN jobs[w].writes
            [] OTHER -> touched[o]]
    BY DEF Work
  <2>2. QED
    BY <1>14, <2>1
<1>17. UNCHANGED <<products, lines, started, raced, ideal, shown, behind, orders>>
  BY <1>12, <1>15 DEF Work, catalog, ghosts
<1>18. done.answer.at = answers + 1
  BY <1>5, <1>8, <1>10
<1>19. job.creates \/ row = cart
  BY DEF RowFound
<1>20. Fetched(w, job, row, done)
  BY <1>1, <1>2, <1>3, <1>4, <1>8, <1>10, <1>12, <1>13, <1>16, <1>17, <1>18 DEF Fetched
<1>21. QED
  BY <1>4, <1>19, <1>20

(* A reading of the cart commits.                                          *)
LEMMA FetchCartKeeps ==
  ASSUME IInv, NEW w \in Workers, Work(w), FetchCart(w)
  PROVE  IInv'
<1>0. /\ Typed /\ CartHeld /\ Placed /\ OnlyOne
      /\ (\A x \in Workers : JobInv(x))
      /\ SumInv /\ OneCurrency /\ ShownInv
      /\ \A o \in Orders : OrderInv(o)
  BY DEF IInv, CartInv
<1>1. PICK job : job = jobs[w]
  OBVIOUS
<1>2. PICK row : row = RowFound(job)
  OBVIOUS
<1>3. PICK done : done = Ended(job, "done", AnswerOf(row, lines))
  OBVIOUS
<1>4. /\ Fetched(w, job, row, done) /\ row.exists
      /\ row.currency = cart.currency /\ row.subtotal = cart.subtotal
      /\ job.creates \/ row = cart
  BY ONLY IInv, w \in Workers, Work(w), FetchCart(w), <1>1, <1>2, <1>3, FetchFetches
<1>5. /\ job \in GoodJob /\ job.pc = "fetch" /\ job.kind = "get" /\ row \in CartRow
      /\ done \in GoodJob /\ done.pc = "done" /\ done.kind = "get" /\ done.by = job.by
      /\ done.awaited = job.awaited /\ done.answer \in Answer
      /\ done.answer.cart = row /\ done.answer.lines = lines /\ done.answer.at = answers + 1
  BY <1>4 DEF Fetched
<1>6. /\ jobs'[w] = done /\ jobs' \in [Workers -> GoodJob \cup {Idle}]
      /\ \A x \in Workers \ {w} : jobs'[x] = jobs[x]
      /\ cart' = row /\ answers' = answers + 1
      /\ UNCHANGED <<products, lines, started, raced, ideal, shown, behind, orders>>
      /\ touched' = [o \in Orders |-> IF job.by = o THEN {} ELSE touched[o]]
  BY <1>4 DEF Fetched
<1>7. Within(w) /\ (job.creates <=> ~cart.exists) /\ w \notin Writers
  BY <1>0, <1>1, <1>5 DEF Within, CartHeld, Writers, InTransaction
<1>8. job.creates => Holds(w)
  BY <1>1, <1>5, <1>7 DEF Holds, GoodJob
<1>9. Typed'
  <2>1. touched' \in [Orders -> SUBSET Variants]
    BY <1>0, <1>6 DEF Typed
  <2>2. answers' \in Nat
    BY <1>0, <1>6 DEF Typed
  <2>3. QED
    BY <1>0, <1>5, <1>6, <2>1, <2>2 DEF Typed
<1>10. CartHeld'
  <2>1. \A x \in Workers \ {w} : /\ Within(x)' <=> Within(x)
                                 /\ Holds(x)' <=> Holds(x)
    BY <1>6 DEF Within, Holds
  <2>2. ~Within(w)' /\ ~Holds(w)'
    BY <1>5, <1>6 DEF Within, Holds, InTransaction
  <2>3. ASSUME NEW x \in Workers, Within(x)', jobs'[x].pc # "create"
        PROVE  ~jobs'[x].creates /\ cart'.exists
    <3>1. x # w /\ Within(x) /\ jobs'[x] = jobs[x]
      BY <1>6, <2>1, <2>2, <2>3
    <3>2. jobs[x] \in GoodJob
      BY <1>0, <3>1, JobIs DEF Within, InTransaction
    <3>3. jobs[x].creates => Holds(x)
      BY <3>1, <3>2 DEF Holds, GoodJob
    <3>4. jobs[x].creates => ~cart.exists
      BY <1>0, <2>3, <3>1 DEF CartHeld
    <3>5. ~jobs[x].creates
      BY <1>0, <1>7, <1>8, <3>1, <3>3, <3>4 DEF CartHeld
    <3>6. QED
      BY <1>4, <1>6, <3>1, <3>5
  <2>4. \A x, y \in Workers : Holds(x)' /\ Holds(y)' => x = y
    BY <1>0, <2>1, <2>2 DEF CartHeld
  <2>5. QED
    BY <1>4, <1>6, <2>3, <2>4 DEF CartHeld
<1>11. Placed' /\ SumInv' /\ OneCurrency'
  BY <1>0, <1>4, <1>6 DEF Placed, SumInv, OneCurrency
<1>12. OnlyOne'
  <2>1. \A x \in Workers : x \in Writers' => x \in Writers /\ jobs'[x] = jobs[x]
    BY <1>5, <1>6 DEF Writers
  <2>2. QED
    BY <1>0, <2>1 DEF OnlyOne, Writers
<1>13. ASSUME NEW x \in Workers
       PROVE  JobInv(x)'
  <2>1. \A other \in GoodJob : Fits(other) => Fits(other)'
    <3>1. UNCHANGED <<lines, ideal>> /\ cart'.currency = cart.currency
      BY <1>4, <1>6
    <3>2. QED
      BY ONLY <3>1 DEF Fits, CurrencyOf, Current, ViewOf, Applied, Targets, WithId, Rows
  <2>2. CASE x = w
    <3>1. Fits(done)
      BY <1>5 DEF Fits, InTransaction
    <3>2. QED
      BY <1>5, <1>6, <2>1, <2>2, <3>1 DEF JobInv
  <2>3. CASE x # w
    BY <1>0, <1>6, <2>1, <2>3 DEF JobInv
  <2>4. QED
    BY <2>2, <2>3
<1>14. ShownInv'
  <2>1. PICK n \in Nat : n = answers + 1
    BY <1>0 DEF Typed
  <2>2. /\ answers < n /\ answers' = n /\ answers \in Nat
    BY <1>0, <1>6, <2>1 DEF Typed
  <2>3. /\ shown.at <= answers /\ shown.at \in Nat
        /\ \A x \in Workers : jobs[x].pc = "done" => /\ jobs[x].answer.at <= answers
                                                     /\ jobs[x].answer.at \in Nat
                                                     /\ jobs[x].answer.at > 0
    <3>1. \A x \in Workers : jobs[x].pc = "done" => jobs[x] \in GoodJob
      BY <1>0, JobIs
    <3>2. QED
      BY <1>0, <3>1 DEF ShownInv, Typed, Answer, GoodJob, Job
  <2>4. done.answer.at = n
    BY <1>5, <2>1
  <2>5. shown'.at <= answers' /\ \A x \in Workers : jobs'[x].pc = "done" => jobs'[x].answer.at <= answers'
    <3>1. shown'.at <= answers'
      BY <1>6, <2>2, <2>3
    <3>2. ASSUME NEW x \in Workers, jobs'[x].pc = "done"
          PROVE  jobs'[x].answer.at <= answers'
      <4>1. CASE x = w
        BY <1>6, <2>2, <2>4, <4>1
      <4>2. CASE x # w
        <5>1. jobs[x].answer.at <= answers /\ jobs[x].answer.at \in Nat /\ jobs'[x] = jobs[x]
          BY <1>6, <2>3, <3>2, <4>2
        <5>2. QED
          BY <2>2, <5>1
      <4>3. QED
        BY <4>1, <4>2
    <3>3. QED
      BY <3>1, <3>2
  <2>6. /\ \A a : Shows(a)' => Shows(a) \/ a = done.answer
        /\ \A a : Shows(a) => Shows(a)'
    <3>1. \A x \in Workers \ {w} : x \in Coming' <=> x \in Coming
      BY <1>6 DEF Coming
    <3>2. w \notin Coming
      BY <1>1, <1>5 DEF Coming
    <3>3. QED
      BY <1>6, <3>1, <3>2 DEF Shows, Coming
  <2>7. Fresh(done.answer)'
    BY <1>5, <1>6 DEF Fresh
  <2>8. CASE ~job.creates
    <3>1. row = cart
      BY <1>4, <2>8
    <3>2. \A a : Fresh(a) => Fresh(a)'
      BY <1>6, <3>1 DEF Fresh
    <3>3. PICK m \in 0..answers :
            /\ \A a \in Answer : Shows(a) /\ a.at >= m => Fresh(a)
            /\ ~behind => \E a \in Answer : Shows(a) /\ a.at >= m
      BY <1>0 DEF ShownInv
    <3>4. m \in 0..answers'
      BY <2>2
    <3>5. /\ \A a \in Answer : Shows(a)' /\ a.at >= m => Fresh(a)'
          /\ ~behind' => \E a \in Answer : Shows(a)' /\ a.at >= m
      BY <1>6, <2>6, <2>7, <3>2, <3>3
    <3>6. QED
      BY <2>5, <3>4, <3>5 DEF ShownInv
  <2>9. CASE job.creates
    <3>1. /\ answers = 0 /\ shown = NoAnswer /\ \A v \in Variants : lines[v] = NoLine
      BY <1>0, <1>7, <2>9 DEF CartHeld
    <3>2. \A x \in Workers : jobs[x].pc # "done"
      BY <2>3, <3>1
    <3>3. PICK s \in Answer : s = shown
      BY <1>0 DEF Typed
    <3>4. \A a : Shows(a) => a = s
      BY <3>2, <3>3 DEF Shows, Coming
    <3>5. lines = NoAnswer.lines
      BY <1>0, <3>1, NothingIs DEF Typed, Lines
    <3>6. Fresh(s)'
      BY <1>6, <3>1, <3>3, <3>5 DEF Fresh
    <3>7. \A a \in Answer : Shows(a)' => Fresh(a)'
      BY <2>6, <2>7, <3>4, <3>6
    <3>8. Shows(s)' /\ s.at >= 0
      BY <1>6, <2>3, <3>3 DEF Shows
    <3>9. 0 \in 0..answers'
      BY <2>2
    <3>10. QED
      BY <2>5, <3>3, <3>7, <3>8, <3>9 DEF ShownInv
  <2>10. QED
    BY <2>8, <2>9
<1>15. ASSUME NEW o \in Orders
       PROVE  OrderInv(o)'
  <2>1. \A x \in Workers : Reading(x, o)' <=> Reading(x, o)
    BY <1>1, <1>5, <1>6 DEF Reading
  <2>2. \A x \in Workers : jobs'[x].pc # "idle" /\ jobs'[x].by = o /\ jobs'[x].kind = "clear" =>
          orders'[o].status = "confirmed"
    BY <1>0, <1>5, <1>6 DEF OrderInv
  <2>3. \A x, y \in Workers : Reading(x, o)' /\ Reading(y, o)' => x = y
    BY <1>0, <2>1 DEF OrderInv
  <2>4. CASE job.by = o
    <3>1. Reading(w, o) /\ orders[o].status = "placing"
      BY <1>0, <1>1, <1>5, <2>4 DEF Reading, OrderInv
    <3>2. \A x \in Workers : Reading(x, o)' => x = w
      BY <1>0, <2>1, <3>1 DEF OrderInv
    <3>3. \A ls \in Lines : done.answer.lines = ls => Kept(o, ls)'
      BY <1>5, <1>6 DEF Kept
    <3>4. QED
      BY <1>6, <2>2, <2>3, <3>1, <3>2, <3>3 DEF OrderInv
  <2>5. CASE job.by # o
    <3>1. \A ls : Kept(o, ls) => Kept(o, ls)'
      BY <1>6, <2>5 DEF Kept
    <3>2. ~Reading(w, o)
      BY <1>1, <2>5 DEF Reading
    <3>3. \A x \in Workers : Reading(x, o)' =>
            /\ orders'[o].status = "placing"
            /\ \A ls \in Lines : jobs'[x].pc = "done" /\ jobs'[x].answer.lines = ls => Kept(o, ls)'
      BY <1>0, <1>6, <2>1, <3>1, <3>2 DEF OrderInv
    <3>4. \A ls \in Lines : orders'[o].status \in {"created", "confirmed"} /\ orders'[o].lines = ls =>
            Kept(o, ls)'
      BY <1>0, <1>6, <3>1 DEF OrderInv
    <3>5. QED
      BY <2>2, <2>3, <3>3, <3>4 DEF OrderInv
  <2>6. QED
    BY <2>4, <2>5
<1>16. QED
  BY <1>9, <1>10, <1>11, <1>12, <1>13, <1>14, <1>15 DEF IInv, CartInv

-----------------------------------------------------------------------------
(* The page and the orders                                                 *)

(* A job that is over leaves its worker idle.                              *)
LEMMA EndIsStill ==
  ASSUME Typed, NEW w \in Workers, Goto(w, Idle), w \notin Coming,
         UNCHANGED <<catalog, cartRows, counters, ghosts, browser>>
  PROVE  /\ Still(w, Idle) /\ ~Within(w)'
         /\ \A o \in Orders : ~Reading(w, o)'
         /\ \A x \in Workers \ {w} : jobs'[x] = jobs[x]
<1>1. Goes(w, Idle)
  BY DEF Goto, Goes, Typed
<1>2. UNCHANGED <<products, cart, lines, started, answers, raced, ideal, shown, behind>>
  BY DEF cartRows, ghosts, catalog, counters, browser
<1>3. started' \in Nat /\ behind' \in BOOLEAN
  BY <1>2 DEF Typed
<1>4. Idle.pc \notin InTransaction \cup {"done"} /\ Idle.pc = "idle"
  BY IdleIs DEF InTransaction
<1>5. w \notin Coming' /\ ~Within(w)' /\ \A o \in Orders : ~Reading(w, o)'
  BY <1>1, <1>4 DEF Coming, Goes, Within, Reading
<1>6. Still(w, Idle)
  BY <1>1, <1>2, <1>3, <1>4, <1>5 DEF Still
<1>7. QED
  BY <1>1, <1>5, <1>6 DEF Goes

(* An order is made of the cart that was read.                             *)
LEMMA CreateOrderKeeps ==
  ASSUME IInv, NEW w \in Workers, CreateOrder(w)
  PROVE  IInv'
<1>0. CartInv /\ Typed /\ \A o \in Orders : OrderInv(o)
  BY DEF IInv, CartInv
<1>1. PICK by \in Orders : by = jobs[w].by
  BY DEF CreateOrder
<1>2. PICK ls : ls = jobs[w].answer.lines
  OBVIOUS
<1>3. /\ jobs[w].pc = "done" /\ jobs[w].kind = "get"
      /\ orders' = [orders EXCEPT ![by] =
           IF Rows(ls) = {} THEN [@ EXCEPT !.status = "refused"]
           ELSE [status |-> "created", lines |-> ls]]
      /\ Goto(w, Idle)
      /\ UNCHANGED <<catalog, cartRows, counters, ghosts, browser, touched>>
  BY <1>1, <1>2 DEF CreateOrder, OrderedLines
<1>4. ls \in Lines /\ jobs[w].answer.lines = ls
  <2>1. jobs[w] \in GoodJob
    BY <1>0, <1>3, JobIs
  <2>2. QED
    BY <1>2, <2>1 DEF GoodJob, Job, Answer
<1>5. Reading(w, by) /\ orders[by].status = "placing" /\ Kept(by, ls)
      /\ \A x \in Workers : Reading(x, by) => x = w
  <2>1. Reading(w, by) /\ OrderInv(by)
    BY <1>0, <1>1, <1>3 DEF Reading
  <2>2. QED
    BY <1>3, <1>4, <2>1 DEF OrderInv
<1>6. w \notin Coming
  BY <1>1, OrdersAssumption DEF Coming
<1>7. /\ Still(w, Idle) /\ (\A o \in Orders : ~Reading(w, o)')
      /\ \A x \in Workers \ {w} : jobs'[x] = jobs[x]
  BY <1>0, <1>3, <1>6, EndIsStill
<1>8. PICK row \in OrderRow :
        /\ row.status \in {"refused", "created"}
        /\ row.status = "created" => row.lines = ls
        /\ orders' = [orders EXCEPT ![by] = row]
  <2>1. CASE Rows(ls) = {}
    <3>1. PICK row : row = [orders[by] EXCEPT !.status = "refused"]
      OBVIOUS
    <3>2. row \in OrderRow /\ row.status = "refused"
      BY <1>0, <3>1 DEF Typed, OrderRow
    <3>3. orders' = [orders EXCEPT ![by] = row]
      BY <1>3, <2>1, <3>1
    <3>4. QED
      BY <3>2, <3>3
  <2>2. CASE Rows(ls) # {}
    <3>1. PICK row : row = [status |-> "created", lines |-> ls]
      OBVIOUS
    <3>2. row \in OrderRow /\ row.status = "created" /\ row.lines = ls
      BY <1>4, <3>1 DEF OrderRow
    <3>3. orders' = [orders EXCEPT ![by] = row]
      BY <1>3, <2>2, <3>1
    <3>4. QED
      BY <3>2, <3>3
  <2>3. QED
    BY <2>1, <2>2
<1>9. /\ orders' \in [Orders -> OrderRow] /\ touched' \in [Orders -> SUBSET Variants]
      /\ orders'[by] = row /\ \A o \in Orders \ {by} : orders'[o] = orders[o]
  BY <1>0, <1>3, <1>8 DEF Typed
<1>10. CartInv'
  BY <1>0, <1>7, <1>9, StillKeeps
<1>11. ASSUME NEW o \in Orders
       PROVE  OrderInv(o)'
  <2>1. \A any : Kept(o, any)' <=> Kept(o, any)
    BY <1>3 DEF Kept, cartRows
  <2>2. \A x \in Workers : /\ Reading(x, o)' => Reading(x, o) /\ x # w
                           /\ x # w => jobs'[x] = jobs[x]
    BY <1>7 DEF Reading
  <2>3. Idle.pc = "idle" /\ jobs'[w] = Idle
    BY <1>7, IdleIs DEF Still, Goes
  <2>4. CASE o = by
    <3>1. \A x \in Workers : ~Reading(x, o)'
      BY <1>5, <2>2, <2>4
    <3>2. \A x \in Workers : jobs'[x].pc # "idle" /\ jobs'[x].by = o /\ jobs'[x].kind = "clear" => FALSE
      BY <1>0, <1>5, <2>2, <2>3, <2>4 DEF OrderInv
    <3>3. \A any \in Lines : orders'[o].status \in {"created", "confirmed"} /\ orders'[o].lines = any =>
            Kept(o, any)'
      BY <1>5, <1>8, <1>9, <2>1, <2>4
    <3>4. QED
      BY <3>1, <3>2, <3>3 DEF OrderInv
  <2>5. CASE o # by
    <3>1. orders'[o] = orders[o]
      BY <1>9, <2>5
    <3>2. \A x \in Workers : jobs'[x].pc # "idle" /\ jobs'[x].by = o /\ jobs'[x].kind = "clear" =>
            orders'[o].status = "confirmed"
      BY <1>0, <2>2, <2>3, <3>1 DEF OrderInv
    <3>3. \A x \in Workers : Reading(x, o)' =>
            /\ orders'[o].status = "placing"
            /\ \A any \in Lines : jobs'[x].pc = "done" /\ jobs'[x].answer.lines = any => Kept(o, any)'
      BY <1>0, <2>1, <2>2, <3>1 DEF OrderInv
    <3>4. \A any \in Lines : orders'[o].status \in {"created", "confirmed"} /\ orders'[o].lines = any =>
            Kept(o, any)'
      BY <1>0, <2>1, <3>1 DEF OrderInv
    <3>5. \A x, y \in Workers : Reading(x, o)' /\ Reading(y, o)' => x = y
      BY <1>0, <2>2 DEF OrderInv
    <3>6. QED
      BY <3>2, <3>3, <3>4, <3>5 DEF OrderInv
  <2>6. QED
    BY <2>4, <2>5
<1>12. QED
  BY <1>10, <1>11 DEF IInv

(* A checkout that finds no cart is refused.                               *)
LEMMA RefuseOrderKeeps ==
  ASSUME IInv, NEW w \in Workers, RefuseOrder(w)
  PROVE  IInv'
<1>0. CartInv /\ Typed /\ \A o \in Orders : OrderInv(o)
  BY DEF IInv, CartInv
<1>1. PICK by \in Orders : by = jobs[w].by
  BY DEF RefuseOrder
<1>2. /\ jobs[w].pc = "failed" /\ jobs[w].kind = "get"
      /\ orders' = [orders EXCEPT ![by].status = "refused"]
      /\ Goto(w, Idle)
      /\ UNCHANGED <<catalog, cartRows, counters, ghosts, browser, touched>>
  BY <1>1 DEF RefuseOrder
<1>3. Reading(w, by) /\ orders[by].status = "placing"
      /\ \A x \in Workers : Reading(x, by) => x = w
  <2>1. Reading(w, by) /\ OrderInv(by)
    BY <1>0, <1>1, <1>2 DEF Reading
  <2>2. QED
    BY <2>1 DEF OrderInv
<1>4. w \notin Coming
  BY <1>2 DEF Coming
<1>5. /\ Still(w, Idle) /\ (\A o \in Orders : ~Reading(w, o)')
      /\ \A x \in Workers \ {w} : jobs'[x] = jobs[x]
  BY <1>0, <1>2, <1>4, EndIsStill
<1>6. PICK row : row = [orders[by] EXCEPT !.status = "refused"]
  OBVIOUS
<1>7. row \in OrderRow /\ row.status = "refused"
  BY <1>0, <1>6 DEF Typed, OrderRow
<1>8. /\ orders' \in [Orders -> OrderRow] /\ touched' \in [Orders -> SUBSET Variants]
      /\ orders'[by] = row /\ \A o \in Orders \ {by} : orders'[o] = orders[o]
  <2>1. orders' = [orders EXCEPT ![by] = row]
    BY <1>2, <1>6
  <2>2. QED
    BY <1>0, <1>2, <1>7, <2>1 DEF Typed
<1>9. CartInv'
  BY <1>0, <1>5, <1>8, StillKeeps
<1>10. ASSUME NEW o \in Orders
       PROVE  OrderInv(o)'
  <2>1. \A any : Kept(o, any)' <=> Kept(o, any)
    BY <1>2 DEF Kept, cartRows
  <2>2. \A x \in Workers : /\ Reading(x, o)' => Reading(x, o) /\ x # w
                           /\ x # w => jobs'[x] = jobs[x]
    BY <1>5 DEF Reading
  <2>3. Idle.pc = "idle" /\ jobs'[w] = Idle
    BY <1>5, IdleIs DEF Still, Goes
  <2>4. CASE o = by
    <3>1. \A x \in Workers : ~Reading(x, o)'
      BY <1>3, <2>2, <2>4
    <3>2. \A x \in Workers : jobs'[x].pc # "idle" /\ jobs'[x].by = o /\ jobs'[x].kind = "clear" => FALSE
      BY <1>0, <1>3, <2>2, <2>3, <2>4 DEF OrderInv
    <3>3. QED
      BY <1>7, <1>8, <2>4, <3>1, <3>2 DEF OrderInv
  <2>5. CASE o # by
    <3>1. orders'[o] = orders[o]
      BY <1>8, <2>5
    <3>2. \A x \in Workers : jobs'[x].pc # "idle" /\ jobs'[x].by = o /\ jobs'[x].kind = "clear" =>
            orders'[o].status = "confirmed"
      BY <1>0, <2>2, <2>3, <3>1 DEF OrderInv
    <3>3. \A x \in Workers : Reading(x, o)' =>
            /\ orders'[o].status = "placing"
            /\ \A any \in Lines : jobs'[x].pc = "done" /\ jobs'[x].answer.lines = any => Kept(o, any)'
      BY <1>0, <2>1, <2>2, <3>1 DEF OrderInv
    <3>4. \A any \in Lines : orders'[o].status \in {"created", "confirmed"} /\ orders'[o].lines = any =>
            Kept(o, any)'
      BY <1>0, <2>1, <3>1 DEF OrderInv
    <3>5. \A x, y \in Workers : Reading(x, o)' /\ Reading(y, o)' => x = y
      BY <1>0, <2>2 DEF OrderInv
    <3>6. QED
      BY <3>2, <3>3, <3>4, <3>5 DEF OrderInv
  <2>6. QED
    BY <2>4, <2>5
<1>11. QED
  BY <1>9, <1>10 DEF IInv

(* The customer places an order, which begins with a reading of the cart.  *)
LEMMA PlaceOrderKeeps ==
  ASSUME IInv, NEW w \in Workers, NEW by \in Orders, PlaceOrder(w, by)
  PROVE  IInv'
<1>0. CartInv /\ Typed /\ \A o \in Orders : OrderInv(o)
  BY DEF IInv, CartInv
<1>1. PICK c : c = Command(by, "get", AnyProduct, AnyVariant, 1, NoItem)
  OBVIOUS
<1>2. /\ c.by = by /\ c.kind = "get" /\ c.product = AnyProduct /\ c.variant = AnyVariant
      /\ c.quantity = 1 /\ c.item = 0
  BY <1>1 DEF Command, NoItem
<1>3. PICK serial \in Nat : serial = started + 1
  BY <1>0 DEF Typed
<1>4. PICK new : new = NewJob(c, serial)
  OBVIOUS
<1>5. /\ new \in GoodJob /\ new.pc \in {"product", "cart"} /\ new.kind = "get" /\ new.by = by
  BY <1>2, <1>4, NewJobIs
<1>6. /\ jobs[w].pc = "idle" /\ Goto(w, new) /\ started' = serial
      /\ orders[by].status = "none"
      /\ orders' = [orders EXCEPT ![by].status = "placing"]
      /\ UNCHANGED <<cartRows, answers, ghosts, catalog, browser, touched>>
  BY <1>1, <1>3, <1>4 DEF PlaceOrder, Receive
<1>7. Goes(w, new)
  BY <1>0, <1>5, <1>6 DEF Goto, Goes, Typed
<1>8. UNCHANGED <<products, cart, lines, answers, raced, ideal, shown, behind, touched>>
  BY <1>6 DEF cartRows, ghosts, catalog, browser
<1>9. new.pc \notin InTransaction \cup {"done"}
  BY <1>5 DEF InTransaction
<1>10. Still(w, new)
  <2>1. Fits(new)
    BY <1>9 DEF Fits
  <2>2. w \notin Coming' /\ w \notin Coming
    BY <1>6, <1>7, <1>9 DEF Coming, Goes
  <2>3. started' \in Nat /\ behind' \in BOOLEAN
    BY <1>0, <1>3, <1>6, <1>8 DEF Typed
  <2>4. QED
    BY <1>7, <1>8, <1>9, <2>1, <2>2, <2>3 DEF Still
<1>11. PICK row : row = [orders[by] EXCEPT !.status = "placing"]
  OBVIOUS
<1>12. row \in OrderRow /\ row.status = "placing"
  BY <1>0, <1>11 DEF Typed, OrderRow
<1>13. /\ orders' \in [Orders -> OrderRow] /\ touched' \in [Orders -> SUBSET Variants]
       /\ orders'[by] = row /\ \A o \in Orders \ {by} : orders'[o] = orders[o]
  <2>1. orders' = [orders EXCEPT ![by] = row]
    BY <1>6, <1>11
  <2>2. QED
    BY <1>0, <1>8, <1>12, <2>1 DEF Typed
<1>14. CartInv'
  BY <1>0, <1>10, <1>13, StillKeeps
<1>15. ASSUME NEW o \in Orders
       PROVE  OrderInv(o)'
  <2>1. \A any : Kept(o, any)' <=> Kept(o, any)
    BY <1>8 DEF Kept
  <2>2. \A x \in Workers \ {w} : /\ Reading(x, o)' => Reading(x, o)
                                 /\ jobs'[x] = jobs[x]
    BY <1>7 DEF Reading, Goes
  <2>3. jobs'[w] = new
    BY <1>7 DEF Goes
  <2>4. CASE o = by
    <3>1. \A x \in Workers \ {w} : ~Reading(x, o)'
      BY <1>0, <1>6, <2>2, <2>4 DEF OrderInv
    <3>2. \A x \in Workers : jobs'[x].pc # "idle" /\ jobs'[x].by = o /\ jobs'[x].kind = "clear" => FALSE
      BY <1>0, <1>5, <1>6, <2>2, <2>3, <2>4 DEF OrderInv
    <3>3. QED
      BY <1>9, <1>12, <1>13, <2>3, <2>4, <3>1, <3>2 DEF OrderInv
  <2>5. CASE o # by
    <3>1. orders'[o] = orders[o] /\ ~Reading(w, o)'
      BY <1>5, <1>13, <2>3, <2>5 DEF Reading
    <3>2. \A x \in Workers : jobs'[x].pc # "idle" /\ jobs'[x].by = o /\ jobs'[x].kind = "clear" =>
            orders'[o].status = "confirmed"
      BY <1>0, <1>5, <2>2, <2>3, <2>5, <3>1 DEF OrderInv
    <3>3. \A x \in Workers : Reading(x, o)' =>
            /\ orders'[o].status = "placing"
            /\ \A any \in Lines : jobs'[x].pc = "done" /\ jobs'[x].answer.lines = any => Kept(o, any)'
      BY <1>0, <2>1, <2>2, <3>1 DEF OrderInv
    <3>4. \A any \in Lines : orders'[o].status \in {"created", "confirmed"} /\ orders'[o].lines = any =>
            Kept(o, any)'
      BY <1>0, <2>1, <3>1 DEF OrderInv
    <3>5. \A x, y \in Workers : Reading(x, o)' /\ Reading(y, o)' => x = y
      BY <1>0, <2>2, <3>1 DEF OrderInv
    <3>6. QED
      BY <3>2, <3>3, <3>4, <3>5 DEF OrderInv
  <2>6. QED
    BY <2>4, <2>5
<1>16. QED
  BY <1>14, <1>15 DEF IInv

(* What no job and no row of the cart's is changed by.                     *)
LEMMA CartInvStays ==
  ASSUME CartInv, products' \in [Products -> ProductRow \cup {NoProduct}],
         orders' \in [Orders -> OrderRow],
         UNCHANGED <<cart, lines, jobs, started, answers, raced, ideal, shown, behind, touched>>
  PROVE  CartInv'
<1>0. /\ Typed /\ CartHeld /\ Placed /\ OnlyOne
      /\ (\A x \in Workers : JobInv(x))
      /\ SumInv /\ OneCurrency /\ ShownInv
  BY DEF CartInv
<1>1. Typed'
  BY <1>0 DEF Typed
<1>2. UNCHANGED <<cart, lines, jobs, started, answers, raced, ideal, shown, behind, touched>>
  OBVIOUS
<1>3. CartHeld'
  BY ONLY <1>0, <1>2 DEF CartHeld, Holds, Within
<1>4. Placed' /\ SumInv' /\ OneCurrency'
  BY ONLY <1>0, <1>2 DEF Placed, SumInv, OneCurrency
<1>5. OnlyOne'
  BY ONLY <1>0, <1>2 DEF OnlyOne, Writers
<1>6. ASSUME NEW x \in Workers
      PROVE  JobInv(x)'
  <2>1. \A job \in GoodJob : Fits(job) => Fits(job)'
    BY ONLY <1>2 DEF Fits, CurrencyOf, Current, ViewOf, Applied, Targets, WithId, Rows
  <2>2. QED
    BY <1>0, <1>2, <2>1 DEF JobInv
<1>7. ShownInv'
  <2>1. \A a : (Shows(a)' <=> Shows(a)) /\ (Fresh(a)' <=> Fresh(a))
    BY ONLY <1>2 DEF Shows, Fresh, Coming
  <2>2. QED
    BY ONLY <1>0, <1>2, <2>1 DEF ShownInv
<1>8. QED
  BY <1>1, <1>3, <1>4, <1>5, <1>6, <1>7 DEF CartInv

(* An order is confirmed.                                                  *)
LEMMA ConfirmOrderKeeps ==
  ASSUME IInv, NEW by \in Orders, ConfirmOrder(by)
  PROVE  IInv'
<1>0. CartInv /\ Typed /\ \A o \in Orders : OrderInv(o)
  BY DEF IInv, CartInv
<1>1. /\ orders[by].status = "created"
      /\ orders' = [orders EXCEPT ![by].status = "confirmed"]
      /\ UNCHANGED <<products, cart, lines, jobs, started, answers, raced, ideal, shown, behind,
                     touched>>
  BY DEF ConfirmOrder, cartRows, catalog, counters, ghosts, browser
<1>2. PICK row : row = [orders[by] EXCEPT !.status = "confirmed"]
  OBVIOUS
<1>3. row \in OrderRow /\ row.status = "confirmed" /\ row.lines = orders[by].lines
  BY <1>0, <1>2 DEF Typed, OrderRow
<1>4. /\ orders' \in [Orders -> OrderRow]
      /\ orders'[by] = row /\ \A o \in Orders \ {by} : orders'[o] = orders[o]
  <2>1. orders' = [orders EXCEPT ![by] = row]
    BY <1>1, <1>2
  <2>2. QED
    BY <1>0, <1>3, <2>1 DEF Typed
<1>5. CartInv'
  BY <1>0, <1>1, <1>4, CartInvStays DEF Typed
<1>6. ASSUME NEW o \in Orders
      PROVE  OrderInv(o)'
  <2>1. \A any : Kept(o, any)' <=> Kept(o, any)
    BY <1>1 DEF Kept
  <2>2. \A x \in Workers : Reading(x, o)' <=> Reading(x, o)
    BY <1>1 DEF Reading
  <2>3. CASE o = by
    <3>1. \A x \in Workers : ~Reading(x, o)'
      BY <1>0, <1>1, <2>2, <2>3 DEF OrderInv
    <3>2. \A any \in Lines : orders'[o].lines = any => Kept(o, any)'
      BY <1>0, <1>1, <1>3, <1>4, <2>1, <2>3 DEF OrderInv
    <3>3. QED
      BY <1>3, <1>4, <2>3, <3>1, <3>2 DEF OrderInv
  <2>4. CASE o # by
    <3>1. orders'[o] = orders[o] /\ jobs' = jobs
      BY <1>1, <1>4, <2>4
    <3>2. OrderInv(o)
      BY <1>0
    <3>3. QED
      BY ONLY <2>1, <2>2, <3>1, <3>2 DEF OrderInv
  <2>5. QED
    BY <2>3, <2>4
<1>7. QED
  BY <1>5, <1>6 DEF IInv

(* A product that is created, or edited, is one.                           *)
LEMMA ProductIs ==
  /\ \A p \in NewProducts : p.id \in Products /\ Row(p) \in ProductRow
  /\ \A e \in Edits : \A row, new :
       /\ row \in ProductRow
       /\ new = [f \in DOMAIN row |-> IF f \in DOMAIN e THEN e[f] ELSE row[f]]
       => new \in ProductRow
<1>1. ASSUME NEW p \in NewProducts
      PROVE  p.id \in Products /\ Row(p) \in ProductRow
  <2>1. IsProduct(p) /\ p.variants \in VariantsGiven
    BY CatalogAssumption DEF VariantsGiven
  <2>2. QED
    BY <2>1 DEF IsProduct, Row, ProductRow
<1>2. ASSUME NEW e \in Edits, NEW row \in ProductRow, NEW new,
             new = [f \in DOMAIN row |-> IF f \in DOMAIN e THEN e[f] ELSE row[f]]
      PROVE  new \in ProductRow
  <2>1. /\ DOMAIN e \subseteq {"id", "isActive", "price", "currency", "variants"}
        /\ "isActive" \in DOMAIN e => e["isActive"] \in BOOLEAN
        /\ "price" \in DOMAIN e => e["price"] \in Prices
        /\ "currency" \in DOMAIN e => e["currency"] \in Currencies
        /\ "variants" \in DOMAIN e => e["variants"] \in VariantsGiven
    BY CatalogAssumption DEF IsEdit, VariantsGiven
  <2>2. /\ DOMAIN row = {"exists", "isActive", "price", "currency", "variants"}
        /\ row["exists"] = TRUE /\ row["isActive"] \in BOOLEAN /\ row["price"] \in Prices
        /\ row["currency"] \in Currencies /\ row["variants"] \in VariantsGiven
    BY DEF ProductRow
  <2>3. /\ DOMAIN new = {"exists", "isActive", "price", "currency", "variants"}
        /\ new = [f \in {"exists", "isActive", "price", "currency", "variants"} |-> new[f]]
        /\ new["exists"] = TRUE /\ new["isActive"] \in BOOLEAN /\ new["price"] \in Prices
        /\ new["currency"] \in Currencies /\ new["variants"] \in VariantsGiven
    BY <1>2, <2>1, <2>2
  <2>4. QED
    BY ONLY <2>3 DEF ProductRow
<1>3. QED
  BY <1>1, <1>2

(* The administrator saves a product.                                      *)
LEMMA SavedKeeps ==
  ASSUME IInv, (\E p \in NewProducts : Create(p)) \/ (\E e \in Edits : Edit(e))
  PROVE  IInv'
<1>0. CartInv /\ Typed /\ \A o \in Orders : OrderInv(o)
  BY DEF IInv, CartInv
<1>1. UNCHANGED <<cart, lines, jobs, started, answers, raced, ideal, shown, behind, orders,
                  touched>>
  BY DEF Create, Edit, cartRows, counters, ghosts, browser, ordering
<1>2. products' \in [Products -> ProductRow \cup {NoProduct}]
  <2>1. ASSUME NEW p \in NewProducts, Create(p)
        PROVE  products' \in [Products -> ProductRow \cup {NoProduct}]
    BY <1>0, <2>1, ProductIs DEF Create, CreateProduct, Typed
  <2>2. ASSUME NEW e \in Edits, Edit(e)
        PROVE  products' \in [Products -> ProductRow \cup {NoProduct}]
    <3>1. PICK row : row = products[e.id]
      OBVIOUS
    <3>2. e.id \in Products /\ row.exists
      BY <2>2, <3>1, CatalogAssumption DEF Edit, UpdateProduct, IsEdit
    <3>3. row \in ProductRow
      BY <1>0, <3>1, <3>2 DEF Typed, NoProduct
    <3>4. PICK new : new = [f \in DOMAIN row |-> IF f \in DOMAIN e THEN e[f] ELSE row[f]]
      OBVIOUS
    <3>5. products' = [products EXCEPT ![e.id] = new]
      BY <2>2, <3>1, <3>4 DEF Edit, UpdateProduct
    <3>6. new \in ProductRow
      BY <3>3, <3>4, ProductIs
    <3>7. QED
      BY <1>0, <3>5, <3>6 DEF Typed
  <2>3. QED
    BY <2>1, <2>2
<1>3. CartInv'
  BY <1>0, <1>1, <1>2, CartInvStays DEF Typed
<1>4. ASSUME NEW o \in Orders
      PROVE  OrderInv(o)'
  BY ONLY <1>0, <1>1, o \in Orders DEF OrderInv, Reading, Kept
<1>5. QED
  BY <1>3, <1>4 DEF IInv

(* An answer comes to the customer's page.                                 *)
LEMMA ShowAnswerKeeps ==
  ASSUME IInv, NEW w \in Workers, ShowAnswer(w)
  PROVE  IInv'
<1>0. /\ Typed /\ CartHeld /\ Placed /\ OnlyOne
      /\ (\A x \in Workers : JobInv(x))
      /\ SumInv /\ OneCurrency /\ ShownInv
      /\ \A o \in Orders : OrderInv(o)
  BY DEF IInv, CartInv
<1>1. /\ jobs[w].pc \in {"done", "failed"} /\ jobs[w].by = "web" /\ jobs[w].awaited
      /\ Goto(w, Idle)
      /\ UNCHANGED <<catalog, cartRows, counters, ghosts, ordering>>
  BY DEF ShowAnswer
<1>2. jobs[w] \in GoodJob
  BY <1>0, <1>1, JobIs
<1>3. \A o \in Orders : ~Reading(w, o)
  BY <1>1, OrdersAssumption DEF Reading
<1>4. CASE jobs[w].pc = "failed"
  <2>1. UNCHANGED browser
    BY <1>4 DEF ShowAnswer
  <2>2. w \notin Coming
    BY <1>4 DEF Coming
  <2>3. Still(w, Idle) /\ \A o \in Orders : ~Reading(w, o)'
    BY <1>0, <1>1, <2>1, <2>2, EndIsStill
  <2>4. Idle.pc = "idle" /\ UNCHANGED <<orders, touched>>
    BY <1>1, IdleIs DEF ordering
  <2>5. Quiet(w, Idle)
    BY <2>3, <2>4 DEF Quiet
  <2>6. QED
    BY <2>5, QuietKeeps
<1>5. CASE jobs[w].pc = "done"
  <2>1. PICK new : new = jobs[w].answer
    OBVIOUS
  <2>2. new \in Answer /\ new.at \in Nat /\ new.at > 0 /\ new.at <= answers
    BY <1>0, <1>2, <1>5, <2>1 DEF GoodJob, Job, Answer, ShownInv
  <2>3. /\ shown' = new
        /\ behind' = IF new.at = answers THEN FALSE ELSE behind \/ new.at < shown.at
    BY <1>5, <2>1 DEF ShowAnswer
  <2>4. /\ jobs'[w] = Idle /\ jobs' \in [Workers -> GoodJob \cup {Idle}]
        /\ \A x \in Workers \ {w} : jobs'[x] = jobs[x]
        /\ UNCHANGED <<products, cart, lines, started, answers, raced, ideal, orders, touched>>
    BY <1>0, <1>1 DEF Goto, Typed, cartRows, counters, ghosts, catalog, ordering
  <2>5. Idle.pc = "idle" /\ Idle.pc \notin InTransaction \cup {"done"} /\ Idle \notin GoodJob
    BY IdleIs DEF InTransaction
  <2>6. Typed'
    <3>1. behind' \in BOOLEAN
      BY <1>0, <2>3 DEF Typed
    <3>2. QED
      BY <1>0, <2>2, <2>3, <2>4, <3>1 DEF Typed
  <2>7. CartHeld'
    <3>1. \A x \in Workers : /\ Within(x)' => Within(x) /\ jobs'[x] = jobs[x]
                             /\ Holds(x)' => Holds(x)
      BY <2>4, <2>5 DEF Within, Holds
    <3>2. answers # 0
      BY <1>0, <2>2 DEF Typed
    <3>3. cart.exists
      BY <1>0, <3>2 DEF CartHeld
    <3>4. QED
      BY <1>0, <2>4, <3>1, <3>3 DEF CartHeld
  <2>8. Placed' /\ SumInv' /\ OneCurrency'
    BY <1>0, <2>4 DEF Placed, SumInv, OneCurrency
  <2>9. OnlyOne'
    <3>1. \A x \in Workers : x \in Writers' => x \in Writers /\ jobs'[x] = jobs[x]
      BY <2>4, <2>5 DEF Writers
    <3>2. QED
      BY <1>0, <3>1 DEF OnlyOne, Writers
  <2>10. ASSUME NEW x \in Workers
         PROVE  JobInv(x)'
    <3>1. \A job \in GoodJob : Fits(job) => Fits(job)'
      <4>1. UNCHANGED <<cart, lines, ideal>>
        BY <2>4
      <4>2. QED
        BY ONLY <4>1 DEF Fits, CurrencyOf, Current, ViewOf, Applied, Targets, WithId, Rows
    <3>2. QED
      BY <1>0, <2>4, <2>5, <3>1 DEF JobInv
  <2>11. ShownInv'
    <3>1. PICK old \in Answer : old = shown
      BY <1>0 DEF Typed
    <3>2. PICK n \in 0..answers :
            /\ \A a \in Answer : Shows(a) /\ a.at >= n => Fresh(a)
            /\ ~behind => \E a \in Answer : Shows(a) /\ a.at >= n
      BY <1>0 DEF ShownInv
    <3>3. answers' = answers /\ n \in Int /\ answers \in Int /\ n <= answers /\ old.at \in Int
      BY <1>0, <2>4, <3>1 DEF Typed, Answer
    <3>4. \A a : Fresh(a)' <=> Fresh(a)
      BY <2>4 DEF Fresh
    <3>5. w \in Coming /\ w \notin Coming' /\ \A x \in Workers \ {w} : x \in Coming' <=> x \in Coming
      BY <1>1, <1>5, <2>4, <2>5 DEF Coming
    <3>6. /\ \A a : Shows(a)' => Shows(a)
          /\ \A a : Shows(a) => Shows(a)' \/ a = old
          /\ Shows(new)'
      BY <2>1, <2>3, <2>4, <3>1, <3>5 DEF Shows, Coming
    <3>7. ~behind' => new.at = answers \/ (~behind /\ ~(new.at < old.at))
      BY <2>3, <3>1
    <3>8. ASSUME ~behind'
          PROVE  \E a \in Answer : Shows(a)' /\ a.at >= n
      <4>1. CASE new.at = answers
        BY <2>2, <3>3, <3>6, <4>1
      <4>2. CASE ~behind /\ ~(new.at < old.at)
        <5>1. PICK a \in Answer : Shows(a) /\ a.at >= n
          BY <3>2, <4>2
        <5>2. CASE a = old
          <6>1. new.at >= n
            BY <2>2, <3>3, <4>2, <5>1, <5>2
          <6>2. QED
            BY <2>2, <3>6, <6>1
        <5>3. CASE a # old
          BY <3>6, <5>1, <5>3
        <5>4. QED
          BY <5>2, <5>3
      <4>3. QED
        BY <3>7, <3>8, <4>1, <4>2
    <3>9. shown'.at <= answers' /\ \A x \in Workers : jobs'[x].pc = "done" => jobs'[x].answer.at <= answers'
      BY <1>0, <2>2, <2>3, <2>4, <2>5 DEF ShownInv
    <3>10. \A a \in Answer : Shows(a)' /\ a.at >= n => Fresh(a)'
      BY <3>2, <3>4, <3>6
    <3>11. QED
      BY <3>3, <3>8, <3>9, <3>10 DEF ShownInv
  <2>12. ASSUME NEW o \in Orders
         PROVE  OrderInv(o)'
    <3>1. \A x \in Workers : Reading(x, o)' => Reading(x, o) /\ jobs'[x] = jobs[x]
      BY <2>4, <2>5 DEF Reading
    <3>2. \A any : Kept(o, any)' <=> Kept(o, any)
      BY <2>4 DEF Kept
    <3>3. \A x \in Workers : jobs'[x].pc # "idle" /\ jobs'[x].by = o /\ jobs'[x].kind = "clear" =>
            orders'[o].status = "confirmed"
      BY <1>0, <2>4, <2>5 DEF OrderInv
    <3>4. QED
      BY <1>0, <2>4, <3>1, <3>2, <3>3 DEF OrderInv
  <2>13. QED
    BY <2>6, <2>7, <2>8, <2>9, <2>10, <2>11, <2>12 DEF IInv, CartInv
<1>6. QED
  BY <1>1, <1>4, <1>5

-----------------------------------------------------------------------------
(* The invariant                                                           *)

(* It holds at first.                                                      *)
LEMMA InitIInv ==
  ASSUME Init
  PROVE  IInv
<1>1. /\ products = [p \in Products |-> NoProduct]
      /\ cart = NoCart /\ lines = [v \in Variants |-> NoLine]
      /\ jobs = [w \in Workers |-> Idle] /\ started = 0 /\ answers = 0
      /\ raced = "never" /\ ideal = [v \in Variants |-> 0]
      /\ shown = NoAnswer /\ behind = FALSE
      /\ orders = [o \in Orders |-> NoOrder] /\ touched = [o \in Orders |-> {}]
  BY DEF Init, CatalogInit, CartInit
<1>2. /\ lines \in Lines /\ \A v \in Variants : lines[v] = NoLine /\ ideal[v] = 0
      /\ lines = NoAnswer.lines
  BY <1>1, NothingIs
<1>3. \A w \in Workers : jobs[w] = Idle /\ jobs[w].pc = "idle" /\ ~Within(w)
  BY <1>1, IdleIs DEF Within, InTransaction
<1>4. Typed
  <2>1. NoOrder \in OrderRow
    BY NothingIs DEF NoOrder, OrderRow
  <2>2. cart \in CartRow /\ shown \in Answer
    BY <1>1, NothingIs
  <2>3. QED
    BY <1>1, <1>2, <2>1, <2>2 DEF Typed
<1>5. CartHeld
  BY <1>1, <1>2, <1>3, NothingIs DEF CartHeld, Holds
<1>6. Placed
  BY <1>2, NothingIs DEF Placed
<1>7. OnlyOne
  BY <1>3 DEF OnlyOne, Writers, Within
<1>8. \A w \in Workers : JobInv(w)
  BY <1>3, IdleIs DEF JobInv
<1>9. SumInv /\ OneCurrency
  <2>1. Rows(lines) = {} /\ Subtotal(lines) = 0
    BY <1>2, NothingSums
  <2>2. QED
    BY <1>1, <2>1, NothingIs DEF SumInv, OneCurrency
<1>10. ShownInv
  <2>1. PICK s \in Answer : s = shown
    BY <1>4 DEF Typed
  <2>2. s = NoAnswer /\ s.at = 0 /\ Fresh(s)
    BY <1>1, <1>2, <2>1, NothingIs DEF Fresh
  <2>3. \A a : Shows(a) <=> a = s
    BY <1>3, <2>1 DEF Shows, Coming
  <2>4. 0 \in 0..answers
    BY <1>1
  <2>5. QED
    BY <1>1, <1>3, <2>1, <2>2, <2>3, <2>4 DEF ShownInv
<1>11. ASSUME NEW o \in Orders
       PROVE  OrderInv(o)
  <2>1. orders[o].status = "none"
    BY <1>1 DEF NoOrder
  <2>2. QED
    BY <1>3, <2>1 DEF OrderInv, Reading
<1>12. QED
  BY <1>4, <1>5, <1>6, <1>7, <1>8, <1>9, <1>10, <1>11 DEF IInv, CartInv

(* cart-service works.                                                     *)
LEMMA WorkKeeps ==
  ASSUME IInv, NEW w \in Workers, Work(w)
  PROVE  IInv'
<1>1. CASE GetProductById(w)
  BY <1>1, GetProductByIdKeeps
<1>2. CASE FindCart(w)
  BY <1>2, FindCartKeeps
<1>3. CASE CreateCart(w)
  BY <1>3, CreateCartKeeps
<1>4. CASE EnsureCartCurrency(w)
  BY <1>4, EnsureCartCurrencyKeeps
<1>5. CASE FindItem(w)
  BY <1>5, FindItemKeeps
<1>6. CASE WriteLines(w)
  BY <1>6, WriteLinesKeeps
<1>7. CASE StoreSubtotal(w)
  BY <1>7, StoreSubtotalKeeps
<1>8. CASE FetchCart(w)
  BY <1>8, FetchCartKeeps
<1>9. CASE Abort(w)
  BY <1>9, AbortKeeps
<1>10. CASE Redeliver(w)
  BY <1>10, RedeliverKeeps
<1>11. QED
  BY <1>1, <1>2, <1>3, <1>4, <1>5, <1>6, <1>7, <1>8, <1>9, <1>10 DEF Work, CartStep

(* Every step keeps it.                                                    *)
LEMMA NextIInv ==
  ASSUME IInv, [Next]_vars
  PROVE  IInv'
<1>0. CartInv /\ Typed /\ \A o \in Orders : OrderInv(o)
  BY DEF IInv, CartInv
<1>1. CASE UNCHANGED vars
  <2>1. UNCHANGED <<products, cart, lines, jobs, started, answers, raced, ideal, shown, behind,
                    orders, touched>>
    BY <1>1 DEF vars, catalog, cartRows, counters, ghosts
  <2>2. CartInv'
    BY <1>0, <2>1, CartInvStays DEF Typed
  <2>3. ASSUME NEW o \in Orders
        PROVE  OrderInv(o)'
    BY ONLY <1>0, <2>1, o \in Orders DEF OrderInv, Reading, Kept
  <2>4. QED
    BY <2>2, <2>3 DEF IInv
<1>2. ASSUME NEW w \in Workers,
             \/ \E p \in Products, v \in Variants : AddToCart(w, p, v)
             \/ \E l \in Rows(shown.lines) :
                  RemoveItem(w, l) \/ \E n \in 1..MaxQuantity : UpdateItem(w, l, n)
             \/ ClearCart(w) \/ GetCart(w)
             \/ \E o \in Orders : ClearOrdered(w, o)
      PROVE  IInv'
  BY <1>2, CommandKeeps
<1>3. ASSUME NEW w \in Workers,
             ShowAnswer(w) \/ GiveUp(w) \/ Forget(w) \/ Work(w) \/ CreateOrder(w) \/ RefuseOrder(w)
      PROVE  IInv'
  BY <1>3, ShowAnswerKeeps, GiveUpKeeps, ForgetKeeps, WorkKeeps, CreateOrderKeeps, RefuseOrderKeeps
<1>4. ASSUME NEW w \in Workers, NEW o \in Orders, PlaceOrder(w, o)
      PROVE  IInv'
  BY <1>4, PlaceOrderKeeps
<1>5. ASSUME NEW o \in Orders, ConfirmOrder(o)
      PROVE  IInv'
  BY <1>5, ConfirmOrderKeeps
<1>6. CASE (\E p \in NewProducts : Create(p)) \/ (\E e \in Edits : Edit(e))
  BY <1>6, SavedKeeps
<1>7. QED
  BY <1>1, <1>2, <1>3, <1>4, <1>5, <1>6 DEF Next

(* It always holds.                                                        *)
THEOREM CartAlways ==
  Spec => []IInv
<1>1. Init => IInv
  BY InitIInv
<1>2. IInv /\ [Next]_vars => IInv'
  BY NextIInv
<1>3. QED
  BY <1>1, <1>2, PTL DEF Spec

-----------------------------------------------------------------------------
(* What it says                                                            *)

(* A transaction that ran alone does what its command says, to whatever it *)
(* finds, and the stored subtotal is then the sum of the lines             *)
(* (recalculateCartSubtotal).                                              *)
THEOREM LoneCommandsAreExact ==
  Spec => []AppliedExactly
<1>1. IInv => AppliedExactly
  BY DEF IInv, CartInv, Placed, SumInv, AppliedExactly
<1>2. QED
  BY <1>1, CartAlways, PTL

(* As long as no two transactions have overlapped, all prices of a cart    *)
(* are in the cart's currency (ensureCartCurrency).                        *)
THEOREM PricesAreInOneCurrency ==
  Spec => []OneCurrency
<1>1. IInv => OneCurrency
  BY DEF IInv, CartInv
<1>2. QED
  BY <1>1, CartAlways, PTL

(* When nothing is on its way and the customer has been told of every      *)
(* change, the page shows the cart that the service has (setCart).         *)
THEOREM PageShowsTheCart ==
  Spec => []ShownIsServed
<1>1. ASSUME IInv, ~behind, \A w \in Workers : jobs[w].pc = "idle"
      PROVE  shown.lines = lines /\ (shown.cart = cart \/ shown = NoAnswer)
  <2>1. PICK n \in 0..answers :
          /\ \A a \in Answer : Shows(a) /\ a.at >= n => Fresh(a)
          /\ ~behind => \E a \in Answer : Shows(a) /\ a.at >= n
    BY <1>1 DEF IInv, CartInv, ShownInv
  <2>2. \A a : Shows(a) => a = shown
    BY <1>1 DEF Shows, Coming
  <2>3. Fresh(shown)
    BY <1>1, <2>1, <2>2
  <2>4. QED
    BY <2>3 DEF Fresh
<1>2. IInv => ShownIsServed
  BY <1>1 DEF ShownIsServed
<1>3. QED
  BY <1>2, CartAlways, PTL

(* An order's clear_cart takes out of the cart what was ordered, or what   *)
(* the customer has changed since the order's reading (clearCart).         *)
THEOREM ClearedCartsWereOrdered ==
  Spec => ClearedWasOrdered
<1>1. ASSUME IInv, [Next]_vars, NEW w \in Workers, NEW v \in Variants, NEW o, o = jobs[w].by,
             jobs[w].pc = "store", jobs'[w].pc = "done", o \in Orders,
             lines[v] # NoLine, lines'[v] = NoLine
      PROVE  lines[v] = orders[o].lines[v] \/ v \in touched[o]
  <2>1. Typed /\ jobs[w] \in GoodJob /\ OrderInv(o)
    BY <1>1, JobFacts DEF IInv, CartInv
  <2>2. jobs[w].kind = "clear"
    BY <1>1, <2>1 DEF GoodJob
  <2>3. orders[o].status = "confirmed"
    BY <1>1, <2>1, <2>2 DEF OrderInv
  <2>4. PICK ls \in Lines : ls = orders[o].lines
    BY <1>1, <2>1 DEF Typed, OrderRow
  <2>5. Kept(o, ls)
    BY <2>1, <2>3, <2>4 DEF OrderInv
  <2>6. QED
    BY <1>1, <2>4, <2>5 DEF Kept
<1>2. IInv /\ [Next]_vars =>
        [\A w \in Workers : \A v \in Variants :
           LET o == jobs[w].by IN
           (jobs[w].pc = "store" /\ jobs'[w].pc = "done" /\ o \in Orders
            /\ lines[v] # NoLine /\ lines'[v] = NoLine)
             => lines[v] = orders[o].lines[v] \/ v \in touched[o]]_vars
  BY <1>1
<1>3. QED
  BY <1>2, CartAlways, PTL DEF Spec, ClearedWasOrdered
=============================================================================
