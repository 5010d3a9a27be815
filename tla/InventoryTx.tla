---------------------------- MODULE InventoryTx ----------------------------
(***************************************************************************)
(* The transactions of inventory-service, statement by statement.  Workers *)
(* are handlers of the queue inventory.commands: the channel sets no       *)
(* prefetch, so any number of them run at once.  Under PostgreSQL's READ   *)
(* COMMITTED a SELECT reads what is committed, SELECT ... FOR UPDATE waits *)
(* for the row's lock and reads the row afterwards, an INSERT waits for a  *)
(* transaction that has inserted the same unique key, and the writes of a  *)
(* transaction show at its COMMIT.                                         *)
(*                                                                         *)
(* Left to Inventory: skus and is_active (here a line fails for a missing  *)
(* row or for want of stock), movements, events and the expiry of          *)
(* reservations (one of the errors that Rollback stands for).              *)
(***************************************************************************)
EXTENDS Integers, FiniteSets, SequencesExt

CONSTANTS Workers,      \* transactions that may be open at once
          Variants,     \* variants, numbered in the order of localeCompare
          Orders,       \* orders
          Keys,         \* idempotency keys
          NoKey,        \* "there is no row"
          Commands,     \* the commands callers send, any number of times
          MaxQuantity,  \* bound: units of one variant in one order
          MaxStock      \* bound: units of one variant on hand

Lines        == [variant : Variants, quantity : 1..MaxQuantity]
CommandTypes == [kind : {"reserve"}, order : Orders, key : Keys, lines : Seq(Lines)]
                \cup [kind : {"confirm", "release"}, order : Orders]
                \cup [kind : {"adjust"}, variant : Variants,
                      mode : {"SET", "INCREMENT", "DECREMENT"}, quantity : 0..MaxStock]

ASSUME OrdersAssumption   == IsFiniteSet(Orders)
ASSUME QuantityAssumption == MaxQuantity \in Nat /\ MaxStock \in Nat
ASSUME CommandsAssumption == Commands \subseteq CommandTypes

VARIABLES stock,        \* committed inventory_items, by variant
          reservations, \* committed stock_reservations, by order
          txs           \* the transaction each worker has open

vars == <<stock, reservations, txs>>

Nothing == [v \in Variants |-> 0]
NoRow   == [exists |-> FALSE, onHand |-> 0, reserved |-> 0]
NoReservation == [status |-> "NONE", key |-> NoKey, lines |-> <<>>]
NoCommand == [kind |-> "none"]
Idle    == [pc |-> "idle", cmd |-> NoCommand, todo |-> <<>>, held |-> {},
            short |-> FALSE, taken |-> Nothing, seen |-> 0]

Init == /\ stock        = [v \in Variants |-> NoRow]
        /\ reservations = [o \in Orders |-> NoReservation]
        /\ txs          = [w \in Workers |-> Idle]

-----------------------------------------------------------------------------
(* Lines of a command                                                      *)

Line(v, q) == [variant |-> v, quantity |-> q]

RequestedVariants(lines) == {lines[i].variant : i \in DOMAIN lines}

RequestedUnits(lines, v) ==
  FoldLeft(LAMBDA n, l : IF l.variant = v THEN n + l.quantity ELSE n, 0, lines)

MergedLines(lines) ==
  {Line(v, RequestedUnits(lines, v)) : v \in RequestedVariants(lines)}

(* mutant: the lines are merged and left in the order they came in.        *)
NormalizeUnsorted(lines) ==
  LET First(v) == CHOOSE i \in DOMAIN lines :
                    /\ lines[i].variant = v
                    /\ \A j \in 1..(i - 1) : lines[j].variant # v
  IN SetToSortSeq(MergedLines(lines),
                  LAMBDA a, b : First(a.variant) < First(b.variant))

(* normalizeReservationItems: one line per variant, in the variants' order *)
NormalizeReservationItems(lines) ==
  SetToSortSeq(MergedLines(lines), LAMBDA a, b : a.variant < b.variant)

Normalized(c) ==
  IF c.kind = "reserve"
  THEN [c EXCEPT !.lines = NormalizeReservationItems(@)]
  ELSE c

(* What normalizeReservationItems returns: at least one line, none of a    *)
(* variant twice, and none of more units than the bound MaxQuantity.       *)
IsNormal(lines) ==
  /\ lines \in Seq(Lines) \ {<<>>}
  /\ \A i, j \in DOMAIN lines : lines[i].variant = lines[j].variant => i = j

ASSUME NormalizedAssumption ==
  \A c \in Commands :
    c.kind = "reserve" => IsNormal(NormalizeReservationItems(c.lines))

(* The units of each variant in normalized lines.                          *)
Units(lines) ==
  [v \in Variants |-> IF v \in RequestedVariants(lines)
                      THEN (CHOOSE l \in {lines[i] : i \in DOMAIN lines} :
                              l.variant = v).quantity
                      ELSE 0]

-----------------------------------------------------------------------------
(* Locks: rows locked FOR UPDATE, and unique keys inserted and not yet     *)
(* committed.                                                              *)

ItemRow(v)           == <<"item", v>>
ReservationRow(o)    == <<"reservation", o>>
UniqueKeys(c) == IF c.kind = "adjust" THEN {<<"variant", c.variant>>}
                 ELSE {<<"order", c.order>>, <<"key", c.key>>}

(* What the next statement of w must have before it returns.               *)
Wants(w) ==
  LET tx == txs[w] IN
  CASE tx.pc = "lock reservation" /\ reservations[tx.cmd.order].status # "NONE"
         -> {ReservationRow(tx.cmd.order)}
    [] tx.pc = "lock items" /\ stock[Head(tx.todo).variant].exists
         -> {ItemRow(Head(tx.todo).variant)}
    [] tx.pc = "insert" -> UniqueKeys(tx.cmd)
    [] OTHER -> {}

(* mutant: the rows are read without FOR UPDATE.                           *)
GrantedUnlocked(w) == txs[w].pc = "insert" =>
                        \A x \in Workers \ {w} : Wants(w) \cap txs[x].held = {}

Granted(w) == \A x \in Workers \ {w} : Wants(w) \cap txs[x].held = {}

-----------------------------------------------------------------------------
(* Statements                                                              *)

Goto(w, tx) == /\ txs' = [txs EXCEPT ![w] = tx]
               /\ UNCHANGED <<stock, reservations>>

(* The transaction ends and has written nothing.                           *)
Close(w) == Goto(w, Idle)

Begin(w, c) ==
  /\ txs[w].pc = "idle"
  /\ Goto(w, [Idle EXCEPT
       !.cmd  = Normalized(c),
       !.pc   = CASE c.kind = "reserve" -> "find"
                  [] c.kind = "adjust"  -> "lock items"
                  [] OTHER              -> "lock reservation",
       !.todo = CASE c.kind = "reserve" -> Normalized(c).lines
                  [] c.kind = "adjust"  -> <<Line(c.variant, 0)>>
                  [] OTHER              -> <<>>])

ExistingReservations(c) ==
  {o \in Orders : /\ reservations[o].status # "NONE"
                  /\ o = c.order \/ reservations[o].key = c.key}

(* A row is found: it is the answer, or the command is a mismatch.         *)
FindExistingReservation(w) ==
  /\ txs[w].pc = "find"
  /\ IF ExistingReservations(txs[w].cmd) # {}
     THEN Close(w)
     ELSE Goto(w, [txs[w] EXCEPT !.pc = "lock items"])

LockReservation(w) ==
  LET row == reservations[txs[w].cmd.order] IN
  /\ txs[w].pc = "lock reservation"
  /\ Granted(w)
  /\ IF row.status = "PENDING"
     THEN Goto(w, [txs[w] EXCEPT !.pc = "lock items", !.todo = row.lines,
                                 !.held = @ \cup Wants(w)])
     ELSE Close(w)

(* The transaction after it has locked and read the row of its next line.  *)
Locked(w, next) ==
  [txs[w] EXCEPT !.todo = Tail(@), !.held = @ \cup Wants(w),
                 !.pc = IF Len(txs[w].todo) = 1 THEN next ELSE @]

LockForReserve(w, v, q) ==
  Goto(w, [Locked(w, "insert") EXCEPT
             !.short = @ \/ stock[v].onHand - stock[v].reserved < q])

LockForConfirm(w, v, q) ==
  IF stock[v].reserved >= q THEN Goto(w, Locked(w, "commit")) ELSE Close(w)

LockForRelease(w, v, q) ==
  IF stock[v].exists
  THEN Goto(w, [Locked(w, "commit") EXCEPT
                  !.taken[v] = IF q <= stock[v].reserved THEN q
                               ELSE stock[v].reserved])
  ELSE Close(w)

Adjusted(c, n) == CASE c.mode = "SET"       -> c.quantity
                    [] c.mode = "INCREMENT" -> n + c.quantity
                    [] c.mode = "DECREMENT" -> n - c.quantity

Adjustable(c, v) == /\ Adjusted(c, stock[v].onHand) >= stock[v].reserved
                    /\ Adjusted(c, stock[v].onHand) <= MaxStock

LockForAdjust(w, v) ==
  LET next == IF stock[v].exists THEN "commit" ELSE "insert" IN
  IF /\ stock[v].exists \/ txs[w].cmd.mode # "DECREMENT"
     /\ Adjustable(txs[w].cmd, v)
  THEN Goto(w, [Locked(w, next) EXCEPT !.seen = stock[v].onHand])
  ELSE Close(w)

LockItem(w) ==
  LET v == Head(txs[w].todo).variant
      q == Head(txs[w].todo).quantity
      k == txs[w].cmd.kind
  IN /\ txs[w].pc = "lock items"
     /\ Granted(w)
     /\ \/ k = "reserve" /\ LockForReserve(w, v, q)
        \/ k = "confirm" /\ LockForConfirm(w, v, q)
        \/ k = "release" /\ LockForRelease(w, v, q)
        \/ k = "adjust"  /\ LockForAdjust(w, v)

Violates(c) == IF c.kind = "adjust" THEN stock[c.variant].exists
               ELSE ExistingReservations(c) # {}

(* mutant: the tables have no unique index.                                *)
InsertAnyway(w) ==
  /\ txs[w].pc = "insert"
  /\ Goto(w, [txs[w] EXCEPT !.pc = "commit"])

(* The row is inserted, or violates a unique index.                        *)
Insert(w) ==
  /\ txs[w].pc = "insert"
  /\ Granted(w)
  /\ IF Violates(txs[w].cmd)
     THEN Close(w)
     ELSE Goto(w, [txs[w] EXCEPT !.pc = "commit", !.held = @ \cup Wants(w)])

-----------------------------------------------------------------------------
(* COMMIT                                                                  *)

CommitReserve(tx) ==
  LET c == tx.cmd
      q == IF tx.short THEN Nothing ELSE Units(c.lines)
  IN /\ stock' = [v \in Variants |-> [stock[v] EXCEPT !.reserved = @ + q[v]]]
     /\ reservations' = [reservations EXCEPT ![c.order] =
           [status |-> IF tx.short THEN "FAILED" ELSE "PENDING",
            key |-> c.key, lines |-> c.lines]]

CommitConfirm(tx) ==
  LET q == Units(reservations[tx.cmd.order].lines) IN
  /\ stock' = [v \in Variants |-> [stock[v] EXCEPT !.reserved = @ - q[v],
                                                   !.onHand   = @ - q[v]]]
  /\ reservations' = [reservations EXCEPT ![tx.cmd.order].status = "CONFIRMED"]

CommitRelease(tx) ==
  /\ stock' = [v \in Variants |-> [stock[v] EXCEPT !.reserved = @ - tx.taken[v]]]
  /\ reservations' = [reservations EXCEPT ![tx.cmd.order].status = "RELEASED"]

(* stock_on_hand is written as computed from the row that was read.        *)
CommitAdjust(tx) ==
  /\ stock' = [stock EXCEPT ![tx.cmd.variant].exists = TRUE,
                            ![tx.cmd.variant].onHand = Adjusted(tx.cmd, tx.seen)]
  /\ UNCHANGED reservations

Commit(w) ==
  /\ txs[w].pc = "commit"
  /\ txs' = [txs EXCEPT ![w] = Idle]
  /\ \/ txs[w].cmd.kind = "reserve" /\ CommitReserve(txs[w])
     \/ txs[w].cmd.kind = "confirm" /\ CommitConfirm(txs[w])
     \/ txs[w].cmd.kind = "release" /\ CommitRelease(txs[w])
     \/ txs[w].cmd.kind = "adjust"  /\ CommitAdjust(txs[w])

(* The process or its connection is lost, Prisma's timeout of the          *)
(* transaction passes, or a statement fails.                               *)
Rollback(w) == txs[w].pc # "idle" /\ Close(w)

Proceed(w) == \/ FindExistingReservation(w) \/ LockReservation(w)
              \/ LockItem(w) \/ Insert(w) \/ Commit(w)

Next == \E w \in Workers : \/ \E c \in Commands : Begin(w, c)
                           \/ Proceed(w)
                           \/ Rollback(w)

(* The database executes a statement that can return, and queues those     *)
(* that wait for a row, so none is passed over for ever.  Nothing obliges  *)
(* a command to arrive or a transaction to fail.                           *)
Fairness == \A w \in Workers : SF_vars(Proceed(w))

Spec == Init /\ [][Next]_vars /\ Fairness

-----------------------------------------------------------------------------
(* Properties                                                              *)

ClaimState(status) ==
  CASE status = "NONE"      -> "none"
    [] status = "PENDING"   -> "held"
    [] status = "CONFIRMED" -> "sold"
    [] status = "RELEASED"  -> "returned"
    [] status = "FAILED"    -> "refused"

Pool == INSTANCE StockPool WITH
  onHand <- [v \in Variants |-> stock[v].onHand],
  claims <- [o \in Orders |-> [state |-> ClaimState(reservations[o].status),
                               items |-> Units(reservations[o].lines)]]

(* However the statements of the transactions interleave and whichever of  *)
(* them fail, what is committed follows StockPool: stock is promised once, *)
(* for all the lines of an order or none, and settled once.                *)
ImplementsPool == Pool!Spec

(* reserved_stock is the number of units that PENDING rows ask for, in     *)
(* every committed state, and no more than is on hand: concurrent          *)
(* reserves, confirms, releases and adjustments lose none of each other's  *)
(* updates, and no COMMIT is refused by the CHECK constraints of           *)
(* inventory_items.                                                        *)
CounterIsExact ==
  \A v \in Variants : /\ stock[v].reserved = Cardinality(Pool!Held(v))
                      /\ stock[v].reserved <= stock[v].onHand

(* A transaction that begins comes to its end without having to fail: no   *)
(* set of transactions wait for each other in a circle, whether two orders *)
(* name the same variants in opposite orders, a confirm and a release meet *)
(* at one reservation or a repeated reserve waits for the first to commit. *)
TransactionsEnd ==
  \A w \in Workers : txs[w].pc # "idle" ~> txs[w].pc = "idle"
=============================================================================
