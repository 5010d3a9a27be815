----------------------------- MODULE Inventory -----------------------------
(***************************************************************************)
(* inventory-service: the tables inventory_items, stock_reservations and   *)
(* stock_movements, and the four commands of InventoryService, one action  *)
(* per committed transaction.  A transaction locks every row it changes    *)
(* before it reads it, so its effect is atomic (InventoryTx takes the      *)
(* locks apart and shows it).  The event a transaction announces is        *)
(* published after the commit, a step of its own that a crash or a lost    *)
(* channel can take away for good.                                         *)
(*                                                                         *)
(* A command that ends in an error, or that finds its work already done,   *)
(* changes nothing: it is a stuttering step here.  The event stock_adjusted*)
(* has no consumer, repeats a movement, and is left out.                   *)
(***************************************************************************)
EXTENDS Integers, FiniteSets

CONSTANTS Variants,     \* product variants
          Skus,         \* stock keeping units, one per variant row
          NoSku,        \* "there is no inventory_items row for the variant"
          Orders,       \* orders; the order service sends no reservationId,
                        \* so the reservation's id is the order's
          Keys,         \* idempotency keys
          NoKey,        \* "there is no stock_reservations row for the order"
          Delisted,     \* variants whose row has is_active = FALSE
          Requests,     \* the reserve_stock commands that callers send
          MaxQuantity,  \* bound: units of one variant in one order
          MaxStock      \* bound: units of one variant on hand

Quantities == [Variants -> 0..MaxQuantity]
Nothing    == [v \in Variants |-> 0]

(* A command's payload once normalizeReservationItems has merged its lines *)
(* by variant: at least one unit of something.                             *)
Payloads == [order : Orders, key : Keys, skus : [Variants -> Skus],
             items : Quantities \ {Nothing}]

ASSUME OrdersAssumption   == IsFiniteSet(Orders)
ASSUME QuantityAssumption == MaxQuantity \in Nat /\ MaxStock \in Nat
ASSUME RequestsAssumption == Requests \subseteq Payloads
ASSUME NullAssumption     == NoSku \notin Skus /\ NoKey \notin Keys

VARIABLES itemSku,        \* itemSku[v]: the sku of v's row, or NoSku
          stockOnHand,    \* stockOnHand[v], reservedStock[v]: the counters of
          reservedStock,  \*   v's row (0 while there is none)
          reservations,   \* reservations[o]: the row of order o
          moved,          \* moved[v][t]: sum of `quantity` over v's movements
                          \*   of type t (rows are only ever inserted)
          unpublished,    \* events of committed transactions, not yet sent
          published       \* events on the broker; any number of times, any order

vars == <<itemSku, stockOnHand, reservedStock, reservations, moved,
          unpublished, published>>

MovementTypes == {"RESERVE", "CONFIRM", "RELEASE", "ADJUST"}
Statuses      == {"NONE", "PENDING", "CONFIRMED", "RELEASED", "FAILED"}
Reservation   == [status : Statuses, key : Keys \cup {NoKey},
                  items : Quantities, lapsed : BOOLEAN]
EventTypes    == {"stock_reserved", "stock_reservation_failed",
                  "stock_confirmed", "stock_released"}
Events        == [type : EventTypes, order : Orders]
Modes         == {"SET", "INCREMENT", "DECREMENT"}

NoReservation == [status |-> "NONE", key |-> NoKey, items |-> Nothing,
                  lapsed |-> FALSE]

Init == /\ itemSku       = [v \in Variants |-> NoSku]
        /\ stockOnHand   = Nothing
        /\ reservedStock = Nothing
        /\ reservations  = [o \in Orders |-> NoReservation]
        /\ moved         = [v \in Variants |-> [t \in MovementTypes |-> 0]]
        /\ unpublished   = {}
        /\ published     = {}

Emit(type, o) == unpublished' = unpublished \cup {[type |-> type, order |-> o]}

-----------------------------------------------------------------------------
(* reserveStock                                                            *)

(* mutant: a FAILED row does not count as an answered command.             *)
FindLiveReservation(r) ==
  {o \in Orders : /\ reservations[o].status \notin {"NONE", "FAILED"}
                  /\ o = r.order \/ reservations[o].key = r.key}

(* findExistingReservation, by order id (the reservation id too) or key.   *)
FindExistingReservation(r) ==
  {o \in Orders : /\ reservations[o].status # "NONE"
                  /\ o = r.order \/ reservations[o].key = r.key}

(* mutant: stock that is reserved counts as available.                     *)
AvailableOnHand(v) == stockOnHand[v]

Available(v) == stockOnHand[v] - reservedStock[v]

(* What the loop over the locked items asks of each requested variant.     *)
CanReserve(r) ==
  \A v \in Variants : r.items[v] > 0 => /\ itemSku[v] = r.skus[v]
                                        /\ v \notin Delisted
                                        /\ Available(v) >= r.items[v]

CreateReservation(r, status) ==
  reservations' = [reservations EXCEPT ![r.order] =
     [status |-> status, key |-> r.key, items |-> r.items, lapsed |-> FALSE]]

ReserveStock(r) ==
  /\ FindExistingReservation(r) = {}
  /\ CanReserve(r)
  /\ reservedStock' = [v \in Variants |-> reservedStock[v] + r.items[v]]
  /\ moved' = [v \in Variants |->
                 [moved[v] EXCEPT !["RESERVE"] = @ + r.items[v]]]
  /\ CreateReservation(r, "PENDING")
  /\ Emit("stock_reserved", r.order)
  /\ UNCHANGED <<itemSku, stockOnHand, published>>

(* mutant: the failed path announces a reservation.                        *)
RefuseAsReserved(r) ==
  /\ FindExistingReservation(r) = {}
  /\ ~CanReserve(r)
  /\ CreateReservation(r, "FAILED")
  /\ Emit("stock_reserved", r.order)
  /\ UNCHANGED <<itemSku, stockOnHand, reservedStock, moved, published>>

RefuseReservation(r) ==
  /\ FindExistingReservation(r) = {}
  /\ ~CanReserve(r)
  /\ CreateReservation(r, "FAILED")
  /\ Emit("stock_reservation_failed", r.order)
  /\ UNCHANGED <<itemSku, stockOnHand, reservedStock, moved, published>>

-----------------------------------------------------------------------------
(* confirmStockReservation, releaseStockReservation                        *)

(* mutant: the early return for a CONFIRMED row is gone.                   *)
ConfirmAgain(o) ==
  LET q == reservations[o].items IN
  /\ reservations[o].status \in {"PENDING", "CONFIRMED"}
  /\ ~reservations[o].lapsed
  /\ \A v \in Variants : reservedStock[v] >= q[v]
  /\ reservedStock' = [v \in Variants |-> reservedStock[v] - q[v]]
  /\ stockOnHand'   = [v \in Variants |-> stockOnHand[v] - q[v]]
  /\ moved' = [v \in Variants |-> [moved[v] EXCEPT !["CONFIRM"] = @ + q[v]]]
  /\ reservations' = [reservations EXCEPT ![o].status = "CONFIRMED"]
  /\ Emit("stock_confirmed", o)
  /\ UNCHANGED <<itemSku, published>>

ConfirmStockReservation(o) ==
  LET q == reservations[o].items IN
  /\ reservations[o].status = "PENDING"
  /\ ~reservations[o].lapsed
  /\ \A v \in Variants : reservedStock[v] >= q[v]
  /\ reservedStock' = [v \in Variants |-> reservedStock[v] - q[v]]
  /\ stockOnHand'   = [v \in Variants |-> stockOnHand[v] - q[v]]
  /\ moved' = [v \in Variants |-> [moved[v] EXCEPT !["CONFIRM"] = @ + q[v]]]
  /\ reservations' = [reservations EXCEPT ![o].status = "CONFIRMED"]
  /\ Emit("stock_confirmed", o)
  /\ UNCHANGED <<itemSku, published>>

(* Math.min(item.quantity, lockedItem.reservedStock)                       *)
ReleaseQuantity(o, v) ==
  LET q == reservations[o].items[v] IN
  IF q <= reservedStock[v] THEN q ELSE reservedStock[v]

ReleaseFrom(statuses, o) ==
  /\ reservations[o].status \in statuses
  /\ reservedStock' = [v \in Variants |-> reservedStock[v] - ReleaseQuantity(o, v)]
  /\ moved' = [v \in Variants |->
                 [moved[v] EXCEPT !["RELEASE"] = @ + ReleaseQuantity(o, v)]]
  /\ reservations' = [reservations EXCEPT ![o].status = "RELEASED"]
  /\ Emit("stock_released", o)
  /\ UNCHANGED <<itemSku, stockOnHand, published>>

(* mutants: an early return is gone, for a RELEASED or for a FAILED row.   *)
ReleaseAgain(o)  == ReleaseFrom({"PENDING", "RELEASED"}, o)
ReleaseFailed(o) == ReleaseFrom({"PENDING", "FAILED"}, o)

ReleaseStockReservation(o) == ReleaseFrom({"PENDING"}, o)

(* expiresAt passes.  Nothing else happens: no job looks for such rows.    *)
Lapse(o) ==
  /\ reservations[o].status = "PENDING"
  /\ ~reservations[o].lapsed
  /\ reservations' = [reservations EXCEPT ![o].lapsed = TRUE]
  /\ UNCHANGED <<itemSku, stockOnHand, reservedStock, moved, unpublished, published>>

-----------------------------------------------------------------------------
(* adjustStock                                                             *)

ResolveAdjustedStock(v, mode, n) ==
  CASE mode = "SET"       -> n
    [] mode = "INCREMENT" -> stockOnHand[v] + n
    [] mode = "DECREMENT" -> stockOnHand[v] - n

ValidAdjustment(mode, n) == mode = "SET" \/ n > 0

(* The row is found, or created unless the mode is DECREMENT: skus are     *)
(* unique over the table.                                                  *)
RowFor(v, sku, mode) ==
  \/ itemSku[v] = sku
  \/ /\ itemSku[v] = NoSku
     /\ mode # "DECREMENT"
     /\ \A w \in Variants : itemSku[w] # sku

(* mutants: the check against reserved stock is gone; the movement logs    *)
(* the command's quantity instead of the change.                           *)
AdjustUnchecked(v, sku, mode, n) ==
  LET after == ResolveAdjustedStock(v, mode, n) IN
  /\ ValidAdjustment(mode, n) /\ RowFor(v, sku, mode) /\ after <= MaxStock
  /\ itemSku' = [itemSku EXCEPT ![v] = sku]
  /\ stockOnHand' = [stockOnHand EXCEPT ![v] = after]
  /\ moved' = [moved EXCEPT ![v]["ADJUST"] = @ + (after - stockOnHand[v])]
  /\ UNCHANGED <<reservedStock, reservations, unpublished, published>>

AdjustLogsQuantity(v, sku, mode, n) ==
  LET after == ResolveAdjustedStock(v, mode, n) IN
  /\ ValidAdjustment(mode, n) /\ RowFor(v, sku, mode)
  /\ after >= reservedStock[v] /\ after <= MaxStock
  /\ itemSku' = [itemSku EXCEPT ![v] = sku]
  /\ stockOnHand' = [stockOnHand EXCEPT ![v] = after]
  /\ moved' = [moved EXCEPT ![v]["ADJUST"] = @ + n]
  /\ UNCHANGED <<reservedStock, reservations, unpublished, published>>

AdjustStock(v, sku, mode, n) ==
  LET after == ResolveAdjustedStock(v, mode, n) IN
  /\ ValidAdjustment(mode, n)
  /\ RowFor(v, sku, mode)
  /\ after >= reservedStock[v]
  /\ after <= MaxStock
  /\ itemSku' = [itemSku EXCEPT ![v] = sku]
  /\ stockOnHand' = [stockOnHand EXCEPT ![v] = after]
  /\ moved' = [moved EXCEPT ![v]["ADJUST"] = @ + (after - stockOnHand[v])]
  /\ UNCHANGED <<reservedStock, reservations, unpublished, published>>

-----------------------------------------------------------------------------
(* publishEvent, after the commit                                          *)

PublishEvent(e) ==
  /\ e \in unpublished
  /\ unpublished' = unpublished \ {e}
  /\ published' = published \cup {e}
  /\ UNCHANGED <<itemSku, stockOnHand, reservedStock, reservations, moved>>

(* The process stops between commit and publish, or publish throws.  The   *)
(* command comes again, finds its row and announces nothing.               *)
LoseEvent(e) ==
  /\ e \in unpublished
  /\ unpublished' = unpublished \ {e}
  /\ UNCHANGED <<itemSku, stockOnHand, reservedStock, reservations, moved, published>>

Next ==
  \/ \E r \in Requests : ReserveStock(r) \/ RefuseReservation(r)
  \/ \E o \in Orders :
        ConfirmStockReservation(o) \/ ReleaseStockReservation(o) \/ Lapse(o)
  \/ \E v \in Variants, sku \in Skus, mode \in Modes, n \in 0..MaxStock :
        AdjustStock(v, sku, mode, n)
  \/ \E e \in Events : PublishEvent(e) \/ LoseEvent(e)

Spec == Init /\ [][Next]_vars

-----------------------------------------------------------------------------
(* Properties                                                              *)

(* The units of v in reservations of a status: one element per unit.       *)
UnitsIn(status, v) == {u \in Orders \X (1..MaxQuantity) :
                         /\ reservations[u[1]].status = status
                         /\ u[2] <= reservations[u[1]].items[v]}

(* Every column holds a value of its type, the counters included: none of  *)
(* the inserts and updates of InventoryService leaves the table's domain.  *)
TypeOK ==
  /\ itemSku       \in [Variants -> Skus \cup {NoSku}]
  /\ stockOnHand   \in [Variants -> 0..MaxStock]
  /\ reservedStock \in [Variants -> 0..MaxStock]
  /\ reservations  \in [Orders -> Reservation]
  /\ moved         \in [Variants -> [MovementTypes -> Int]]
  /\ unpublished   \subseteq Events
  /\ published     \subseteq Events

(* reserved_stock, a counter that four commands add to and take from, is   *)
(* always the number of units the PENDING reservations ask for: no retry,  *)
(* no release after a confirm and no clamp in releaseStockReservation lets *)
(* the counter drift from the rows it summarises.                          *)
ReservedIsHeld ==
  \A v \in Variants : reservedStock[v] = Cardinality(UnitsIn("PENDING", v))

(* The table's CHECK constraint never has to refuse an update: what is     *)
(* promised to orders is on hand, whatever adjustStock does meanwhile.     *)
ReservedWithinStock == \A v \in Variants : reservedStock[v] <= stockOnHand[v]

(* stock_movements explains both counters: adding its rows up gives the    *)
(* stock on hand and the reserved stock of every item.                     *)
MovementsExplainStock ==
  \A v \in Variants :
    /\ stockOnHand[v]   = moved[v]["ADJUST"] - moved[v]["CONFIRM"]
    /\ reservedStock[v] = moved[v]["RESERVE"] - moved[v]["CONFIRM"]
                                              - moved[v]["RELEASE"]

(* What left the warehouse is exactly what CONFIRMED reservations asked    *)
(* for: a repeated confirm_stock never takes the units a second time.      *)
SoldExactlyOnce ==
  \A v \in Variants : moved[v]["CONFIRM"] = Cardinality(UnitsIn("CONFIRMED", v))

(* The statuses in which a row may be once an event of a type was decided. *)
AnnouncedBy(type) ==
  CASE type = "stock_reserved"           -> {"PENDING", "CONFIRMED", "RELEASED"}
    [] type = "stock_reservation_failed" -> {"FAILED"}
    [] type = "stock_confirmed"          -> {"CONFIRMED"}
    [] type = "stock_released"           -> {"RELEASED"}

(* No consumer is ever told of an outcome the tables contradict, however   *)
(* late it reads the event: no order is announced both reserved and        *)
(* failed, or both confirmed and released.                                 *)
EventsMatchRows ==
  \A e \in unpublished \cup published :
    reservations[e.order].status \in AnnouncedBy(e.type)

(* A reservation that was confirmed, released or refused stays so: no      *)
(* later command, for this order or by this key, reopens or rewrites it.   *)
SettledIsFinal ==
  [][\A o \in Orders :
       reservations[o].status \in {"CONFIRMED", "RELEASED", "FAILED"}
         => reservations'[o] = reservations[o]]_vars

(* The counters and the four commands implement the pool of StockPool,     *)
(* which decides by counting the units that open claims hold.              *)
ClaimState(status) ==
  CASE status = "NONE"      -> "none"
    [] status = "PENDING"   -> "held"
    [] status = "CONFIRMED" -> "sold"
    [] status = "RELEASED"  -> "returned"
    [] status = "FAILED"    -> "refused"

Claims == [o \in Orders |-> [state |-> ClaimState(reservations[o].status),
                             items |-> reservations[o].items]]

Pool == INSTANCE StockPool WITH onHand <- stockOnHand, claims <- Claims

ImplementsPool == Pool!Spec
=============================================================================
