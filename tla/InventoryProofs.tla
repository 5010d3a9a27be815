-------------------------- MODULE InventoryProofs --------------------------
(***************************************************************************)
(* Proofs about Inventory, for every set of variants, skus and requests    *)
(* and every finite set of orders.                                         *)
(***************************************************************************)
EXTENDS Inventory, FiniteSetTheorems, TLAPS

USE QuantityAssumption

(* The units of one order's item.                                          *)
UnitsOf(o, n) == {o} \X (1..n)

(* There are as many of them as the item's quantity.                       *)
LEMMA UnitsOfOrder ==
  ASSUME NEW o, NEW n \in Nat
  PROVE  IsFiniteSet(UnitsOf(o, n)) /\ Cardinality(UnitsOf(o, n)) = n
<1>1. IsFiniteSet(1..n) /\ Cardinality(1..n) = n
  BY FS_Interval
<1>2. IsFiniteSet({o}) /\ Cardinality({o}) = 1
  BY FS_Singleton
<1>3. /\ IsFiniteSet({o} \X (1..n))
      /\ Cardinality({o} \X (1..n)) = Cardinality({o}) * Cardinality(1..n)
  BY <1>1, <1>2, FS_Product
<1>4. QED
  BY <1>1, <1>2, <1>3 DEF UnitsOf

(* An order's units added to a set that has none of them.                  *)
LEMMA AddUnits ==
  ASSUME NEW S, IsFiniteSet(S), NEW o, NEW n \in Nat, S \cap UnitsOf(o, n) = {}
  PROVE  Cardinality(S \cup UnitsOf(o, n)) = Cardinality(S) + n
<1>1. IsFiniteSet(UnitsOf(o, n)) /\ Cardinality(UnitsOf(o, n)) = n
  BY UnitsOfOrder
<1>2. Cardinality(S \cup UnitsOf(o, n))
        = Cardinality(S) + n - Cardinality(S \cap UnitsOf(o, n))
  BY <1>1, FS_Union
<1>3. Cardinality(S \cap UnitsOf(o, n)) = 0
  BY FS_EmptySet
<1>4. Cardinality(S) \in Nat
  BY FS_CardinalityType
<1>5. QED
  BY <1>2, <1>3, <1>4

(* An order's units taken from a set that has all of them.                 *)
LEMMA RemoveUnits ==
  ASSUME NEW S, IsFiniteSet(S), NEW o, NEW n \in Nat, UnitsOf(o, n) \subseteq S
  PROVE  /\ Cardinality(S \ UnitsOf(o, n)) = Cardinality(S) - n
         /\ n <= Cardinality(S)
<1>1. IsFiniteSet(UnitsOf(o, n)) /\ Cardinality(UnitsOf(o, n)) = n
  BY UnitsOfOrder
<1>2. S \cap UnitsOf(o, n) = UnitsOf(o, n)
  OBVIOUS
<1>3. Cardinality(S \ UnitsOf(o, n)) = Cardinality(S) - n
  BY <1>1, <1>2, FS_Difference
<1>4. n <= Cardinality(S)
  BY <1>1, FS_Subset
<1>5. QED
  BY <1>3, <1>4

-----------------------------------------------------------------------------
(* The units of a status, as the rows of the table change                  *)

LEMMA UnitsFinite ==
  ASSUME NEW status, NEW v
  PROVE  /\ IsFiniteSet(UnitsIn(status, v))
         /\ Cardinality(UnitsIn(status, v)) \in Nat
<1>1. IsFiniteSet(1..MaxQuantity)
  BY FS_Interval
<1>2. IsFiniteSet(Orders \X (1..MaxQuantity))
  BY <1>1, OrdersAssumption, FS_Product
<1>3. UnitsIn(status, v) \subseteq Orders \X (1..MaxQuantity)
  BY DEF UnitsIn
<1>4. IsFiniteSet(UnitsIn(status, v))
  BY <1>2, <1>3, FS_Subset
<1>5. QED
  BY <1>4, FS_CardinalityType

(* An order's row reaches a status: its units join those of that status.   *)
LEMMA RowEnters ==
  ASSUME NEW status, NEW v \in Variants, NEW o \in Orders,
         reservations  \in [Orders -> Reservation],
         reservations' \in [Orders -> Reservation],
         \A p \in Orders \ {o} : reservations'[p] = reservations[p],
         reservations[o].status # status,
         reservations'[o].status = status
  PROVE  Cardinality(UnitsIn(status, v))'
           = Cardinality(UnitsIn(status, v)) + reservations'[o].items[v]
<1> DEFINE n == reservations'[o].items[v]
           S == UnitsIn(status, v)
<1>1. n \in 0..MaxQuantity
  BY DEF Reservation, Quantities
<1>2. S' = S \cup UnitsOf(o, n)
  <2>1. ASSUME NEW u \in Orders \X (1..MaxQuantity), u[1] = o
        PROVE  u \in S' <=> u \in S \cup UnitsOf(o, n)
    BY <1>1, <2>1 DEF UnitsIn, UnitsOf
  <2>2. ASSUME NEW u \in Orders \X (1..MaxQuantity), u[1] # o
        PROVE  u \in S' <=> u \in S \cup UnitsOf(o, n)
    BY <1>1, <2>2 DEF UnitsIn, UnitsOf
  <2>3. S' \subseteq Orders \X (1..MaxQuantity)
    BY DEF UnitsIn
  <2>4. S \cup UnitsOf(o, n) \subseteq Orders \X (1..MaxQuantity)
    BY <1>1 DEF UnitsIn, UnitsOf
  <2>5. QED
    BY <2>1, <2>2, <2>3, <2>4
<1>3. S \cap UnitsOf(o, n) = {}
  BY DEF UnitsIn, UnitsOf
<1>4. IsFiniteSet(S)
  BY UnitsFinite
<1>5. QED
  BY <1>1, <1>2, <1>3, <1>4, AddUnits

(* An order's row leaves a status: its units leave those of that status.   *)
LEMMA RowLeaves ==
  ASSUME NEW status, NEW v \in Variants, NEW o \in Orders,
         reservations  \in [Orders -> Reservation],
         reservations' \in [Orders -> Reservation],
         \A p \in Orders \ {o} : reservations'[p] = reservations[p],
         reservations[o].status = status,
         reservations'[o].status # status
  PROVE  /\ Cardinality(UnitsIn(status, v))'
              = Cardinality(UnitsIn(status, v)) - reservations[o].items[v]
         /\ reservations[o].items[v] <= Cardinality(UnitsIn(status, v))
<1> DEFINE n == reservations[o].items[v]
           S == UnitsIn(status, v)
<1>1. n \in 0..MaxQuantity
  BY DEF Reservation, Quantities
<1>2. S' = S \ UnitsOf(o, n)
  <2>1. ASSUME NEW u \in Orders \X (1..MaxQuantity), u[1] = o
        PROVE  u \in S' <=> u \in S \ UnitsOf(o, n)
    BY <1>1, <2>1 DEF UnitsIn, UnitsOf
  <2>2. ASSUME NEW u \in Orders \X (1..MaxQuantity), u[1] # o
        PROVE  u \in S' <=> u \in S \ UnitsOf(o, n)
    BY <1>1, <2>2 DEF UnitsIn, UnitsOf
  <2>3. S' \subseteq Orders \X (1..MaxQuantity) /\ S \subseteq Orders \X (1..MaxQuantity)
    BY DEF UnitsIn
  <2>4. QED
    BY <2>1, <2>2, <2>3
<1>3. UnitsOf(o, n) \subseteq S
  BY <1>1 DEF UnitsIn, UnitsOf
<1>4. IsFiniteSet(S)
  BY UnitsFinite
<1>5. QED
  BY <1>1, <1>2, <1>3, <1>4, RemoveUnits

(* Rows that keep their status and items keep their units.                 *)
LEMMA UnitsUnchanged ==
  ASSUME NEW status, NEW v,
         \A p \in Orders :
           \/ /\ reservations'[p].status = reservations[p].status
              /\ reservations'[p].items = reservations[p].items
           \/ /\ reservations'[p].status # status
              /\ reservations[p].status # status
  PROVE  Cardinality(UnitsIn(status, v))' = Cardinality(UnitsIn(status, v))
<1>1. UnitsIn(status, v)' = UnitsIn(status, v)
  BY DEF UnitsIn
<1>2. QED
  BY <1>1

-----------------------------------------------------------------------------
(* The inductive invariant.  TypeOK alone is not inductive: that a         *)
(* reservation fits under MaxStock rests on ReservedWithinStock, and that  *)
(* a release never meets its clamp on ReservedIsHeld.                      *)
IInv == /\ TypeOK
        /\ ReservedIsHeld
        /\ ReservedWithinStock
        /\ MovementsExplainStock
        /\ SoldExactlyOnce
        /\ EventsMatchRows

(* A reservation row is created only for an order that has none.           *)
LEMMA NewOrder ==
  ASSUME NEW r \in Requests, FindExistingReservation(r) = {}
  PROVE  /\ r \in Payloads
         /\ r.order \in Orders
         /\ reservations[r.order].status = "NONE"
BY RequestsAssumption DEF FindExistingReservation, Payloads

LEMMA InitIInv == Init => IInv
<1> SUFFICES ASSUME Init PROVE IInv
  OBVIOUS
<1>1. TypeOK
  BY DEF Init, TypeOK, Nothing, NoReservation, Reservation, Statuses, Quantities
<1>2. \A v \in Variants, s \in {"PENDING", "CONFIRMED"} : Cardinality(UnitsIn(s, v)) = 0
  <2>1. ASSUME NEW v \in Variants, NEW s \in {"PENDING", "CONFIRMED"}
        PROVE  UnitsIn(s, v) = {}
    BY DEF Init, UnitsIn, NoReservation
  <2>2. QED
    BY <2>1, FS_EmptySet
<1>3. ReservedIsHeld
  BY <1>2 DEF Init, ReservedIsHeld, Nothing
<1>4. SoldExactlyOnce
  BY <1>2 DEF Init, SoldExactlyOnce, MovementTypes
<1>5. ReservedWithinStock /\ MovementsExplainStock /\ EventsMatchRows
  BY DEF Init, ReservedWithinStock, MovementsExplainStock, EventsMatchRows,
         Nothing, MovementTypes
<1>6. QED
  BY <1>1, <1>3, <1>4, <1>5 DEF IInv

(* reserveStock, when every requested item is available.                   *)
LEMMA ReserveKeepsIInv ==
  ASSUME IInv, NEW r \in Requests, ReserveStock(r)
  PROVE  IInv'
<1> DEFINE o == r.order
<1>1. /\ r \in Payloads /\ o \in Orders /\ reservations[o].status = "NONE"
      /\ r.items \in Quantities /\ r.key \in Keys
  BY NewOrder DEF ReserveStock, Payloads
<1>2. \A v \in Variants : /\ r.items[v] \in Nat
                          /\ reservedStock[v] + r.items[v] <= stockOnHand[v]
  BY <1>1 DEF IInv, TypeOK, ReservedWithinStock, ReserveStock, CanReserve,
              Available, Quantities
<1>3. TypeOK'
  <2>1. reservations' \in [Orders -> Reservation]
    BY <1>1 DEF IInv, TypeOK, ReserveStock, CreateReservation, Reservation, Statuses
  <2>2. reservedStock' \in [Variants -> 0..MaxStock]
    BY <1>2 DEF IInv, TypeOK, ReserveStock
  <2>3. moved' \in [Variants -> [MovementTypes -> Int]]
    BY <1>2 DEF IInv, TypeOK, ReserveStock, MovementTypes
  <2>4. unpublished' \subseteq Events
    BY <1>1 DEF IInv, TypeOK, ReserveStock, Emit, Events, EventTypes
  <2>5. QED
    BY <2>1, <2>2, <2>3, <2>4 DEF IInv, TypeOK, ReserveStock
<1>4. /\ reservations \in [Orders -> Reservation]
      /\ reservations' \in [Orders -> Reservation]
      /\ reservations'[o].status = "PENDING"
      /\ reservations'[o].items = r.items
      /\ \A p \in Orders \ {o} : reservations'[p] = reservations[p]
  BY <1>1, <1>3 DEF IInv, TypeOK, ReserveStock, CreateReservation
<1>5. ReservedIsHeld'
  <2>1. ASSUME NEW v \in Variants
        PROVE  Cardinality(UnitsIn("PENDING", v))'
                 = Cardinality(UnitsIn("PENDING", v)) + r.items[v]
    BY <1>1, <1>4, RowEnters
  <2>2. QED
    BY <2>1 DEF IInv, ReservedIsHeld, ReserveStock
<1>6. ReservedWithinStock'
  BY <1>2 DEF IInv, ReservedWithinStock, ReserveStock
<1>7. MovementsExplainStock'
  BY <1>2 DEF IInv, TypeOK, MovementsExplainStock, ReserveStock, MovementTypes
<1>8. SoldExactlyOnce'
  <2>1. ASSUME NEW v \in Variants
        PROVE  Cardinality(UnitsIn("CONFIRMED", v))' = Cardinality(UnitsIn("CONFIRMED", v))
    BY <1>1, <1>4, UnitsUnchanged
  <2>2. QED
    BY <2>1 DEF IInv, TypeOK, SoldExactlyOnce, ReserveStock, MovementTypes
<1>9. EventsMatchRows'
  <2> SUFFICES ASSUME NEW e \in (unpublished \cup published)'
               PROVE  reservations'[e.order].status \in AnnouncedBy(e.type)
    BY DEF EventsMatchRows, AnnouncedBy
  <2>1. CASE e = [type |-> "stock_reserved", order |-> o]
    BY <1>4, <2>1 DEF AnnouncedBy
  <2>2. CASE e \in unpublished \cup published
    BY <1>1, <1>4, <2>2 DEF IInv, TypeOK, Events, EventTypes, EventsMatchRows, AnnouncedBy
  <2>3. QED
    BY <2>1, <2>2 DEF ReserveStock, Emit
<1>10. QED
  BY <1>3, <1>5, <1>6, <1>7, <1>8, <1>9 DEF IInv

(* reserveStock, when some requested item is not: a FAILED row.            *)
LEMMA RefuseKeepsIInv ==
  ASSUME IInv, NEW r \in Requests, RefuseReservation(r)
  PROVE  IInv'
<1> DEFINE o == r.order
<1>1. /\ r \in Payloads /\ o \in Orders /\ reservations[o].status = "NONE"
      /\ r.items \in Quantities /\ r.key \in Keys
  BY NewOrder DEF RefuseReservation, Payloads
<1>2. TypeOK'
  BY <1>1 DEF IInv, TypeOK, RefuseReservation, CreateReservation, Reservation,
              Statuses, Emit, Events, EventTypes
<1>3. /\ reservations'[o].status = "FAILED"
      /\ \A p \in Orders \ {o} : reservations'[p] = reservations[p]
  BY <1>1 DEF IInv, TypeOK, RefuseReservation, CreateReservation
<1>4. ASSUME NEW v \in Variants, NEW s \in {"PENDING", "CONFIRMED"}
      PROVE  Cardinality(UnitsIn(s, v))' = Cardinality(UnitsIn(s, v))
  BY <1>1, <1>3, UnitsUnchanged
<1>5. ReservedIsHeld' /\ SoldExactlyOnce'
  BY <1>4 DEF IInv, ReservedIsHeld, SoldExactlyOnce, RefuseReservation
<1>6. ReservedWithinStock' /\ MovementsExplainStock'
  BY DEF IInv, ReservedWithinStock, MovementsExplainStock, RefuseReservation
<1>7. EventsMatchRows'
  <2> SUFFICES ASSUME NEW e \in (unpublished \cup published)'
               PROVE  reservations'[e.order].status \in AnnouncedBy(e.type)
    BY DEF EventsMatchRows, AnnouncedBy
  <2>1. CASE e = [type |-> "stock_reservation_failed", order |-> o]
    BY <1>3, <2>1 DEF AnnouncedBy
  <2>2. CASE e \in unpublished \cup published
    BY <1>1, <1>3, <2>2 DEF IInv, TypeOK, Events, EventTypes, EventsMatchRows, AnnouncedBy
  <2>3. QED
    BY <2>1, <2>2 DEF RefuseReservation, Emit
<1>8. QED
  BY <1>2, <1>5, <1>6, <1>7 DEF IInv

(* confirmStockReservation.                                                *)
LEMMA ConfirmKeepsIInv ==
  ASSUME IInv, NEW o \in Orders, ConfirmStockReservation(o)
  PROVE  IInv'
<1> DEFINE q == reservations[o].items
<1>1. /\ reservations \in [Orders -> Reservation]
      /\ reservations[o].status = "PENDING"
      /\ q \in Quantities
      /\ \A v \in Variants : q[v] \in Nat
  BY DEF IInv, TypeOK, ConfirmStockReservation, Reservation, Quantities
<1>2. \A v \in Variants : /\ q[v] <= reservedStock[v]
                          /\ reservedStock[v] <= stockOnHand[v]
                          /\ stockOnHand[v] \in 0..MaxStock
                          /\ reservedStock[v] \in 0..MaxStock
  BY <1>1 DEF IInv, TypeOK, ReservedWithinStock, ConfirmStockReservation
<1>3. /\ reservations' \in [Orders -> Reservation]
      /\ reservations'[o].status = "CONFIRMED"
      /\ reservations'[o].items = q
      /\ \A p \in Orders \ {o} : reservations'[p] = reservations[p]
  BY <1>1 DEF ConfirmStockReservation, Reservation, Statuses
<1>4. TypeOK'
  <2>1. stockOnHand' \in [Variants -> 0..MaxStock] /\ reservedStock' \in [Variants -> 0..MaxStock]
    BY <1>1, <1>2 DEF ConfirmStockReservation
  <2>2. moved' \in [Variants -> [MovementTypes -> Int]]
    BY <1>1 DEF IInv, TypeOK, ConfirmStockReservation, MovementTypes
  <2>3. unpublished' \subseteq Events
    BY DEF IInv, TypeOK, ConfirmStockReservation, Emit, Events, EventTypes
  <2>4. QED
    BY <1>3, <2>1, <2>2, <2>3 DEF IInv, TypeOK, ConfirmStockReservation
<1>5. ReservedIsHeld'
  <2>1. ASSUME NEW v \in Variants
        PROVE  Cardinality(UnitsIn("PENDING", v))' = Cardinality(UnitsIn("PENDING", v)) - q[v]
    BY <1>1, <1>3, RowLeaves
  <2>2. QED
    BY <2>1 DEF IInv, ReservedIsHeld, ConfirmStockReservation
<1>6. ReservedWithinStock'
  BY <1>1, <1>2 DEF ReservedWithinStock, ConfirmStockReservation
<1>7. MovementsExplainStock'
  BY <1>1 DEF IInv, TypeOK, MovementsExplainStock, ConfirmStockReservation, MovementTypes
<1>8. SoldExactlyOnce'
  <2>1. ASSUME NEW v \in Variants
        PROVE  Cardinality(UnitsIn("CONFIRMED", v))' = Cardinality(UnitsIn("CONFIRMED", v)) + q[v]
    BY <1>1, <1>3, RowEnters
  <2>2. QED
    BY <2>1 DEF IInv, TypeOK, SoldExactlyOnce, ConfirmStockReservation, MovementTypes
<1>9. EventsMatchRows'
  <2> SUFFICES ASSUME NEW e \in (unpublished \cup published)'
               PROVE  reservations'[e.order].status \in AnnouncedBy(e.type)
    BY DEF EventsMatchRows, AnnouncedBy
  <2>1. CASE e = [type |-> "stock_confirmed", order |-> o]
    BY <1>3, <2>1 DEF AnnouncedBy
  <2>2. CASE e \in unpublished \cup published
    BY <1>1, <1>3, <2>2 DEF IInv, TypeOK, Events, EventTypes, EventsMatchRows, AnnouncedBy
  <2>3. QED
    BY <2>1, <2>2 DEF ConfirmStockReservation, Emit
<1>10. QED
  BY <1>4, <1>5, <1>6, <1>7, <1>8, <1>9 DEF IInv

(* Every unit of a PENDING reservation is counted in reserved_stock, so    *)
(* releaseStockReservation gives back exactly what was reserved.           *)
LEMMA ReleaseMeetsNoClamp ==
  ASSUME TypeOK, ReservedIsHeld, NEW o \in Orders, NEW v \in Variants,
         reservations[o].status = "PENDING"
  PROVE  ReleaseQuantity(o, v) = reservations[o].items[v]
<1> DEFINE n == reservations[o].items[v]
<1>1. n \in 0..MaxQuantity
  BY DEF TypeOK, Reservation, Quantities
<1>2. UnitsOf(o, n) \subseteq UnitsIn("PENDING", v)
  BY <1>1 DEF UnitsOf, UnitsIn
<1>3. IsFiniteSet(UnitsIn("PENDING", v))
  BY UnitsFinite
<1>4. n \in Nat
  BY <1>1
<1>5. n <= Cardinality(UnitsIn("PENDING", v))
  BY <1>2, <1>3, <1>4, RemoveUnits
<1>6. QED
  BY <1>5 DEF ReservedIsHeld, ReleaseQuantity

(* releaseStockReservation.                                                *)
LEMMA ReleaseKeepsIInv ==
  ASSUME IInv, NEW o \in Orders, ReleaseStockReservation(o)
  PROVE  IInv'
<1> DEFINE q == reservations[o].items
<1>1. /\ reservations \in [Orders -> Reservation]
      /\ reservations[o].status = "PENDING"
      /\ q \in Quantities
      /\ \A v \in Variants : q[v] \in Nat
  BY DEF IInv, TypeOK, ReleaseStockReservation, ReleaseFrom, Reservation, Quantities
<1>2. \A v \in Variants : /\ ReleaseQuantity(o, v) = q[v]
                          /\ q[v] <= reservedStock[v]
                          /\ reservedStock[v] \in 0..MaxStock
  BY <1>1, ReleaseMeetsNoClamp DEF IInv, TypeOK, ReleaseQuantity
<1>3. /\ reservations' \in [Orders -> Reservation]
      /\ reservations'[o].status = "RELEASED"
      /\ \A p \in Orders \ {o} : reservations'[p] = reservations[p]
  BY <1>1 DEF ReleaseStockReservation, ReleaseFrom, Reservation, Statuses
<1>4. /\ reservedStock' = [v \in Variants |-> reservedStock[v] - q[v]]
      /\ moved' = [v \in Variants |-> [moved[v] EXCEPT !["RELEASE"] = @ + q[v]]]
  BY <1>2 DEF ReleaseStockReservation, ReleaseFrom
<1>5. TypeOK'
  <2>1. reservedStock' \in [Variants -> 0..MaxStock]
    BY <1>1, <1>2, <1>4
  <2>2. moved' \in [Variants -> [MovementTypes -> Int]]
    BY <1>1, <1>4 DEF IInv, TypeOK, MovementTypes
  <2>3. unpublished' \subseteq Events
    BY DEF IInv, TypeOK, ReleaseStockReservation, ReleaseFrom, Emit, Events, EventTypes
  <2>4. QED
    BY <1>3, <2>1, <2>2, <2>3 DEF IInv, TypeOK, ReleaseStockReservation, ReleaseFrom
<1>6. ReservedIsHeld'
  <2>1. ASSUME NEW v \in Variants
        PROVE  Cardinality(UnitsIn("PENDING", v))' = Cardinality(UnitsIn("PENDING", v)) - q[v]
    BY <1>1, <1>3, RowLeaves
  <2>2. QED
    BY <1>4, <2>1 DEF IInv, ReservedIsHeld
<1>7. ReservedWithinStock'
  BY <1>1, <1>2, <1>4 DEF IInv, TypeOK, ReservedWithinStock, ReleaseStockReservation, ReleaseFrom
<1>8. MovementsExplainStock'
  BY <1>1, <1>4, SMTT(30) DEF IInv, TypeOK, MovementsExplainStock, ReleaseStockReservation, ReleaseFrom,
                    MovementTypes
<1>9. SoldExactlyOnce'
  <2>1. ASSUME NEW v \in Variants
        PROVE  Cardinality(UnitsIn("CONFIRMED", v))' = Cardinality(UnitsIn("CONFIRMED", v))
    BY <1>1, <1>3, UnitsUnchanged
  <2>2. QED
    BY <1>4, <2>1 DEF IInv, TypeOK, SoldExactlyOnce, MovementTypes
<1>10. EventsMatchRows'
  <2> SUFFICES ASSUME NEW e \in (unpublished \cup published)'
               PROVE  reservations'[e.order].status \in AnnouncedBy(e.type)
    BY DEF EventsMatchRows, AnnouncedBy
  <2>1. CASE e = [type |-> "stock_released", order |-> o]
    BY <1>3, <2>1 DEF AnnouncedBy
  <2>2. CASE e \in unpublished \cup published
    BY <1>1, <1>3, <2>2 DEF IInv, TypeOK, Events, EventTypes, EventsMatchRows, AnnouncedBy
  <2>3. QED
    BY <2>1, <2>2 DEF ReleaseStockReservation, ReleaseFrom, Emit
<1>11. QED
  BY <1>5, <1>6, <1>7, <1>8, <1>9, <1>10 DEF IInv

(* A reservation's expiry passes: only its lapsed flag changes.            *)
LEMMA LapseKeepsIInv ==
  ASSUME IInv, NEW o \in Orders, Lapse(o)
  PROVE  IInv'
<1>1. /\ reservations \in [Orders -> Reservation]
      /\ reservations' \in [Orders -> Reservation]
      /\ \A p \in Orders : /\ reservations'[p].status = reservations[p].status
                           /\ reservations'[p].items = reservations[p].items
  BY DEF IInv, TypeOK, Lapse, Reservation, Statuses
<1>2. TypeOK'
  BY <1>1 DEF IInv, TypeOK, Lapse
<1>3. ASSUME NEW v \in Variants, NEW s
      PROVE  Cardinality(UnitsIn(s, v))' = Cardinality(UnitsIn(s, v))
  BY <1>1, UnitsUnchanged
<1>4. ReservedIsHeld' /\ SoldExactlyOnce'
  BY <1>3 DEF IInv, ReservedIsHeld, SoldExactlyOnce, Lapse
<1>5. ReservedWithinStock' /\ MovementsExplainStock'
  BY DEF IInv, ReservedWithinStock, MovementsExplainStock, Lapse
<1>6. EventsMatchRows'
  BY <1>1 DEF IInv, TypeOK, Events, EventsMatchRows, AnnouncedBy, Lapse
<1>7. QED
  BY <1>2, <1>4, <1>5, <1>6 DEF IInv

(* adjustStock.                                                            *)
LEMMA AdjustKeepsIInv ==
  ASSUME IInv, NEW v \in Variants, NEW sku \in Skus, NEW mode \in Modes,
         NEW n \in 0..MaxStock, AdjustStock(v, sku, mode, n)
  PROVE  IInv'
<1> DEFINE after == ResolveAdjustedStock(v, mode, n)
<1>1. /\ stockOnHand[v] \in 0..MaxStock /\ reservedStock[v] \in 0..MaxStock
      /\ after \in Int /\ reservedStock[v] <= after /\ after <= MaxStock
  BY DEF IInv, TypeOK, AdjustStock, ResolveAdjustedStock, Modes
<1>2. stockOnHand' = [stockOnHand EXCEPT ![v] = after]
  BY DEF AdjustStock
<1>3. TypeOK'
  <2>1. stockOnHand' \in [Variants -> 0..MaxStock]
    BY <1>1, <1>2 DEF IInv, TypeOK
  <2>2. moved' \in [Variants -> [MovementTypes -> Int]]
    BY <1>1 DEF IInv, TypeOK, AdjustStock, MovementTypes
  <2>3. itemSku' \in [Variants -> Skus \cup {NoSku}]
    BY DEF IInv, TypeOK, AdjustStock
  <2>4. QED
    BY <2>1, <2>2, <2>3 DEF IInv, TypeOK, AdjustStock
<1>4. ASSUME NEW w \in Variants, NEW s
      PROVE  Cardinality(UnitsIn(s, w))' = Cardinality(UnitsIn(s, w))
  BY UnitsUnchanged DEF AdjustStock
<1>5. ReservedIsHeld'
  BY <1>4 DEF IInv, ReservedIsHeld, AdjustStock
<1>6. ReservedWithinStock'
  BY <1>1, <1>2 DEF IInv, TypeOK, ReservedWithinStock, AdjustStock
<1>7. \A w \in Variants : \A t \in MovementTypes \ {"ADJUST"} : moved'[w][t] = moved[w][t]
  BY DEF IInv, TypeOK, AdjustStock, MovementTypes
<1>8. MovementsExplainStock'
  <2>1. \A w \in Variants : stockOnHand'[w] = moved'[w]["ADJUST"] - moved'[w]["CONFIRM"]
    BY <1>1, <1>2, <1>7 DEF IInv, TypeOK, MovementsExplainStock, AdjustStock, MovementTypes
  <2>2. QED
    BY <1>7, <2>1 DEF IInv, MovementsExplainStock, AdjustStock, MovementTypes
<1>9. SoldExactlyOnce'
  BY <1>4, <1>7 DEF IInv, SoldExactlyOnce, MovementTypes
<1>10. EventsMatchRows'
  BY DEF IInv, EventsMatchRows, AnnouncedBy, AdjustStock
<1>11. QED
  BY <1>3, <1>5, <1>6, <1>8, <1>9, <1>10 DEF IInv

(* An event is published, or lost: no row changes.                         *)
LEMMA EventStepKeepsIInv ==
  ASSUME IInv, NEW e \in Events, PublishEvent(e) \/ LoseEvent(e)
  PROVE  IInv'
<1>1. /\ UNCHANGED <<itemSku, stockOnHand, reservedStock, reservations, moved>>
      /\ (unpublished \cup published)' \subseteq unpublished \cup published
  BY DEF PublishEvent, LoseEvent
<1>2. TypeOK'
  BY <1>1 DEF IInv, TypeOK
<1>3. ASSUME NEW w \in Variants, NEW s
      PROVE  Cardinality(UnitsIn(s, w))' = Cardinality(UnitsIn(s, w))
  BY <1>1, UnitsUnchanged
<1>4. ReservedIsHeld' /\ SoldExactlyOnce'
  BY <1>1, <1>3 DEF IInv, ReservedIsHeld, SoldExactlyOnce
<1>5. ReservedWithinStock' /\ MovementsExplainStock' /\ EventsMatchRows'
  BY <1>1 DEF IInv, ReservedWithinStock, MovementsExplainStock, EventsMatchRows, AnnouncedBy
<1>6. QED
  BY <1>2, <1>4, <1>5 DEF IInv

(* A step that changes nothing: a command that errs or finds its work done. *)
LEMMA StutterKeepsIInv ==
  ASSUME IInv, UNCHANGED vars
  PROVE  IInv'
<1>1. ASSUME NEW w \in Variants, NEW s
      PROVE  Cardinality(UnitsIn(s, w))' = Cardinality(UnitsIn(s, w))
  BY UnitsUnchanged DEF vars
<1>2. ReservedIsHeld' /\ SoldExactlyOnce'
  BY <1>1 DEF IInv, ReservedIsHeld, SoldExactlyOnce, vars
<1>3. TypeOK' /\ ReservedWithinStock' /\ MovementsExplainStock' /\ EventsMatchRows'
  BY DEF IInv, TypeOK, ReservedWithinStock, MovementsExplainStock, EventsMatchRows,
         AnnouncedBy, vars
<1>4. QED
  BY <1>2, <1>3 DEF IInv

LEMMA NextKeepsIInv == IInv /\ [Next]_vars => IInv'
<1> SUFFICES ASSUME IInv, [Next]_vars PROVE IInv'
  OBVIOUS
<1>1. ASSUME NEW r \in Requests, ReserveStock(r) PROVE IInv'
  BY <1>1, ReserveKeepsIInv
<1>2. ASSUME NEW r \in Requests, RefuseReservation(r) PROVE IInv'
  BY <1>2, RefuseKeepsIInv
<1>3. ASSUME NEW o \in Orders, ConfirmStockReservation(o) PROVE IInv'
  BY <1>3, ConfirmKeepsIInv
<1>4. ASSUME NEW o \in Orders, ReleaseStockReservation(o) PROVE IInv'
  BY <1>4, ReleaseKeepsIInv
<1>5. ASSUME NEW o \in Orders, Lapse(o) PROVE IInv'
  BY <1>5, LapseKeepsIInv
<1>6. ASSUME NEW v \in Variants, NEW sku \in Skus, NEW mode \in Modes,
             NEW n \in 0..MaxStock, AdjustStock(v, sku, mode, n)
      PROVE  IInv'
  BY <1>6, AdjustKeepsIInv
<1>7. ASSUME NEW e \in Events, PublishEvent(e) \/ LoseEvent(e) PROVE IInv'
  BY <1>7, EventStepKeepsIInv
<1>8. CASE UNCHANGED vars
  BY <1>8, StutterKeepsIInv
<1>9. QED
  BY <1>1, <1>2, <1>3, <1>4, <1>5, <1>6, <1>7, <1>8 DEF Next

LEMMA Invariance == Spec => []IInv
BY InitIInv, NextKeepsIInv, PTL DEF Spec

-----------------------------------------------------------------------------
(* The theorems                                                            *)

(* Type correctness: no insert or update of InventoryService leaves the    *)
(* tables' domains, whatever commands arrive in whatever order.            *)
THEOREM TypeCorrect == Spec => []TypeOK
<1>1. IInv => TypeOK
  BY DEF IInv
<1>2. QED
  BY <1>1, Invariance, PTL

(* The counter reserved_stock always equals the units the PENDING rows of  *)
(* stock_reservations ask for, for any number of orders and variants.      *)
THEOREM ReservedCounterIsExact == Spec => []ReservedIsHeld
<1>1. IInv => ReservedIsHeld
  BY DEF IInv
<1>2. QED
  BY <1>1, Invariance, PTL

(* The CHECK constraint reserved_stock <= stock_on_hand never fires.       *)
THEOREM NeverOversold == Spec => []ReservedWithinStock
<1>1. IInv => ReservedWithinStock
  BY DEF IInv
<1>2. QED
  BY <1>1, Invariance, PTL

(* The movements add up to the counters.                                   *)
THEOREM AuditTrailComplete == Spec => []MovementsExplainStock
<1>1. IInv => MovementsExplainStock
  BY DEF IInv
<1>2. QED
  BY <1>1, Invariance, PTL

(* confirm_stock takes a reservation's units out of the warehouse once.    *)
THEOREM ConfirmedExactlyOnce == Spec => []SoldExactlyOnce
<1>1. IInv => SoldExactlyOnce
  BY DEF IInv
<1>2. QED
  BY <1>1, Invariance, PTL

(* Every event ever published tells an outcome the row still has.          *)
THEOREM EventsTellTheTruth == Spec => []EventsMatchRows
<1>1. IInv => EventsMatchRows
  BY DEF IInv
<1>2. QED
  BY <1>1, Invariance, PTL

(* No command reopens or rewrites a settled reservation.                   *)
THEOREM SettledStaysSettled == Spec => SettledIsFinal
<1> DEFINE Keeps == \A o \in Orders :
                      reservations[o].status \in {"CONFIRMED", "RELEASED", "FAILED"}
                        => reservations'[o] = reservations[o]
<1>1. TypeOK /\ [Next]_vars => [Keeps]_vars
  <2> SUFFICES ASSUME TypeOK, Next PROVE Keeps
    OBVIOUS
  <2>1. ASSUME NEW r \in Requests, ReserveStock(r) \/ RefuseReservation(r)
        PROVE  Keeps
    <3>1. reservations[r.order].status = "NONE"
      BY <2>1, NewOrder DEF ReserveStock, RefuseReservation
    <3>2. QED
      BY <2>1, <3>1 DEF TypeOK, ReserveStock, RefuseReservation, CreateReservation
  <2>2. ASSUME NEW o \in Orders,
               ConfirmStockReservation(o) \/ ReleaseStockReservation(o) \/ Lapse(o)
        PROVE  Keeps
    BY <2>2 DEF TypeOK, ConfirmStockReservation, ReleaseStockReservation, ReleaseFrom, Lapse
  <2>3. ASSUME NEW v \in Variants, NEW sku \in Skus, NEW mode \in Modes,
               NEW n \in 0..MaxStock, AdjustStock(v, sku, mode, n)
        PROVE  Keeps
    BY <2>3 DEF AdjustStock
  <2>4. ASSUME NEW e \in Events, PublishEvent(e) \/ LoseEvent(e)
        PROVE  Keeps
    BY <2>4 DEF PublishEvent, LoseEvent
  <2>5. QED
    BY <2>1, <2>2, <2>3, <2>4 DEF Next
<1>2. QED
  BY <1>1, TypeCorrect, PTL DEF Spec, SettledIsFinal

-----------------------------------------------------------------------------
(* Inventory implements StockPool                                          *)

(* The units that held claims of the pool stand for are those of the       *)
(* PENDING reservations.                                                   *)
LEMMA HeldIsPending ==
  ASSUME TypeOK, NEW v
  PROVE  Pool!Held(v) = UnitsIn("PENDING", v)
<1>1. ASSUME NEW o \in Orders
      PROVE  /\ Claims[o].state = "held" <=> reservations[o].status = "PENDING"
             /\ Claims[o].items = reservations[o].items
  BY DEF TypeOK, Reservation, Statuses, Claims, ClaimState
<1>2. QED
  BY <1>1 DEF Pool!Held, UnitsIn

(* StockPool counts with its own instance of FiniteSets.                   *)
LEMMA PoolCardinality ==
  ASSUME NEW S
  PROVE  Pool!Cardinality(S) = Cardinality(S)
BY DEF Pool!Cardinality, Cardinality

LEMMA InitPool == Init => Pool!Init
BY DEF Init, Pool!Init, Claims, ClaimState, NoReservation, Nothing

LEMMA StepPool == IInv /\ [Next]_vars => [Pool!Next]_(Pool!vars)
<1> SUFFICES ASSUME IInv, [Next]_vars PROVE Pool!Next \/ UNCHANGED Pool!vars
  OBVIOUS
<1> USE DEF IInv
<1>0. reservations \in [Orders -> Reservation]
  BY DEF TypeOK
<1>1. ASSUME NEW r \in Requests, ReserveStock(r)
      PROVE  Pool!Claim(r.order, r.items) /\ r.order \in Orders /\ r.items \in Quantities
  <2>1. /\ r \in Payloads /\ r.order \in Orders /\ reservations[r.order].status = "NONE"
        /\ r.items \in Quantities
    BY <1>1, NewOrder DEF ReserveStock, Payloads
  <2>2. Claims[r.order].state = "none"
    BY <2>1 DEF Claims, ClaimState
  <2>3. ASSUME NEW v \in Variants, r.items[v] > 0
        PROVE  Cardinality(Pool!Held(v)) + r.items[v] <= stockOnHand[v]
    <3>1. Cardinality(Pool!Held(v)) = reservedStock[v]
      BY HeldIsPending DEF ReservedIsHeld
    <3>2. stockOnHand[v] - reservedStock[v] >= r.items[v]
      BY <1>1, <2>3 DEF ReserveStock, CanReserve, Available
    <3>3. stockOnHand[v] \in Int /\ reservedStock[v] \in Int /\ r.items[v] \in Int
      BY <2>1 DEF TypeOK, Quantities
    <3>4. QED
      BY <3>1, <3>2, <3>3
  <2>4. Claims' = [Claims EXCEPT ![r.order] = [state |-> "held", items |-> r.items]]
    BY <1>0, <1>1, <2>1 DEF ReserveStock, CreateReservation, Claims, ClaimState
  <2>5. stockOnHand' = stockOnHand
    BY <1>1 DEF ReserveStock
  <2>6. QED
    BY <2>1, <2>2, <2>3, <2>4, <2>5, PoolCardinality DEF Pool!Claim
<1>2. ASSUME NEW r \in Requests, RefuseReservation(r)
      PROVE  Pool!Refuse(r.order, r.items) /\ r.order \in Orders /\ r.items \in Quantities
  <2>1. /\ r \in Payloads /\ r.order \in Orders /\ reservations[r.order].status = "NONE"
        /\ r.items \in Quantities
    BY <1>2, NewOrder DEF RefuseReservation, Payloads
  <2>2. Claims[r.order].state = "none"
    BY <2>1 DEF Claims, ClaimState
  <2>3. Claims' = [Claims EXCEPT ![r.order] = [state |-> "refused", items |-> r.items]]
    BY <1>0, <1>2, <2>1 DEF RefuseReservation, CreateReservation, Claims, ClaimState
  <2>4. QED
    BY <1>2, <2>1, <2>2, <2>3 DEF Pool!Refuse, RefuseReservation
<1>3. ASSUME NEW o \in Orders, ConfirmStockReservation(o)
      PROVE  Pool!Sell(o)
  <2>1. Claims[o].state = "held" /\ Claims[o].items = reservations[o].items
    BY <1>3 DEF ConfirmStockReservation, Claims, ClaimState
  <2>2. Claims' = [Claims EXCEPT ![o].state = "sold"]
    BY <1>0, <1>3, ZenonT(60) DEF ConfirmStockReservation, Reservation, Claims, ClaimState
  <2>3. QED
    BY <1>3, <2>1, <2>2 DEF Pool!Sell, ConfirmStockReservation
<1>4. ASSUME NEW o \in Orders, ReleaseStockReservation(o)
      PROVE  Pool!GiveBack(o)
  <2>1. Claims[o].state = "held"
    BY <1>4 DEF ReleaseStockReservation, ReleaseFrom, Claims, ClaimState
  <2>2. Claims' = [Claims EXCEPT ![o].state = "returned"]
    BY <1>0, <1>4, ZenonT(60) DEF ReleaseStockReservation, ReleaseFrom, Reservation, Claims, ClaimState
  <2>3. QED
    BY <1>4, <2>1, <2>2 DEF Pool!GiveBack, ReleaseStockReservation, ReleaseFrom
<1>5. ASSUME NEW o \in Orders, Lapse(o)
      PROVE  UNCHANGED Pool!vars
  BY <1>0, <1>5 DEF Lapse, Reservation, Claims, Pool!vars
<1>6. ASSUME NEW v \in Variants, NEW sku \in Skus, NEW mode \in Modes,
             NEW n \in 0..MaxStock, AdjustStock(v, sku, mode, n)
      PROVE  \E m \in 0..MaxStock : Pool!Restock(v, m)
  <2> DEFINE m == ResolveAdjustedStock(v, mode, n)
  <2>1. m \in 0..MaxStock /\ m >= reservedStock[v]
    BY <1>6 DEF TypeOK, AdjustStock, ResolveAdjustedStock, Modes
  <2>2. Cardinality(Pool!Held(v)) = reservedStock[v]
    BY HeldIsPending DEF ReservedIsHeld
  <2>3. stockOnHand' = [stockOnHand EXCEPT ![v] = m] /\ Claims' = Claims
    BY <1>6 DEF AdjustStock, Claims
  <2>4. QED
    BY <2>1, <2>2, <2>3, PoolCardinality DEF Pool!Restock
<1>7. ASSUME NEW e \in Events, PublishEvent(e) \/ LoseEvent(e)
      PROVE  UNCHANGED Pool!vars
  BY <1>7 DEF PublishEvent, LoseEvent, Claims, Pool!vars
<1>8. CASE UNCHANGED vars
  BY <1>8 DEF vars, Claims, Pool!vars
<1>9. CASE Next
  BY <1>1, <1>2, <1>3, <1>4, <1>5, <1>6, <1>7, <1>9
  DEF Next, Pool!Next, Pool!Quantities, Quantities
<1>10. QED
  BY <1>8, <1>9

(* The service with its counters, clamps, lost events and repeated         *)
(* commands is an implementation of the pool that simply counts units.     *)
THEOREM InventoryImplementsPool == Spec => ImplementsPool
<1>1. Spec => Pool!Init /\ [][Pool!Next]_(Pool!vars)
  BY InitPool, StepPool, Invariance, PTL DEF Spec
<1>2. QED
  BY <1>1 DEF ImplementsPool, Pool!Spec
=============================================================================
