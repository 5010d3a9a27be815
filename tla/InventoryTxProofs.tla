------------------------- MODULE InventoryTxProofs -------------------------
(***************************************************************************)
(* Proofs about InventoryTx, for every set of workers, of variants and of  *)
(* commands and every finite set of orders: the locks the transactions     *)
(* take are enough for the committed rows to follow StockPool.             *)
(***************************************************************************)
EXTENDS InventoryTx, FiniteSetTheorems, TLAPS

USE QuantityAssumption

-----------------------------------------------------------------------------
(* The inductive invariant                                                 *)

Pcs      == {"idle", "find", "lock reservation", "lock items", "insert", "commit"}
Statuses == {"NONE", "PENDING", "CONFIRMED", "RELEASED", "FAILED"}
Locks    == {"item", "reservation", "variant", "order", "key"}
              \X (Variants \cup Orders \cup Keys)

Items        == [exists : BOOLEAN, onHand : 0..MaxStock, reserved : 0..MaxStock]
Reservations == [status : Statuses, key : Keys \cup {NoKey}, lines : Seq(Lines)]
Transactions == [pc : Pcs, cmd : CommandTypes \cup {NoCommand},
                 todo : Seq([variant : Variants, quantity : 0..MaxQuantity]),
                 held : SUBSET Locks, short : BOOLEAN,
                 taken : [Variants -> 0..MaxQuantity], seen : 0..MaxStock]

(* A lock is held by one transaction at a time.                            *)
Exclusive == \A w, x \in Workers : w # x => txs[w].held \cap txs[x].held = {}

(* A row that does not exist counts for nothing; a reservation has the     *)
(* lines of a normalized command.                                          *)
RowsInOrder ==
  /\ \A v \in Variants : ~stock[v].exists => stock[v] = NoRow
  /\ \A o \in Orders : reservations[o].status # "NONE"
                         => IsNormal(reservations[o].lines)

(* The row of a line is locked and has the units the line asks for.        *)
Covered(tx, l) ==
  /\ ItemRow(l.variant) \in tx.held
  /\ stock[l.variant].exists
  /\ stock[l.variant].reserved + l.quantity <= stock[l.variant].onHand

ReserveInv(tx) ==
  LET c == tx.cmd IN
  /\ IsNormal(c.lines)
  /\ tx.pc \in {"find", "lock items", "insert", "commit"}
  /\ tx.todo = <<>> <=> tx.pc \in {"insert", "commit"}
  /\ Range(tx.todo) \subseteq Range(c.lines)
  /\ \A l \in Range(c.lines) \ Range(tx.todo) : tx.short \/ Covered(tx, l)
  /\ tx.pc = "commit" => /\ <<"order", c.order>> \in tx.held
                         /\ reservations[c.order].status = "NONE"

(* The lines of the reservation a confirm or a release has read so far.    *)
DoneLines(tx) == Range(reservations[tx.cmd.order].lines) \ Range(tx.todo)

(* A release is to take back the units of those lines, and nothing of a    *)
(* variant that is not in the reservation.                                 *)
TakenIsDone(tx) ==
  /\ \A l \in DoneLines(tx) : tx.taken[l.variant] = l.quantity
  /\ \A v \in Variants :
       tx.taken[v] # 0 => \E l \in Range(reservations[tx.cmd.order].lines) :
                           l.variant = v

SettleInv(tx) ==
  LET row == reservations[tx.cmd.order] IN
  /\ tx.pc \in {"lock reservation", "lock items", "commit"}
  /\ tx.pc = "lock reservation" => tx.taken = Nothing
  /\ tx.pc # "lock reservation" =>
       /\ ReservationRow(tx.cmd.order) \in tx.held
       /\ row.status = "PENDING"
       /\ tx.todo = <<>> <=> tx.pc = "commit"
       /\ Range(tx.todo) \subseteq Range(row.lines)
       /\ \A l \in DoneLines(tx) : ItemRow(l.variant) \in tx.held
       /\ tx.cmd.kind = "release" => TakenIsDone(tx)

AdjustInv(tx) ==
  LET c == tx.cmd
      v == tx.cmd.variant
  IN /\ tx.pc \in {"lock items", "insert", "commit"}
     /\ tx.pc = "lock items" => tx.todo = <<Line(v, 0)>>
     /\ tx.pc = "insert" => tx.seen = 0 /\ Adjusted(c, 0) \in 0..MaxStock
     /\ tx.pc = "commit" =>
          /\ tx.seen = stock[v].onHand
          /\ Adjusted(c, tx.seen) \in stock[v].reserved..MaxStock
          /\ \/ stock[v].exists /\ ItemRow(v) \in tx.held
             \/ ~stock[v].exists /\ <<"variant", v>> \in tx.held

(* What a transaction knows of the rows from what it has locked.           *)
TxInv(tx) ==
  tx.pc # "idle" =>
    \/ tx.cmd.kind = "reserve" /\ ReserveInv(tx)
    \/ tx.cmd.kind \in {"confirm", "release"} /\ SettleInv(tx)
    \/ tx.cmd.kind = "adjust" /\ AdjustInv(tx)

TypeOK == /\ stock        \in [Variants -> Items]
          /\ reservations \in [Orders -> Reservations]
          /\ txs          \in [Workers -> Transactions]

(* The units that PENDING reservations ask for: Pool!Held, in this         *)
(* module's variables.                                                     *)
PendingUnits(v) == {u \in Orders \X (1..MaxQuantity) :
                      /\ reservations[u[1]].status = "PENDING"
                      /\ u[2] <= Units(reservations[u[1]].lines)[v]}

Counted == \A v \in Variants : stock[v].reserved = Cardinality(PendingUnits(v))

WithinStock == \A v \in Variants : stock[v].reserved <= stock[v].onHand

IInv == /\ TypeOK
        /\ RowsInOrder
        /\ Exclusive
        /\ \A w \in Workers : TxInv(txs[w])
        /\ Counted
        /\ WithinStock

-----------------------------------------------------------------------------
(* Lines and units                                                         *)

(* A sequence's elements are its head and its tail's.                      *)
LEMMA HeadAndTail ==
  ASSUME NEW S, NEW s \in Seq(S), s # <<>>
  PROVE  /\ Tail(s) \in Seq(S)
         /\ Head(s) \in S
         /\ Head(s) \in Range(s)
         /\ Range(s) = {Head(s)} \cup Range(Tail(s))
         /\ Len(s) = 1 <=> Tail(s) = <<>>
<1>1. /\ Tail(s) \in Seq(S)
      /\ Len(s) \in Nat \ {0}
      /\ DOMAIN s = 1..Len(s)
      /\ Head(s) = s[1] /\ s[1] \in S
      /\ Len(Tail(s)) = Len(s) - 1
      /\ DOMAIN Tail(s) = 1..(Len(s) - 1)
      /\ \A i \in 1..(Len(s) - 1) : Tail(s)[i] = s[i + 1]
  OBVIOUS
<1>2. Head(s) \in Range(s)
  BY <1>1 DEF Range
<1>3. ASSUME NEW x \in Range(s) PROVE x \in {Head(s)} \cup Range(Tail(s))
  <2>1. PICK i \in 1..Len(s) : x = s[i]
    BY <1>1 DEF Range
  <2>2. CASE i = 1
    BY <1>1, <2>1, <2>2
  <2>3. CASE i # 1
    <3>1. i - 1 \in 1..(Len(s) - 1) /\ (i - 1) + 1 = i
      BY <1>1, <2>3
    <3>2. Tail(s)[i - 1] = x
      BY <1>1, <2>1, <3>1
    <3>3. QED
      BY <1>1, <3>1, <3>2 DEF Range
  <2>4. QED
    BY <2>2, <2>3
<1>4. ASSUME NEW x \in Range(Tail(s)) PROVE x \in Range(s)
  <2>1. PICK i \in 1..(Len(s) - 1) : x = Tail(s)[i]
    BY <1>1 DEF Range
  <2>2. x = s[i + 1] /\ i + 1 \in 1..Len(s)
    BY <1>1, <2>1
  <2>3. QED
    BY <1>1, <2>2 DEF Range
<1>5. Len(s) = 1 <=> Tail(s) = <<>>
  <2>1. PICK n, t : n = Len(s) /\ t = Tail(s)
    OBVIOUS
  <2>2. t \in Seq(S) /\ Len(t) = n - 1 /\ n \in Nat \ {0}
    BY <1>1, <2>1
  <2>3. Len(t) = 0 <=> t = <<>>
    BY ONLY <2>2
  <2>4. QED
    BY ONLY <2>1, <2>2, <2>3
<1>6. QED
  BY <1>1, <1>2, <1>3, <1>4, <1>5

LEMMA OneLine ==
  ASSUME NEW l
  PROVE  Head(<<l>>) = l /\ Len(<<l>>) = 1 /\ <<l>> # <<>>
<1>1. PICK s : s = <<l>>
  OBVIOUS
<1>2. Len(s) = 1 /\ s[1] = l
  BY <1>1
<1>3. Head(s) = s[1]
  BY <1>2
<1>4. QED
  BY <1>1, <1>2, <1>3

(* A sequence over a set is one over a larger set.                         *)
LEMMA WiderSeq ==
  ASSUME NEW S, NEW T, S \subseteq T, NEW s \in Seq(S)
  PROVE  s \in Seq(T)
<1>1. Len(s) \in Nat /\ s \in [1..Len(s) -> T]
  OBVIOUS
<1>2. QED
  BY <1>1

(* Units gives each variant of normalized lines the quantity of its line.  *)
LEMMA UnitsOfLines ==
  ASSUME NEW lines, IsNormal(lines)
  PROVE  /\ Units(lines) \in [Variants -> 0..MaxQuantity]
         /\ \A l \in Range(lines) : /\ l \in Lines
                                    /\ Units(lines)[l.variant] = l.quantity
         /\ \A v \in Variants : Units(lines)[v] # 0 =>
              \E l \in Range(lines) : l.variant = v
<1>1. /\ lines \in Seq(Lines)
      /\ \A i, j \in DOMAIN lines : lines[i].variant = lines[j].variant => i = j
  BY DEF IsNormal
<1>2. \A i \in DOMAIN lines : lines[i] \in Lines
  BY <1>1
<1>3. Range(lines) = {lines[i] : i \in DOMAIN lines}
  BY DEF Range
<1>4. \A l \in Range(lines) : l \in Lines
  BY <1>2, <1>3
<1>5. \A k, l \in Range(lines) : k.variant = l.variant => k = l
  BY <1>1, <1>3
<1>6. ASSUME NEW l \in Range(lines)
      PROVE  Units(lines)[l.variant] = l.quantity
  <2>1. l.variant \in Variants
    BY <1>4 DEF Lines
  <2>2. l.variant \in RequestedVariants(lines)
    BY <1>3 DEF RequestedVariants
  <2>3. (CHOOSE k \in {lines[i] : i \in DOMAIN lines} : k.variant = l.variant) = l
    BY <1>3, <1>5
  <2>4. QED
    BY <2>1, <2>2, <2>3 DEF Units
<1>7. ASSUME NEW v \in Variants, v \notin RequestedVariants(lines)
      PROVE  Units(lines)[v] = 0
  BY <1>7 DEF Units
<1>8. ASSUME NEW v \in Variants, v \in RequestedVariants(lines)
      PROVE  \E l \in Range(lines) : l.variant = v
  BY <1>3, <1>8 DEF RequestedVariants
<1>9. ASSUME NEW v \in Variants PROVE Units(lines)[v] \in 0..MaxQuantity
  <2>1. CASE v \in RequestedVariants(lines)
    <3>1. PICK l \in Range(lines) : l.variant = v
      BY <1>8, <2>1
    <3>2. QED
      BY <1>4, <1>6, <3>1 DEF Lines
  <2>2. CASE v \notin RequestedVariants(lines)
    BY <1>7, <2>2
  <2>3. QED
    BY <2>1, <2>2
<1>10. Units(lines) \in [Variants -> 0..MaxQuantity]
  BY <1>9 DEF Units
<1>11. QED
  BY <1>4, <1>6, <1>7, <1>8, <1>10

(* There are none in no lines.                                             *)
LEMMA UnitsOfNoLines == Units(<<>>) = Nothing
BY DEF Units, RequestedVariants, Nothing

-----------------------------------------------------------------------------
(* Counting units                                                          *)

(* The units of one order's line: one element per unit.                    *)
UnitsOf(o, n) == {o} \X (1..n)

LEMMA UnitsOfOrder ==
  ASSUME NEW o, NEW n \in Nat
  PROVE  IsFiniteSet(UnitsOf(o, n)) /\ Cardinality(UnitsOf(o, n)) = n
<1>1. IsFiniteSet(1..n) /\ Cardinality(1..n) = n
  BY FS_Interval
<1>2. IsFiniteSet({o}) /\ Cardinality({o}) = 1
  BY FS_Singleton
<1>3. /\ IsFiniteSet({o} \X (1..n))
      /\ Cardinality({o} \X (1..n)) = Cardinality({o}) * Cardinality(1..n)
  BY <1>1, <1>2, FS_Product
<1>4. QED
  BY <1>1, <1>2, <1>3 DEF UnitsOf

(* A set that gains or loses all the units of an order's line changes its  *)
(* size by their number.                                                   *)
LEMMA UnitsJoin ==
  ASSUME NEW S, NEW T, NEW o, NEW n \in Nat, IsFiniteSet(S),
         S \cap UnitsOf(o, n) = {}, T = S \cup UnitsOf(o, n)
  PROVE  /\ Cardinality(T) = Cardinality(S) + n
         /\ Cardinality(S) \in Nat
<1>1. IsFiniteSet(UnitsOf(o, n)) /\ Cardinality(UnitsOf(o, n)) = n
  BY UnitsOfOrder
<1>2. Cardinality(T) = Cardinality(S) + n - Cardinality(S \cap UnitsOf(o, n))
  BY <1>1, FS_Union
<1>3. Cardinality(S \cap UnitsOf(o, n)) = 0
  BY FS_EmptySet
<1>4. Cardinality(S) \in Nat
  BY FS_CardinalityType
<1>5. QED
  BY <1>2, <1>3, <1>4

LEMMA PendingFinite ==
  ASSUME NEW v
  PROVE  /\ IsFiniteSet(PendingUnits(v))
         /\ Cardinality(PendingUnits(v)) \in Nat
<1>1. IsFiniteSet(1..MaxQuantity)
  BY FS_Interval
<1>2. IsFiniteSet(Orders \X (1..MaxQuantity))
  BY <1>1, OrdersAssumption, FS_Product
<1>3. PendingUnits(v) \subseteq Orders \X (1..MaxQuantity)
  BY DEF PendingUnits
<1>4. IsFiniteSet(PendingUnits(v))
  BY <1>2, <1>3, FS_Subset
<1>5. QED
  BY <1>4, FS_CardinalityType

(* A reservation becomes PENDING: its units are counted from then on.      *)
LEMMA BecomesPending ==
  ASSUME NEW v \in Variants, NEW o \in Orders, NEW n \in 0..MaxQuantity,
         \A p \in Orders \ {o} : reservations'[p] = reservations[p],
         reservations[o].status # "PENDING",
         reservations'[o].status = "PENDING",
         n = Units(reservations'[o].lines)[v]
  PROVE  Cardinality(PendingUnits(v)') = Cardinality(PendingUnits(v)) + n
<1> DEFINE S == PendingUnits(v)
<1>1. S' = S \cup UnitsOf(o, n)
  <2>1. ASSUME NEW u \in Orders \X (1..MaxQuantity), u[1] = o
        PROVE  u \in S' <=> u \in S \cup UnitsOf(o, n)
    BY <2>1 DEF PendingUnits, UnitsOf
  <2>2. ASSUME NEW u \in Orders \X (1..MaxQuantity), u[1] # o
        PROVE  u \in S' <=> u \in S \cup UnitsOf(o, n)
    BY <2>2 DEF PendingUnits, UnitsOf
  <2>3. S' \subseteq Orders \X (1..MaxQuantity)
    BY DEF PendingUnits
  <2>4. S \cup UnitsOf(o, n) \subseteq Orders \X (1..MaxQuantity)
    BY DEF PendingUnits, UnitsOf
  <2>5. QED
    BY <2>1, <2>2, <2>3, <2>4
<1>2. S \cap UnitsOf(o, n) = {}
  BY DEF PendingUnits, UnitsOf
<1>3. IsFiniteSet(S)
  BY PendingFinite
<1>4. QED
  BY <1>1, <1>2, <1>3, UnitsJoin

(* It is settled: its units were counted, and are not any more.            *)
LEMMA LeavesPending ==
  ASSUME NEW v \in Variants, NEW o \in Orders, NEW n \in 0..MaxQuantity,
         \A p \in Orders \ {o} : reservations'[p] = reservations[p],
         reservations[o].status = "PENDING",
         reservations'[o].status # "PENDING",
         n = Units(reservations[o].lines)[v]
  PROVE  Cardinality(PendingUnits(v)') = Cardinality(PendingUnits(v)) - n
<1> DEFINE S == PendingUnits(v)
           R == PendingUnits(v) \ UnitsOf(o, n)
<1>1. S' = R
  <2>1. ASSUME NEW u \in Orders \X (1..MaxQuantity), u[1] = o
        PROVE  u \in S' <=> u \in R
    BY <2>1 DEF PendingUnits, UnitsOf
  <2>2. ASSUME NEW u \in Orders \X (1..MaxQuantity), u[1] # o
        PROVE  u \in S' <=> u \in R
    BY <2>2 DEF PendingUnits, UnitsOf
  <2>3. S' \subseteq Orders \X (1..MaxQuantity) /\ R \subseteq Orders \X (1..MaxQuantity)
    BY DEF PendingUnits
  <2>4. QED
    BY <2>1, <2>2, <2>3
<1>2. UnitsOf(o, n) \subseteq S
  BY DEF PendingUnits, UnitsOf
<1>3. S = R \cup UnitsOf(o, n) /\ R \cap UnitsOf(o, n) = {}
  BY <1>2
<1>4. IsFiniteSet(R)
  BY PendingFinite, FS_Subset
<1>5. Cardinality(S) = Cardinality(R) + n /\ Cardinality(R) \in Nat
  <2> HIDE DEF S, R
  <2>1. QED
    BY <1>3, <1>4, UnitsJoin
<1>6. Cardinality(S') = Cardinality(R)
  BY <1>1
<1>7. QED
  BY <1>5, <1>6

(* A reservation that is not PENDING changes: nothing else is counted.     *)
LEMMA StaysUncounted ==
  ASSUME NEW v, NEW o \in Orders,
         \A p \in Orders \ {o} : reservations'[p] = reservations[p],
         reservations[o].status # "PENDING",
         reservations'[o].status # "PENDING"
  PROVE  Cardinality(PendingUnits(v)') = Cardinality(PendingUnits(v))
<1>1. PendingUnits(v)' = PendingUnits(v)
  BY DEF PendingUnits, Units
<1>2. QED
  BY <1>1

(* A PENDING reservation's units are reserved: no line of it is of a row   *)
(* that does not exist or has fewer units reserved.                        *)
LEMMA PendingIsReserved ==
  ASSUME IInv, NEW o \in Orders, reservations[o].status = "PENDING",
         NEW v \in Variants
  PROVE  Units(reservations[o].lines)[v] <= stock[v].reserved
<1> DEFINE n == Units(reservations[o].lines)[v]
           S == PendingUnits(v)
<1>1. n \in 0..MaxQuantity
  <2>1. IsNormal(reservations[o].lines)
    BY DEF IInv, RowsInOrder
  <2>2. QED
    BY <2>1, UnitsOfLines
<1>2. UnitsOf(o, n) \subseteq S
  BY <1>1 DEF PendingUnits, UnitsOf
<1>3. IsFiniteSet(S) /\ Cardinality(S) \in Nat
  BY PendingFinite
<1>4. Cardinality(UnitsOf(o, n)) = n
  BY <1>1, UnitsOfOrder
<1>5. Cardinality(UnitsOf(o, n)) <= Cardinality(S)
  <2> HIDE DEF S, n
  <2>1. QED
    BY <1>2, <1>3, FS_Subset
<1>6. stock[v].reserved = Cardinality(S)
  BY DEF IInv, Counted
<1>7. QED
  BY <1>4, <1>5, <1>6

-----------------------------------------------------------------------------
(* A statement that writes nothing                                         *)

LEMMA InvOfSameRows ==
  ASSUME NEW m, TxInv(m), UNCHANGED <<stock, reservations>>
  PROVE  TxInv(m)'
BY ZenonT(60) DEF TxInv, ReserveInv, Covered, SettleInv, DoneLines, TakenIsDone,
       AdjustInv

(* The invariant holds on when a transaction moves to a record that keeps  *)
(* it, with locks that no other transaction holds.                         *)
LEMMA Moves ==
  ASSUME IInv, NEW w \in Workers, NEW n \in Transactions, Goto(w, n), TxInv(n),
         \A x \in Workers \ {w} : n.held \cap txs[x].held = {}
  PROVE  IInv'
<1>1. /\ txs \in [Workers -> Transactions]
      /\ txs' = [txs EXCEPT ![w] = n]
      /\ UNCHANGED <<stock, reservations>>
  BY DEF IInv, TypeOK, Goto
<1>2. /\ txs' \in [Workers -> Transactions]
      /\ txs'[w] = n
      /\ \A x \in Workers \ {w} : txs'[x] = txs[x]
  BY ONLY <1>1, w \in Workers, n \in Transactions
<1>3. TypeOK'
  BY <1>1, <1>2 DEF IInv, TypeOK
<1>4. RowsInOrder' /\ Counted' /\ WithinStock'
  BY <1>1 DEF IInv, RowsInOrder, Counted, PendingUnits, WithinStock
<1>5. Exclusive'
  <2> SUFFICES ASSUME NEW x \in Workers, NEW y \in Workers, x # y
               PROVE  txs'[x].held \cap txs'[y].held = {}
    BY DEF Exclusive
  <2>1. txs[x].held \cap txs[y].held = {}
    BY DEF IInv, Exclusive
  <2>2. QED
    BY <1>2, <2>1
<1>6. ASSUME NEW x \in Workers PROVE TxInv(txs[x])'
  <2>1. PICK m : m = txs'[x]
    OBVIOUS
  <2>2. TxInv(m)
    BY <1>2, <2>1 DEF IInv
  <2>3. TxInv(m)'
    BY <1>1, <2>2, InvOfSameRows
  <2>4. QED
    BY <2>1, <2>3, ZenonT(60) DEF TxInv, ReserveInv, Covered, SettleInv, DoneLines, TakenIsDone,
       AdjustInv
<1>7. QED
  BY <1>3, <1>4, <1>5, <1>6 DEF IInv

LEMMA IdleIsIdle ==
  /\ Idle \in Transactions
  /\ TxInv(Idle)
  /\ Idle.pc = "idle" /\ Idle.held = {} /\ Idle.short = FALSE
  /\ Idle.taken = Nothing /\ Idle.seen = 0 /\ Idle.todo = <<>>
<1>1. Nothing \in [Variants -> 0..MaxQuantity]
  BY DEF Nothing
<1>2. Idle \in Transactions
  BY <1>1 DEF Idle, Transactions, Pcs
<1>3. QED
  BY <1>2 DEF Idle, TxInv

(* A transaction that ends without a COMMIT.                               *)
LEMMA CloseKeepsIInv ==
  ASSUME IInv, NEW w \in Workers, Close(w)
  PROVE  IInv'
<1>1. Goto(w, Idle)
  BY DEF Close
<1>2. \A x \in Workers \ {w} : Idle.held \cap txs[x].held = {}
  BY IdleIsIdle
<1>3. QED
  BY <1>1, <1>2, IdleIsIdle, Moves

-----------------------------------------------------------------------------
(* BEGIN                                                                   *)

(* What Normalized makes of a command that callers send.                   *)
LEMMA NormalCommand ==
  ASSUME NEW c \in Commands
  PROVE  /\ Normalized(c) \in CommandTypes
         /\ Normalized(c).kind = c.kind
         /\ c.kind = "reserve" => IsNormal(Normalized(c).lines)
         /\ c.kind = "adjust" => Normalized(c) = c
<1>1. c \in CommandTypes
  BY CommandsAssumption
<1>2. CASE c.kind = "reserve"
  <2>1. c \in [kind : {"reserve"}, order : Orders, key : Keys, lines : Seq(Lines)]
    BY <1>1, <1>2 DEF CommandTypes
  <2>2. PICK s : s = NormalizeReservationItems(c.lines)
    OBVIOUS
  <2>3. IsNormal(s)
    BY <1>2, <2>2, NormalizedAssumption
  <2>4. s \in Seq(Lines)
    BY <2>3 DEF IsNormal
  <2>5. Normalized(c) = [c EXCEPT !.lines = s]
    BY <1>2, <2>2 DEF Normalized
  <2>6. /\ Normalized(c) \in [kind : {"reserve"}, order : Orders, key : Keys, lines : Seq(Lines)]
        /\ Normalized(c).lines = s
        /\ Normalized(c).kind = "reserve"
    BY ONLY <2>1, <2>4, <2>5
  <2>7. QED
    BY <1>2, <2>3, <2>6 DEF CommandTypes
<1>3. CASE c.kind # "reserve"
  BY <1>1, <1>3 DEF Normalized
<1>4. QED
  BY <1>2, <1>3

LEMMA BeginKeepsIInv ==
  ASSUME IInv, NEW w \in Workers, NEW c \in Commands, Begin(w, c)
  PROVE  IInv'
<1> DEFINE Todos == Seq([variant : Variants, quantity : 0..MaxQuantity])
<1>1. PICK d : d = Normalized(c)
  OBVIOUS
<1>2. /\ d \in CommandTypes
      /\ d.kind = c.kind
      /\ c.kind = "reserve" => IsNormal(d.lines)
      /\ c.kind = "adjust" => d = c
  BY <1>1, NormalCommand
<1>3. c.kind \in {"reserve", "confirm", "release", "adjust"}
  BY CommandsAssumption DEF CommandTypes
<1>4. PICK pc, todo :
        /\ pc = CASE c.kind = "reserve" -> "find"
                  [] c.kind = "adjust"  -> "lock items"
                  [] OTHER              -> "lock reservation"
        /\ todo = CASE c.kind = "reserve" -> d.lines
                    [] c.kind = "adjust"  -> <<Line(c.variant, 0)>>
                    [] OTHER              -> <<>>
  OBVIOUS
<1>5. Goto(w, [Idle EXCEPT !.cmd = d, !.pc = pc, !.todo = todo])
  BY <1>1, <1>4 DEF Begin
<1>6. PICK n : n = [Idle EXCEPT !.cmd = d, !.pc = pc, !.todo = todo]
  OBVIOUS
<1>7. /\ c.kind = "reserve" => pc = "find" /\ todo = d.lines
      /\ c.kind = "adjust" => pc = "lock items" /\ todo = <<Line(c.variant, 0)>>
      /\ c.kind \in {"confirm", "release"} => pc = "lock reservation" /\ todo = <<>>
  BY <1>4
<1>8. todo \in Todos
  <2>1. CASE c.kind = "reserve"
    <3>1. todo \in Seq(Lines)
      BY <1>2, <1>7, <2>1 DEF IsNormal
    <3>2. Lines \subseteq [variant : Variants, quantity : 0..MaxQuantity]
      BY DEF Lines
    <3>3. QED
      BY <3>1, <3>2, WiderSeq
  <2>2. CASE c.kind = "adjust"
    <3>1. d \in [kind : {"adjust"}, variant : Variants,
                 mode : {"SET", "INCREMENT", "DECREMENT"}, quantity : 0..MaxStock]
      BY <1>2, <2>2 DEF CommandTypes
    <3>2. Line(c.variant, 0) \in [variant : Variants, quantity : 0..MaxQuantity]
      BY <1>2, <2>2, <3>1 DEF Line
    <3>3. PICK l : l = Line(c.variant, 0)
      OBVIOUS
    <3>4. <<l>> \in Todos
      BY <3>2, <3>3
    <3>5. QED
      BY <1>7, <2>2, <3>3, <3>4
  <2>3. CASE c.kind \in {"confirm", "release"}
    <3>1. <<>> \in Todos
      OBVIOUS
    <3>2. QED
      BY ONLY <1>7, <2>3, <3>1
  <2>4. QED
    BY <1>3, <2>1, <2>2, <2>3
<1>9. pc \in Pcs
  BY <1>3, <1>7 DEF Pcs
<1>10. /\ n.pc = pc /\ n.cmd = d /\ n.todo = todo /\ n.held = {}
       /\ n.taken = Nothing
  BY ONLY <1>6, IdleIsIdle DEF Transactions
<1>11. n \in Transactions
  BY ONLY <1>2, <1>6, <1>8, <1>9, IdleIsIdle DEF Transactions
<1>12. TxInv(n)
  <2>1. CASE c.kind = "reserve"
    <3>1. d.lines # <<>>
      BY <1>2, <2>1 DEF IsNormal
    <3>2. ReserveInv(n)
      BY <1>2, <1>7, <1>10, <2>1, <3>1 DEF ReserveInv
    <3>3. QED
      BY <1>2, <1>10, <2>1, <3>2 DEF TxInv
  <2>2. CASE c.kind = "adjust"
    <3>1. AdjustInv(n)
      BY <1>2, <1>7, <1>10, <2>2 DEF AdjustInv
    <3>2. QED
      BY <1>2, <1>10, <2>2, <3>1 DEF TxInv
  <2>3. CASE c.kind \in {"confirm", "release"}
    <3>1. SettleInv(n)
      BY <1>2, <1>7, <1>10, <2>3 DEF SettleInv
    <3>2. QED
      BY <1>2, <1>10, <2>3, <3>1 DEF TxInv
  <2>4. QED
    BY <1>3, <2>1, <2>2, <2>3
<1>13. Goto(w, n)
  BY <1>5, <1>6
<1>14. \A x \in Workers \ {w} : n.held \cap txs[x].held = {}
  BY <1>10
<1>15. QED
  BY <1>11, <1>12, <1>13, <1>14, Moves

-----------------------------------------------------------------------------
(* The statements that lock                                                *)

(* What IInv says of one transaction.                                      *)
LEMMA OneTransaction ==
  ASSUME IInv, NEW w \in Workers
  PROVE  /\ txs[w] \in Transactions
         /\ TxInv(txs[w])
         /\ \A x \in Workers \ {w} : txs[w].held \cap txs[x].held = {}
BY DEF IInv, TypeOK, Exclusive

(* The kind of a transaction's command, by its place in the program.       *)
LEMMA KindOfPc ==
  ASSUME IInv, NEW w \in Workers, txs[w].pc # "idle"
  PROVE  /\ txs[w].cmd \in CommandTypes
         /\ txs[w].cmd.kind \in {"reserve", "confirm", "release", "adjust"}
         /\ txs[w].cmd.kind = "reserve" => ReserveInv(txs[w])
         /\ txs[w].cmd.kind \in {"confirm", "release"} => SettleInv(txs[w])
         /\ txs[w].cmd.kind = "adjust" => AdjustInv(txs[w])
<1>1. /\ txs[w].cmd.kind \in {"reserve", "confirm", "release", "adjust"}
      /\ txs[w].cmd.kind = "reserve" => ReserveInv(txs[w])
      /\ txs[w].cmd.kind \in {"confirm", "release"} => SettleInv(txs[w])
      /\ txs[w].cmd.kind = "adjust" => AdjustInv(txs[w])
  BY OneTransaction DEF TxInv
<1>2. txs[w].cmd \in CommandTypes \cup {NoCommand}
  BY OneTransaction DEF Transactions
<1>3. txs[w].cmd # NoCommand
  BY <1>1 DEF NoCommand
<1>4. QED
  BY <1>1, <1>2, <1>3

(* The variant or the order of a command, by its kind.                     *)
LEMMA CommandFields ==
  ASSUME NEW c \in CommandTypes
  PROVE  /\ c.kind \in {"confirm", "release"} => c.order \in Orders
         /\ c.kind = "reserve" => /\ c.order \in Orders
                                  /\ c.key \in Keys
                                  /\ c.lines \in Seq(Lines)
         /\ c.kind = "adjust" => /\ c.variant \in Variants
                                 /\ c.mode \in {"SET", "INCREMENT", "DECREMENT"}
                                 /\ c.quantity \in 0..MaxStock
BY DEF CommandTypes

(* The locks that a statement waits for.                                   *)
LEMMA WantedLocks ==
  ASSUME NEW w \in Workers
  PROVE  /\ txs[w].pc = "lock reservation" /\ reservations[txs[w].cmd.order].status # "NONE"
              => Wants(w) = {ReservationRow(txs[w].cmd.order)}
         /\ txs[w].pc = "lock items"
              => Wants(w) = IF stock[Head(txs[w].todo).variant].exists
                            THEN {ItemRow(Head(txs[w].todo).variant)} ELSE {}
         /\ txs[w].pc = "insert" => Wants(w) = UniqueKeys(txs[w].cmd)
<1>1. ASSUME txs[w].pc = "lock reservation",
             reservations[txs[w].cmd.order].status # "NONE"
      PROVE  Wants(w) = {ReservationRow(txs[w].cmd.order)}
  BY <1>1 DEF Wants
<1>2. ASSUME txs[w].pc = "lock items"
      PROVE  Wants(w) = IF stock[Head(txs[w].todo).variant].exists
                        THEN {ItemRow(Head(txs[w].todo).variant)} ELSE {}
  BY <1>2 DEF Wants
<1>3. ASSUME txs[w].pc = "insert" PROVE Wants(w) = UniqueKeys(txs[w].cmd)
  BY <1>3 DEF Wants
<1>4. QED
  BY <1>1, <1>2, <1>3

(* A transaction that was granted what it waited for shares no lock.       *)
LEMMA GrantedLocks ==
  ASSUME IInv, NEW w \in Workers, Granted(w), NEW h,
         h = txs[w].held \cup Wants(w)
  PROVE  \A x \in Workers \ {w} : h \cap txs[x].held = {}
<1>1. \A x \in Workers \ {w} : txs[w].held \cap txs[x].held = {}
  BY OneTransaction
<1>2. \A x \in Workers \ {w} : Wants(w) \cap txs[x].held = {}
  BY DEF Granted
<1>3. QED
  BY <1>1, <1>2

(* findExistingReservation, by the order and by the key.                   *)
LEMMA FindKeepsIInv ==
  ASSUME IInv, NEW w \in Workers, FindExistingReservation(w)
  PROVE  IInv'
<1>1. CASE ExistingReservations(txs[w].cmd) # {}
  BY <1>1, CloseKeepsIInv DEF FindExistingReservation
<1>2. CASE ExistingReservations(txs[w].cmd) = {}
  <2>1. PICK t : t = txs[w]
    OBVIOUS
  <2>2. PICK n : n = [t EXCEPT !.pc = "lock items"]
    OBVIOUS
  <2>3. t \in Transactions /\ t.pc = "find" /\ "lock items" \in Pcs
    BY <2>1, OneTransaction DEF FindExistingReservation, Pcs
  <2>4. /\ n \in Transactions
        /\ n.pc = "lock items" /\ n.cmd = t.cmd /\ n.todo = t.todo
        /\ n.held = t.held /\ n.short = t.short
    BY ONLY <2>2, <2>3 DEF Transactions
  <2>5. t.cmd.kind = "reserve" /\ ReserveInv(t)
    BY <2>1, <2>3, KindOfPc DEF SettleInv, AdjustInv
  <2>6. ReserveInv(n)
    BY ONLY <2>3, <2>4, <2>5 DEF ReserveInv, Covered
  <2>7. TxInv(n)
    BY <2>4, <2>5, <2>6 DEF TxInv
  <2>8. Goto(w, n)
    BY <1>2, <2>1, <2>2 DEF FindExistingReservation
  <2>9. \A x \in Workers \ {w} : n.held \cap txs[x].held = {}
    BY <2>1, <2>4, OneTransaction
  <2>10. QED
    BY <2>4, <2>7, <2>8, <2>9, Moves
<1>3. QED
  BY <1>1, <1>2

(* SELECT ... FOR UPDATE of the reservation.                               *)
LEMMA LockReservationKeepsIInv ==
  ASSUME IInv, NEW w \in Workers, LockReservation(w)
  PROVE  IInv'
<1>1. CASE reservations[txs[w].cmd.order].status # "PENDING"
  BY <1>1, CloseKeepsIInv DEF LockReservation
<1>2. CASE reservations[txs[w].cmd.order].status = "PENDING"
  <2>1. PICK t, row : t = txs[w] /\ row = reservations[txs[w].cmd.order]
    OBVIOUS
  <2>2. PICK h : h = txs[w].held \cup Wants(w)
    OBVIOUS
  <2>3. PICK n : n = [t EXCEPT !.pc = "lock items", !.todo = row.lines, !.held = h]
    OBVIOUS
  <2>4. /\ t \in Transactions /\ t.pc = "lock reservation" /\ Granted(w)
        /\ "lock items" \in Pcs
    BY <2>1, OneTransaction DEF LockReservation, Pcs
  <2>5. /\ t.cmd.kind \in {"confirm", "release"} /\ SettleInv(t)
        /\ t.cmd.order \in Orders
    BY <2>1, <2>4, KindOfPc, CommandFields DEF ReserveInv, AdjustInv
  <2>6. row.status = "PENDING" /\ IsNormal(row.lines) /\ t.taken = Nothing
    BY <1>2, <2>1, <2>4, <2>5 DEF IInv, RowsInOrder, SettleInv
  <2>7. row.lines \in Seq([variant : Variants, quantity : 0..MaxQuantity])
    <3>1. row.lines \in Seq(Lines)
      BY <2>6 DEF IsNormal
    <3>2. Lines \subseteq [variant : Variants, quantity : 0..MaxQuantity]
      BY DEF Lines
    <3>3. PICK ls : ls = row.lines
      OBVIOUS
    <3>4. ls \in Seq([variant : Variants, quantity : 0..MaxQuantity])
      BY <3>1, <3>2, <3>3, WiderSeq
    <3>5. QED
      BY <3>3, <3>4
  <2>8. h = t.held \cup {ReservationRow(t.cmd.order)}
    BY <1>2, <2>1, <2>2, <2>4, WantedLocks
  <2>9. h \in SUBSET Locks
    <3>1. ReservationRow(t.cmd.order) \in Locks
      BY <2>5 DEF ReservationRow, Locks
    <3>2. t.held \in SUBSET Locks
      BY <2>4 DEF Transactions
    <3>3. QED
      BY ONLY <2>8, <3>1, <3>2
  <2>10. /\ n \in Transactions
         /\ n.pc = "lock items" /\ n.cmd = t.cmd /\ n.todo = row.lines
         /\ n.held = h /\ n.taken = t.taken
    BY ONLY <2>3, <2>4, <2>7, <2>9 DEF Transactions
  <2>11. n.todo # <<>>
    BY <2>6, <2>10 DEF IsNormal
  <2>12. DoneLines(n) = {}
    BY <2>1, <2>10 DEF DoneLines
  <2>13. ReservationRow(n.cmd.order) \in n.held
    BY <2>8, <2>10
  <2>14. SettleInv(n)
    <3>1. reservations[n.cmd.order] = row
      BY <2>1, <2>10
    <3>2. \A v \in Variants : n.taken[v] = 0
      BY <2>6, <2>10 DEF Nothing
    <3>3. QED
      BY ONLY <2>6, <2>10, <2>11, <2>12, <2>13, <3>1, <3>2 DEF SettleInv, TakenIsDone
  <2>15. TxInv(n)
    BY <2>5, <2>10, <2>14 DEF TxInv
  <2>16. Goto(w, n)
    BY <1>2, <2>1, <2>2, <2>3 DEF LockReservation
  <2>17. \A x \in Workers \ {w} : n.held \cap txs[x].held = {}
    BY <2>2, <2>4, <2>10, GrantedLocks
  <2>18. QED
    BY <2>10, <2>15, <2>16, <2>17, Moves
<1>3. QED
  BY <1>1, <1>2

-----------------------------------------------------------------------------
(* SELECT ... FOR UPDATE of the next line's item                           *)

(* m is w's transaction with its next line read, on its way to `next`.     *)
Advanced(w, m, next) ==
  /\ m \in Transactions
  /\ m.cmd = txs[w].cmd /\ m.short = txs[w].short
  /\ m.taken = txs[w].taken /\ m.seen = txs[w].seen
  /\ m.pc = IF m.todo = <<>> THEN next ELSE "lock items"
  /\ Head(txs[w].todo) \in Range(txs[w].todo)
  /\ Range(txs[w].todo) = {Head(txs[w].todo)} \cup Range(m.todo)
  /\ txs[w].held \subseteq m.held
  /\ stock[Head(txs[w].todo).variant].exists
       => ItemRow(Head(txs[w].todo).variant) \in m.held
  /\ \A x \in Workers \ {w} : m.held \cap txs[x].held = {}

LEMMA LinesToRead ==
  ASSUME IInv, NEW w \in Workers, txs[w].pc = "lock items"
  PROVE  txs[w].todo # <<>>
<1>1. /\ txs[w].cmd.kind \in {"reserve", "confirm", "release", "adjust"}
      /\ txs[w].cmd.kind = "reserve" => ReserveInv(txs[w])
      /\ txs[w].cmd.kind \in {"confirm", "release"} => SettleInv(txs[w])
      /\ txs[w].cmd.kind = "adjust" => AdjustInv(txs[w])
  BY KindOfPc
<1>2. PICK l : l = Line(txs[w].cmd.variant, 0)
  OBVIOUS
<1>3. <<l>> # <<>>
  OBVIOUS
<1>4. CASE txs[w].cmd.kind = "adjust"
  BY <1>1, <1>2, <1>3, <1>4 DEF AdjustInv
<1>5. CASE txs[w].cmd.kind = "reserve"
  BY <1>1, <1>5 DEF ReserveInv
<1>6. CASE txs[w].cmd.kind \in {"confirm", "release"}
  BY <1>1, <1>6 DEF SettleInv
<1>7. QED
  BY <1>1, <1>4, <1>5, <1>6

LEMMA LockedAdvances ==
  ASSUME IInv, NEW w \in Workers, txs[w].pc = "lock items", Granted(w),
         NEW next \in {"insert", "commit"}, NEW m, m = Locked(w, next)
  PROVE  Advanced(w, m, next)
<1> DEFINE T == [variant : Variants, quantity : 0..MaxQuantity]
<1>1. PICK t, s, h, pc :
        /\ t = txs[w] /\ s = Tail(txs[w].todo) /\ h = txs[w].held \cup Wants(w)
        /\ pc = IF Len(txs[w].todo) = 1 THEN next ELSE txs[w].pc
  OBVIOUS
<1>2. PICK q : q = t.todo
  OBVIOUS
<1>3. t \in Transactions /\ q \in Seq(T)
  BY <1>1, <1>2, OneTransaction DEF Transactions
<1>4. q # <<>>
  BY <1>1, <1>2, LinesToRead
<1>5. /\ Tail(q) \in Seq(T)
      /\ Head(q) \in T
      /\ Head(q) \in Range(q)
      /\ Range(q) = {Head(q)} \cup Range(Tail(q))
      /\ Len(q) = 1 <=> Tail(q) = <<>>
  BY <1>3, <1>4, HeadAndTail
<1>6. Head(q) \in T
  BY <1>5
<1>7. m = [t EXCEPT !.todo = s, !.held = h, !.pc = pc]
  BY <1>1 DEF Locked
<1>8. s \in Seq(T) /\ pc \in Pcs
  BY <1>1, <1>2, <1>5 DEF Pcs
<1>9. h \in SUBSET Locks
  <2>1. Wants(w) \subseteq {ItemRow(Head(q).variant)}
    BY <1>1, <1>2, WantedLocks
  <2>2. ItemRow(Head(q).variant) \in Locks
    BY <1>6 DEF ItemRow, Locks
  <2>3. t.held \in SUBSET Locks
    BY <1>3 DEF Transactions
  <2>4. QED
    BY ONLY <1>1, <2>1, <2>2, <2>3
<1>10. /\ m \in Transactions
       /\ m.cmd = t.cmd /\ m.short = t.short /\ m.taken = t.taken /\ m.seen = t.seen
       /\ m.todo = s /\ m.held = h /\ m.pc = pc
  BY ONLY <1>3, <1>7, <1>8, <1>9 DEF Transactions
<1>11. m.pc = IF m.todo = <<>> THEN next ELSE "lock items"
  BY <1>1, <1>2, <1>5, <1>10
<1>12. \A x \in Workers \ {w} : m.held \cap txs[x].held = {}
  BY <1>1, <1>10, GrantedLocks
<1>13. stock[Head(q).variant].exists => ItemRow(Head(q).variant) \in h
  BY <1>1, <1>2, WantedLocks
<1>14. Range(q) = {Head(q)} \cup Range(m.todo)
  BY <1>1, <1>2, <1>5, <1>10
<1>15. txs[w].held \subseteq m.held
  BY <1>1, <1>10
<1>16. txs[w].todo = q /\ txs[w] = t
  BY <1>1, <1>2
<1>17. QED
  BY ONLY <1>5, <1>10, <1>11, <1>12, <1>13, <1>14, <1>15, <1>16 DEF Advanced

(* A reserve: the line is covered, or the order cannot be served.          *)
LEMMA LockForReserveKeepsIInv ==
  ASSUME IInv, NEW w \in Workers, txs[w].pc = "lock items", Granted(w),
         txs[w].cmd.kind = "reserve",
         LockForReserve(w, Head(txs[w].todo).variant, Head(txs[w].todo).quantity)
  PROVE  IInv'
<1>1. PICK t, l, m : t = txs[w] /\ l = Head(txs[w].todo) /\ m = Locked(w, "insert")
  OBVIOUS
<1>2. PICK short : short = (t.short \/ stock[l.variant].onHand - stock[l.variant].reserved < l.quantity)
  OBVIOUS
<1>3. PICK n : n = [m EXCEPT !.short = short]
  OBVIOUS
<1>4. Advanced(w, m, "insert")
  BY <1>1, LockedAdvances
<1>5. t \in Transactions /\ t.cmd.kind = "reserve" /\ ReserveInv(t)
  BY <1>1, KindOfPc, OneTransaction
<1>6. /\ m \in Transactions
      /\ m.cmd = t.cmd /\ m.short = t.short
      /\ m.pc = IF m.todo = <<>> THEN "insert" ELSE "lock items"
      /\ l \in Range(t.todo)
      /\ Range(t.todo) = {l} \cup Range(m.todo)
      /\ t.held \subseteq m.held
      /\ stock[l.variant].exists => ItemRow(l.variant) \in m.held
      /\ \A x \in Workers \ {w} : m.held \cap txs[x].held = {}
  BY <1>1, <1>4 DEF Advanced
<1>7. short \in BOOLEAN
  BY <1>2, ZenonT(60)
<1>8. Goto(w, n)
  <2>1. n = [Locked(w, "insert") EXCEPT !.short = @ \/ stock[l.variant].onHand - stock[l.variant].reserved < l.quantity]
    BY <1>1, <1>2, <1>3, <1>6, Zenon
  <2>2. QED
    BY <1>1, <2>1 DEF LockForReserve
<1>9. /\ n \in Transactions
      /\ n.cmd = m.cmd /\ n.pc = m.pc /\ n.todo = m.todo /\ n.held = m.held
      /\ n.short = short
  BY ONLY <1>3, <1>6, <1>7 DEF Transactions
<1>10. /\ IsNormal(t.cmd.lines)
       /\ Range(t.todo) \subseteq Range(t.cmd.lines)
       /\ \A k \in Range(t.cmd.lines) \ Range(t.todo) : t.short \/ Covered(t, k)
  BY <1>5 DEF ReserveInv
<1>11. l \in Lines
  BY <1>6, <1>10, UnitsOfLines
<1>12. short \/ Covered(n, l)
  <2>1. PICK v, q, row : v = l.variant /\ q = l.quantity /\ row = stock[l.variant]
    OBVIOUS
  <2>2. v \in Variants /\ q \in 1..MaxQuantity
    BY <1>11, <2>1 DEF Lines
  <2>3. stock[v] = row /\ row \in Items
    BY <2>1, <2>2 DEF IInv, TypeOK
  <2>4. /\ row.onHand \in Nat /\ row.reserved \in Nat
    BY ONLY <2>3, QuantityAssumption DEF Items
  <2>5. row.onHand - row.reserved < q => short
    BY ONLY <1>2, <2>1, Zenon
  <2>6. CASE ~row.exists
    <3>1. row = NoRow
      BY <2>2, <2>3, <2>6 DEF IInv, RowsInOrder
    <3>2. row.onHand = 0 /\ row.reserved = 0
      BY <3>1 DEF NoRow
    <3>3. QED
      BY ONLY <1>7, <2>2, <2>5, <3>2, QuantityAssumption
  <2>7. CASE row.exists
    <3>1. ItemRow(v) \in n.held
      BY <1>6, <1>9, <2>1, <2>7
    <3>2. short \/ row.reserved + q <= row.onHand
      BY ONLY <1>7, <2>2, <2>4, <2>5, QuantityAssumption
    <3>3. QED
      BY <2>1, <2>7, <3>1, <3>2 DEF Covered
  <2>8. QED
    BY <2>6, <2>7
<1>13. ASSUME NEW k \in Range(n.cmd.lines) \ Range(n.todo)
       PROVE  n.short \/ Covered(n, k)
  <2>1. CASE k = l
    BY <1>9, <1>12, <2>1
  <2>2. CASE k # l
    <3>1. k \in Range(t.cmd.lines) \ Range(t.todo)
      BY <1>6, <1>9, <2>2
    <3>2. t.short \/ Covered(t, k)
      BY <1>10, <3>1
    <3>3. Covered(t, k) => Covered(n, k)
      BY <1>6, <1>9 DEF Covered
    <3>4. t.short => n.short
      BY <1>2, <1>9
    <3>5. QED
      BY <3>2, <3>3, <3>4
  <2>3. QED
    BY <2>1, <2>2
<1>14. ReserveInv(n)
  <2>1. n.todo = <<>> <=> n.pc \in {"insert", "commit"}
    BY <1>6, <1>9
  <2>2. Range(n.todo) \subseteq Range(n.cmd.lines)
    BY <1>6, <1>9, <1>10
  <2>3. n.pc \in {"lock items", "insert"} /\ IsNormal(n.cmd.lines)
    BY <1>6, <1>9, <1>10
  <2>4. QED
    BY ONLY <1>13, <2>1, <2>2, <2>3 DEF ReserveInv
<1>15. TxInv(n)
  BY <1>5, <1>6, <1>9, <1>14 DEF TxInv
<1>16. \A x \in Workers \ {w} : n.held \cap txs[x].held = {}
  BY <1>6, <1>9
<1>17. QED
  BY <1>8, <1>9, <1>15, <1>16, Moves

(* The next line of a reservation that is being settled: its row exists,   *)
(* is locked by now, and has the line's units reserved.                    *)
LEMMA NextLineIsReserved ==
  ASSUME IInv, NEW w \in Workers, txs[w].pc = "lock items",
         txs[w].cmd.kind \in {"confirm", "release"},
         NEW l, l = Head(txs[w].todo), l \in Range(txs[w].todo)
  PROVE  /\ l \in Lines
         /\ l \in Range(reservations[txs[w].cmd.order].lines)
         /\ l.quantity <= stock[l.variant].reserved
         /\ stock[l.variant].exists
<1>1. PICK o, lines : o = txs[w].cmd.order /\ lines = reservations[o].lines
  OBVIOUS
<1>2. SettleInv(txs[w]) /\ o \in Orders
  BY <1>1, KindOfPc, CommandFields
<1>3. reservations[o].status = "PENDING" /\ Range(txs[w].todo) \subseteq Range(lines)
  BY <1>1, <1>2 DEF SettleInv
<1>4. IsNormal(lines)
  BY <1>1, <1>2, <1>3 DEF IInv, RowsInOrder
<1>5. l \in Range(lines) /\ l \in Lines /\ Units(lines)[l.variant] = l.quantity
  BY <1>3, <1>4, UnitsOfLines, ZenonT(60)
<1>6. l.variant \in Variants /\ l.quantity \in 1..MaxQuantity
  BY <1>5 DEF Lines
<1>7. l.quantity <= stock[l.variant].reserved
  BY <1>1, <1>2, <1>3, <1>5, <1>6, PendingIsReserved
<1>8. stock[l.variant].exists
  <2>1. stock[l.variant].reserved # 0
    <3>1. stock[l.variant] \in Items
      BY <1>6 DEF IInv, TypeOK
    <3>2. PICK q, n : q = l.quantity /\ n = stock[l.variant].reserved
      OBVIOUS
    <3>3. q \in 1..MaxQuantity /\ q <= n
      BY <1>6, <1>7, <3>2
    <3>4. n # 0
      BY ONLY <3>3, QuantityAssumption
    <3>5. QED
      BY <3>2, <3>4
  <2>2. NoRow.reserved = 0
    BY DEF NoRow
  <2>3. QED
    BY <1>6, <2>1, <2>2 DEF IInv, RowsInOrder
<1>9. QED
  BY <1>1, <1>5, <1>7, <1>8

(* The lines a settling transaction has read grow by the next one.         *)
LEMMA SettleAdvances ==
  ASSUME IInv, NEW w \in Workers, txs[w].pc = "lock items",
         txs[w].cmd.kind \in {"confirm", "release"},
         NEW m, Advanced(w, m, "commit"),
         NEW n \in Transactions, n.cmd = m.cmd, n.pc = m.pc, n.todo = m.todo,
         n.held = m.held
  PROVE  /\ DoneLines(n) \subseteq DoneLines(txs[w]) \cup {Head(txs[w].todo)}
         /\ DoneLines(txs[w]) \subseteq DoneLines(n)
         /\ Head(txs[w].todo) \in DoneLines(n) \/ Head(txs[w].todo) \in Range(n.todo)
         /\ n.cmd.kind = "confirm" => SettleInv(n)
         /\ n.cmd.kind = "release" /\ TakenIsDone(n) => SettleInv(n)
<1>1. PICK t, l, row : /\ t = txs[w] /\ l = Head(txs[w].todo)
                       /\ row = reservations[txs[w].cmd.order]
  OBVIOUS
<1>2. /\ n.cmd = t.cmd
      /\ n.pc = IF n.todo = <<>> THEN "commit" ELSE "lock items"
      /\ l \in Range(t.todo)
      /\ Range(t.todo) = {l} \cup Range(n.todo)
      /\ t.held \subseteq n.held
      /\ stock[l.variant].exists => ItemRow(l.variant) \in n.held
  BY <1>1 DEF Advanced
<1>3. SettleInv(t)
  BY <1>1, KindOfPc
<1>4. /\ ReservationRow(t.cmd.order) \in t.held
      /\ row.status = "PENDING"
      /\ Range(t.todo) \subseteq Range(row.lines)
      /\ \A k \in DoneLines(t) : ItemRow(k.variant) \in t.held
  BY <1>1, <1>3 DEF SettleInv
<1>5. /\ DoneLines(t) = Range(row.lines) \ Range(t.todo)
      /\ DoneLines(n) = Range(row.lines) \ Range(n.todo)
  BY <1>1, <1>2 DEF DoneLines
<1>6. /\ DoneLines(n) \subseteq DoneLines(t) \cup {l}
      /\ DoneLines(t) \subseteq DoneLines(n)
      /\ l \in DoneLines(n) \/ l \in Range(n.todo)
  BY ONLY <1>2, <1>4, <1>5
<1>7. ItemRow(l.variant) \in n.held
  BY <1>1, <1>2, NextLineIsReserved
<1>8. \A k \in DoneLines(n) : ItemRow(k.variant) \in n.held
  BY <1>2, <1>4, <1>6, <1>7
<1>9. /\ n.pc \in {"lock items", "commit"}
      /\ n.todo = <<>> <=> n.pc = "commit"
      /\ Range(n.todo) \subseteq Range(row.lines)
      /\ ReservationRow(n.cmd.order) \in n.held
      /\ reservations[n.cmd.order] = row
  BY <1>1, <1>2, <1>4
<1>10. n.cmd.kind = "confirm" => SettleInv(n)
  BY <1>4, <1>8, <1>9 DEF SettleInv
<1>11. ASSUME n.cmd.kind = "release", TakenIsDone(n)
       PROVE  SettleInv(n)
  BY ONLY <1>4, <1>8, <1>9, <1>11 DEF SettleInv
<1>12. QED
  BY <1>1, <1>6, <1>10, <1>11

LEMMA LockForConfirmKeepsIInv ==
  ASSUME IInv, NEW w \in Workers, txs[w].pc = "lock items", Granted(w),
         txs[w].cmd.kind = "confirm",
         LockForConfirm(w, Head(txs[w].todo).variant, Head(txs[w].todo).quantity)
  PROVE  IInv'
<1>1. CASE Close(w)
  BY <1>1, CloseKeepsIInv
<1>2. CASE Goto(w, Locked(w, "commit"))
  <2>1. PICK n : n = Locked(w, "commit")
    OBVIOUS
  <2>2. Advanced(w, n, "commit")
    BY <2>1, LockedAdvances
  <2>3. /\ n \in Transactions /\ n.cmd.kind = "confirm"
        /\ \A x \in Workers \ {w} : n.held \cap txs[x].held = {}
    BY <2>2 DEF Advanced
  <2>4. SettleInv(n)
    BY <2>2, <2>3, SettleAdvances
  <2>5. TxInv(n)
    BY <2>3, <2>4 DEF TxInv
  <2>6. Goto(w, n)
    BY <1>2, <2>1
  <2>7. QED
    BY <2>3, <2>5, <2>6, Moves
<1>3. QED
  BY <1>1, <1>2 DEF LockForConfirm

(* The clamp of releaseStockReservation is never met.                      *)
LEMMA LockForReleaseKeepsIInv ==
  ASSUME IInv, NEW w \in Workers, txs[w].pc = "lock items", Granted(w),
         txs[w].cmd.kind = "release",
         LockForRelease(w, Head(txs[w].todo).variant, Head(txs[w].todo).quantity)
  PROVE  IInv'
<1>1. PICK t, l, m, lines :
        /\ t = txs[w] /\ l = Head(txs[w].todo) /\ m = Locked(w, "commit")
        /\ lines = reservations[txs[w].cmd.order].lines
  OBVIOUS
<1>2. PICK v, q : v = l.variant /\ q = l.quantity
  OBVIOUS
<1>3. Advanced(w, m, "commit")
  BY <1>1, LockedAdvances
<1>4. /\ m \in Transactions /\ m.cmd = t.cmd /\ m.taken = t.taken
      /\ l \in Range(t.todo)
      /\ \A x \in Workers \ {w} : m.held \cap txs[x].held = {}
  BY <1>1, <1>3 DEF Advanced
<1>5. /\ l \in Lines /\ l \in Range(lines)
      /\ q <= stock[v].reserved /\ stock[v].exists
  BY <1>1, <1>2, <1>4, NextLineIsReserved
<1>6. v \in Variants /\ q \in 0..MaxQuantity
  <2>1. v \in Variants /\ q \in 1..MaxQuantity
    BY ONLY <1>2, <1>5 DEF Lines
  <2>2. QED
    BY ONLY <2>1, QuantityAssumption
<1>7. PICK n : n = [m EXCEPT !.taken[v] = q]
  OBVIOUS
<1>8. m.taken \in [Variants -> 0..MaxQuantity]
  BY <1>4 DEF Transactions
<1>9. PICK tk : tk = [m.taken EXCEPT ![v] = q]
  OBVIOUS
<1>10. /\ tk \in [Variants -> 0..MaxQuantity]
       /\ tk[v] = q
       /\ \A u \in Variants \ {v} : tk[u] = m.taken[u]
  BY ONLY <1>6, <1>8, <1>9
<1>11. n = [m EXCEPT !.taken = tk]
  BY <1>7, <1>9
<1>12. /\ n \in Transactions
       /\ n.cmd = m.cmd /\ n.pc = m.pc /\ n.todo = m.todo /\ n.held = m.held
       /\ n.taken = tk
  BY ONLY <1>4, <1>10, <1>11 DEF Transactions
<1>13. Goto(w, n)
  <2>1. PICK x : x = IF q <= stock[v].reserved THEN q ELSE stock[v].reserved
    OBVIOUS
  <2>2. x = q
    BY <1>5, <2>1
  <2>3. Goto(w, [m EXCEPT !.taken[v] = x])
    BY <1>1, <1>2, <1>5, <2>1 DEF LockForRelease
  <2>4. QED
    BY <1>7, <2>2, <2>3
<1>14. /\ DoneLines(n) \subseteq DoneLines(t) \cup {l}
       /\ n.cmd.kind = "release" /\ TakenIsDone(n) => SettleInv(n)
  BY <1>1, <1>3, <1>12, SettleAdvances
<1>15. n.cmd.kind = "release" /\ n.cmd = t.cmd
  BY <1>1, <1>4, <1>12
<1>16. SettleInv(t) /\ t.cmd.kind = "release" /\ t.pc = "lock items"
  BY <1>1, KindOfPc
<1>17. TakenIsDone(t)
  BY ONLY <1>16 DEF SettleInv
<1>18. IsNormal(lines)
  <2>1. t.cmd.order \in Orders /\ reservations[t.cmd.order].status = "PENDING"
    BY <1>1, <1>16, KindOfPc, CommandFields DEF SettleInv
  <2>2. QED
    BY <1>1, <2>1 DEF IInv, RowsInOrder
<1>19. ASSUME NEW k \in Range(lines), k.variant = v PROVE k = l
  <2>1. \A i, j \in DOMAIN lines : lines[i].variant = lines[j].variant => i = j
    BY <1>18 DEF IsNormal
  <2>2. PICK i \in DOMAIN lines, j \in DOMAIN lines : k = lines[i] /\ l = lines[j]
    BY <1>5 DEF Range
  <2>3. i = j
    BY <1>2, <1>19, <2>1, <2>2
  <2>4. QED
    BY <2>2, <2>3
<1>20. TakenIsDone(n)
  <2>1. reservations[n.cmd.order].lines = lines
    BY <1>1, <1>15
  <2>2. ASSUME NEW k \in DoneLines(n) PROVE n.taken[k.variant] = k.quantity
    <3>1. CASE k = l
      BY <1>2, <1>10, <1>12, <3>1
    <3>2. CASE k # l
      <4>1. k \in DoneLines(t)
        BY <1>14, <3>2
      <4>2. k \in Range(lines)
        BY <2>1 DEF DoneLines
      <4>3. k.variant # v
        BY <1>19, <3>2, <4>2
      <4>4. k.variant \in Variants
        <5>1. k \in Lines
          BY <1>18, <4>2, UnitsOfLines
        <5>2. QED
          BY ONLY <5>1 DEF Lines
      <4>5. t.taken[k.variant] = k.quantity
        BY <1>17, <4>1 DEF TakenIsDone
      <4>6. QED
        BY <1>4, <1>10, <1>12, <4>3, <4>4, <4>5
    <3>3. QED
      BY <3>1, <3>2
  <2>3. ASSUME NEW u \in Variants, n.taken[u] # 0
        PROVE  \E k \in Range(lines) : k.variant = u
    <3>1. CASE u = v
      BY <1>2, <1>5, <3>1
    <3>2. CASE u # v
      <4>1. t.taken[u] # 0
        BY <1>4, <1>10, <1>12, <2>3, <3>2
      <4>2. QED
        BY <1>1, <1>17, <4>1 DEF TakenIsDone
    <3>3. QED
      BY <3>1, <3>2
  <2>4. QED
    BY <2>1, <2>2, <2>3 DEF TakenIsDone
<1>21. TxInv(n)
  BY <1>14, <1>15, <1>20 DEF TxInv
<1>22. \A x \in Workers \ {w} : n.held \cap txs[x].held = {}
  BY <1>4, <1>12
<1>23. QED
  BY <1>12, <1>13, <1>21, <1>22, Moves

(* An adjustment: the row as it was read, or as it will be inserted.       *)
LEMMA LockForAdjustKeepsIInv ==
  ASSUME IInv, NEW w \in Workers, txs[w].pc = "lock items", Granted(w),
         txs[w].cmd.kind = "adjust",
         LockForAdjust(w, Head(txs[w].todo).variant)
  PROVE  IInv'
<1>1. PICK t, v, next : /\ t = txs[w] /\ v = Head(txs[w].todo).variant
                        /\ next = IF stock[v].exists THEN "commit" ELSE "insert"
  OBVIOUS
<1>2. PICK m, row : m = Locked(w, next) /\ row = stock[v]
  OBVIOUS
<1>3. t \in Transactions /\ t.cmd \in CommandTypes /\ AdjustInv(t) /\ t.cmd.kind = "adjust"
  BY <1>1, KindOfPc, OneTransaction
<1>4. t.todo = <<Line(t.cmd.variant, 0)>>
  BY <1>1, <1>3 DEF AdjustInv
<1>5. v = t.cmd.variant /\ v \in Variants
  <2>1. PICK l : l = Line(t.cmd.variant, 0)
    OBVIOUS
  <2>2. Head(t.todo) = l
    BY <1>4, <2>1, OneLine
  <2>3. v = t.cmd.variant
    BY ONLY <1>1, <2>1, <2>2 DEF Line
  <2>4. QED
    BY <1>3, <2>3, CommandFields
<1>6. row \in Items
  BY <1>2, <1>5, ZenonT(60) DEF IInv, TypeOK
<1>7. Advanced(w, m, next)
  BY <1>1, <1>2, LockedAdvances
<1>8. /\ m \in Transactions /\ m.cmd = t.cmd
      /\ m.pc = IF m.todo = <<>> THEN next ELSE "lock items"
      /\ row.exists => ItemRow(v) \in m.held
      /\ \A x \in Workers \ {w} : m.held \cap txs[x].held = {}
  BY <1>1, <1>2, <1>7, Zenon DEF Advanced
<1>9. m.pc = next
  <2>1. PICK l, s : l = Line(t.cmd.variant, 0) /\ s = Tail(t.todo)
    OBVIOUS
  <2>2. Len(<<l>>) = 1
    OBVIOUS
  <2>3. Len(txs[w].todo) = 1
    BY <1>1, <1>4, <2>1, <2>2
  <2>4. t.pc \in Pcs /\ next \in Pcs
    BY <1>1, <1>3 DEF Transactions, Pcs
  <2>5. PICK h, pc : /\ h = txs[w].held \cup Wants(w)
                     /\ pc = IF Len(txs[w].todo) = 1 THEN next ELSE txs[w].pc
    OBVIOUS
  <2>6. m = [t EXCEPT !.todo = s, !.held = h, !.pc = pc]
    BY <1>1, <1>2, <2>1, <2>5 DEF Locked
  <2>7. m.pc = pc
    BY ONLY <1>3, <2>6 DEF Transactions
  <2>8. QED
    BY <2>3, <2>5, <2>7
<1>10. CASE Close(w)
  BY <1>10, CloseKeepsIInv
<1>11. CASE /\ Adjustable(t.cmd, v)
            /\ Goto(w, [m EXCEPT !.seen = row.onHand])
  <2>1. PICK n : n = [m EXCEPT !.seen = row.onHand]
    OBVIOUS
  <2>2. row.onHand \in 0..MaxStock
    BY <1>6 DEF Items
  <2>3. /\ n \in Transactions
        /\ n.cmd = m.cmd /\ n.pc = m.pc /\ n.held = m.held /\ n.seen = row.onHand
    BY ONLY <1>8, <2>1, <2>2 DEF Transactions
  <2>4. PICK a : a = Adjusted(t.cmd, row.onHand)
    OBVIOUS
  <2>5. /\ a \in Int /\ row.reserved \in Nat
        /\ a >= row.reserved /\ a <= MaxStock
    <3>1. a >= row.reserved /\ a <= MaxStock
      BY <1>2, <1>11, <2>4 DEF Adjustable
    <3>2. row.reserved \in Nat
      BY ONLY <1>6, QuantityAssumption DEF Items
    <3>3. t.cmd.mode \in {"SET", "INCREMENT", "DECREMENT"} /\ t.cmd.quantity \in 0..MaxStock
      BY <1>3, CommandFields
    <3>4. a \in Int
      BY ONLY <2>2, <2>4, <3>3, QuantityAssumption DEF Adjusted
    <3>5. QED
      BY ONLY <3>1, <3>2, <3>4
  <2>6. a \in row.reserved..MaxStock
    BY ONLY <2>5, QuantityAssumption
  <2>7. n.cmd.kind = "adjust"
    BY <1>3, <1>8, <2>3
  <2>8. ASSUME row.exists PROVE TxInv(n)
    <3>1. n.pc = "commit"
      BY <1>1, <1>2, <1>9, <2>3, <2>8
    <3>2. ItemRow(v) \in n.held
      BY <1>8, <2>3, <2>8
    <3>3. AdjustInv(n)
      BY ONLY <1>2, <1>5, <1>8, <2>3, <2>4, <2>6, <2>8, <3>1, <3>2 DEF AdjustInv
    <3>4. QED
      BY ONLY <2>7, <3>3 DEF TxInv
  <2>9. ASSUME ~row.exists PROVE TxInv(n)
    <3>1. n.pc = "insert"
      BY <1>1, <1>2, <1>9, <2>3, <2>9
    <3>2. row = NoRow
      BY <1>2, <1>5, <2>9 DEF IInv, RowsInOrder
    <3>3. row.onHand = 0 /\ row.reserved = 0
      BY <3>2 DEF NoRow
    <3>4. AdjustInv(n)
      BY ONLY <1>8, <2>3, <2>4, <2>6, <3>1, <3>3 DEF AdjustInv
    <3>5. QED
      BY ONLY <2>7, <3>4 DEF TxInv
  <2>10. TxInv(n)
    BY <2>8, <2>9
  <2>11. Goto(w, n)
    BY <1>11, <2>1
  <2>12. \A x \in Workers \ {w} : n.held \cap txs[x].held = {}
    BY <1>8, <2>3
  <2>13. QED
    BY <2>3, <2>10, <2>11, <2>12, Moves
<1>12. QED
  BY <1>1, <1>2, <1>10, <1>11, Zenon DEF LockForAdjust

LEMMA LockItemKeepsIInv ==
  ASSUME IInv, NEW w \in Workers, LockItem(w)
  PROVE  IInv'
<1>1. txs[w].pc = "lock items" /\ Granted(w)
  BY DEF LockItem
<1>2. CASE txs[w].cmd.kind = "reserve"
  BY <1>1, <1>2, LockForReserveKeepsIInv DEF LockItem
<1>3. CASE txs[w].cmd.kind = "confirm"
  BY <1>1, <1>3, LockForConfirmKeepsIInv DEF LockItem
<1>4. CASE txs[w].cmd.kind = "release"
  BY <1>1, <1>4, LockForReleaseKeepsIInv DEF LockItem
<1>5. CASE txs[w].cmd.kind = "adjust"
  BY <1>1, <1>5, LockForAdjustKeepsIInv DEF LockItem
<1>6. QED
  BY <1>2, <1>3, <1>4, <1>5 DEF LockItem

-----------------------------------------------------------------------------
(* INSERT                                                                  *)

LEMMA InsertKeepsIInv ==
  ASSUME IInv, NEW w \in Workers, Insert(w)
  PROVE  IInv'
<1>1. CASE Violates(txs[w].cmd)
  BY <1>1, CloseKeepsIInv DEF Insert
<1>2. CASE ~Violates(txs[w].cmd)
  <2>1. PICK t, c, h : t = txs[w] /\ c = txs[w].cmd /\ h = txs[w].held \cup Wants(w)
    OBVIOUS
  <2>2. PICK n : n = [t EXCEPT !.pc = "commit", !.held = h]
    OBVIOUS
  <2>3. t \in Transactions /\ t.pc = "insert" /\ Granted(w) /\ "commit" \in Pcs
    BY <2>1, OneTransaction DEF Insert, Pcs
  <2>4. /\ c \in CommandTypes /\ c.kind \in {"reserve", "adjust"}
        /\ c.kind = "reserve" => ReserveInv(t)
        /\ c.kind = "adjust" => AdjustInv(t)
    BY <2>1, <2>3, KindOfPc DEF SettleInv
  <2>5. h = t.held \cup UniqueKeys(c)
    BY <2>1, <2>3, WantedLocks
  <2>6. h \in SUBSET Locks
    <3>1. UniqueKeys(c) \subseteq Locks
      BY <2>4, CommandFields DEF UniqueKeys, Locks
    <3>2. t.held \in SUBSET Locks
      BY <2>3 DEF Transactions
    <3>3. QED
      BY ONLY <2>5, <3>1, <3>2
  <2>7. /\ n \in Transactions
        /\ n.pc = "commit" /\ n.cmd = c /\ n.todo = t.todo /\ n.held = h
        /\ n.short = t.short /\ n.seen = t.seen
    BY ONLY <2>1, <2>2, <2>3, <2>6 DEF Transactions
  <2>8. ASSUME c.kind = "reserve" PROVE TxInv(n)
    <3>1. reservations[c.order].status = "NONE"
      BY <1>2, <2>1, <2>4, <2>8, CommandFields DEF Violates, ExistingReservations
    <3>2. <<"order", c.order>> \in n.held
      BY <2>5, <2>7, <2>8 DEF UniqueKeys
    <3>3. \A l : Covered(t, l) => Covered(n, l)
      BY <2>5, <2>7 DEF Covered
    <3>4. /\ IsNormal(c.lines) /\ t.todo = <<>>
          /\ Range(t.todo) \subseteq Range(c.lines)
          /\ \A l \in Range(c.lines) \ Range(t.todo) : t.short \/ Covered(t, l)
      BY <2>1, <2>3, <2>4, <2>8 DEF ReserveInv
    <3>5. \A l \in Range(c.lines) \ Range(n.todo) : n.short \/ Covered(n, l)
      BY <2>7, <3>3, <3>4
    <3>6. ReserveInv(n)
      BY ONLY <2>7, <3>1, <3>2, <3>4, <3>5 DEF ReserveInv
    <3>7. QED
      <4>1. n.cmd.kind = "reserve"
        BY <2>7, <2>8
      <4>2. QED
        BY ONLY <3>6, <4>1 DEF TxInv
  <2>9. ASSUME c.kind = "adjust" PROVE TxInv(n)
    <3>1. ~stock[c.variant].exists
      BY <1>2, <2>1, <2>9 DEF Violates
    <3>2. <<"variant", c.variant>> \in n.held
      BY <2>5, <2>7, <2>9 DEF UniqueKeys
    <3>3. stock[c.variant] = NoRow
      BY <2>4, <2>9, <3>1, CommandFields DEF IInv, RowsInOrder
    <3>4. stock[c.variant].onHand = 0 /\ stock[c.variant].reserved = 0
      BY <3>3 DEF NoRow
    <3>5. t.seen = 0 /\ Adjusted(c, 0) \in 0..MaxStock
      BY <2>1, <2>3, <2>4, <2>9 DEF AdjustInv
    <3>6. AdjustInv(n)
      BY ONLY <2>7, <3>1, <3>2, <3>4, <3>5 DEF AdjustInv
    <3>7. QED
      <4>1. n.cmd.kind = "adjust"
        BY <2>7, <2>9
      <4>2. QED
        BY ONLY <3>6, <4>1 DEF TxInv
  <2>10. TxInv(n)
    BY <2>4, <2>8, <2>9
  <2>11. Goto(w, n)
    BY <1>2, <2>1, <2>2 DEF Insert
  <2>12. \A x \in Workers \ {w} : n.held \cap txs[x].held = {}
    BY <2>1, <2>3, <2>7, GrantedLocks
  <2>13. QED
    BY <2>7, <2>10, <2>11, <2>12, Moves
<1>3. QED
  BY <1>1, <1>2

-----------------------------------------------------------------------------
(* COMMIT                                                                  *)

(* What a COMMIT of w may do to the rows: it writes those it has locked,   *)
(* inserts those whose keys it has taken, and leaves the counters exact.   *)
Committed(w) ==
  /\ stock' \in [Variants -> Items]
  /\ \A v \in Variants :
       \/ stock'[v] = stock[v]
       \/ /\ stock'[v].exists
          /\ \/ stock[v].exists /\ ItemRow(v) \in txs[w].held
             \/ ~stock[v].exists /\ <<"variant", v>> \in txs[w].held
  /\ reservations' \in [Orders -> Reservations]
  /\ \A o \in Orders :
       \/ reservations'[o] = reservations[o]
       \/ /\ IsNormal(reservations'[o].lines)
          /\ \/ reservations[o].status = "PENDING" /\ ReservationRow(o) \in txs[w].held
             \/ reservations[o].status = "NONE" /\ <<"order", o>> \in txs[w].held
  /\ Counted'
  /\ WithinStock'

(* What another transaction knows of the rows stays true: it has locked    *)
(* them.                                                                   *)
LEMMA OthersKeepTxInv ==
  ASSUME IInv, NEW w \in Workers, Committed(w), NEW x \in Workers \ {w},
         NEW m, m = txs[x]
  PROVE  TxInv(m)'
<1>1. PICK h : h = txs[w].held
  OBVIOUS
<1>2. h \cap m.held = {} /\ m \in Transactions /\ TxInv(m)
  BY <1>1, OneTransaction
<1>3. ASSUME NEW v \in Variants, ItemRow(v) \in m.held, stock[v].exists
      PROVE  stock'[v] = stock[v]
  <2>1. ItemRow(v) \notin h
    BY <1>2, <1>3
  <2>2. QED
    BY <1>1, <1>3, <2>1 DEF Committed
<1>4. ASSUME NEW v \in Variants, <<"variant", v>> \in m.held, ~stock[v].exists
      PROVE  stock'[v] = stock[v]
  <2>1. <<"variant", v>> \notin h
    BY <1>2, <1>4
  <2>2. QED
    BY <1>1, <1>4, <2>1 DEF Committed
<1>5. ASSUME NEW o \in Orders, ReservationRow(o) \in m.held,
             reservations[o].status = "PENDING"
      PROVE  reservations'[o] = reservations[o]
  <2>1. ReservationRow(o) \notin h
    BY <1>2, <1>5
  <2>2. QED
    BY <1>1, <1>5, <2>1 DEF Committed
<1>6. ASSUME NEW o \in Orders, <<"order", o>> \in m.held,
             reservations[o].status = "NONE"
      PROVE  reservations'[o] = reservations[o]
  <2>1. <<"order", o>> \notin h
    BY <1>2, <1>6
  <2>2. QED
    BY <1>1, <1>6, <2>1 DEF Committed
<1>7. CASE m.pc = "idle"
  BY <1>7 DEF TxInv
<1>8. CASE m.pc # "idle" /\ m.cmd.kind = "reserve"
  <2>1. ReserveInv(m) /\ m.cmd \in CommandTypes
    BY <1>8, KindOfPc
  <2>2. m.cmd.order \in Orders
    BY <1>8, <2>1, CommandFields
  <2>3. IsNormal(m.cmd.lines)
    BY <2>1 DEF ReserveInv
  <2>4. ASSUME NEW l \in Range(m.cmd.lines) \ Range(m.todo)
        PROVE  m.short \/ Covered(m, l)'
    <3>1. m.short \/ Covered(m, l)
      BY <2>1 DEF ReserveInv
    <3>2. ASSUME Covered(m, l) PROVE Covered(m, l)'
      <4>1. l \in Lines
        BY <2>3, UnitsOfLines
      <4>2. l.variant \in Variants
        BY <4>1 DEF Lines
      <4>3. stock'[l.variant] = stock[l.variant]
        BY <1>3, <3>2, <4>2 DEF Covered
      <4>4. QED
        BY <3>2, <4>3 DEF Covered
    <3>3. QED
      BY <3>1, <3>2
  <2>5. m.pc = "commit" => /\ <<"order", m.cmd.order>> \in m.held
                           /\ reservations'[m.cmd.order].status = "NONE"
    BY <1>6, <2>1, <2>2 DEF ReserveInv
  <2>6. /\ m.pc \in {"find", "lock items", "insert", "commit"}
        /\ m.todo = <<>> <=> m.pc \in {"insert", "commit"}
        /\ Range(m.todo) \subseteq Range(m.cmd.lines)
    BY <2>1 DEF ReserveInv
  <2>7. ReserveInv(m)'
    BY ONLY <2>3, <2>4, <2>5, <2>6 DEF ReserveInv
  <2>8. QED
    BY <1>8, <2>7 DEF TxInv
<1>9. CASE m.pc # "idle" /\ m.cmd.kind \in {"confirm", "release"}
  <2>1. SettleInv(m) /\ m.cmd \in CommandTypes
    BY <1>9, KindOfPc
  <2>2. m.cmd.order \in Orders
    BY <1>9, <2>1, CommandFields
  <2>3. CASE m.pc = "lock reservation"
    <3>1. SettleInv(m)'
      BY ONLY <2>1, <2>3 DEF SettleInv
    <3>2. QED
      BY <1>9, <3>1 DEF TxInv
  <2>4. CASE m.pc # "lock reservation"
    <3>1. reservations'[m.cmd.order] = reservations[m.cmd.order]
      BY <1>5, <2>1, <2>2, <2>4 DEF SettleInv
    <3>2. SettleInv(m)'
      BY ONLY <2>1, <3>1 DEF SettleInv, DoneLines, TakenIsDone
    <3>3. QED
      BY <1>9, <3>2 DEF TxInv
  <2>5. QED
    BY <2>3, <2>4
<1>10. CASE m.pc # "idle" /\ m.cmd.kind = "adjust"
  <2>1. AdjustInv(m) /\ m.cmd \in CommandTypes
    BY <1>10, KindOfPc
  <2>2. m.cmd.variant \in Variants
    BY <1>10, <2>1, CommandFields
  <2>3. CASE m.pc # "commit"
    <3>1. AdjustInv(m)'
      BY ONLY <2>1, <2>3 DEF AdjustInv
    <3>2. QED
      BY <1>10, <3>1 DEF TxInv
  <2>4. CASE m.pc = "commit"
    <3>1. stock'[m.cmd.variant] = stock[m.cmd.variant]
      BY <1>3, <1>4, <2>1, <2>2, <2>4 DEF AdjustInv
    <3>2. AdjustInv(m)'
      BY ONLY <2>1, <3>1 DEF AdjustInv
    <3>3. QED
      BY <1>10, <3>2 DEF TxInv
  <2>5. QED
    BY <2>3, <2>4
<1>11. QED
  BY <1>2, <1>7, <1>8, <1>9, <1>10 DEF TxInv

LEMMA CommittedKeepsIInv ==
  ASSUME IInv, NEW w \in Workers, Committed(w), txs' = [txs EXCEPT ![w] = Idle]
  PROVE  IInv'
<1>1. /\ txs' \in [Workers -> Transactions]
      /\ txs'[w] = Idle
      /\ \A x \in Workers \ {w} : txs'[x] = txs[x]
  <2>1. txs \in [Workers -> Transactions]
    BY DEF IInv, TypeOK
  <2>2. QED
    BY <2>1, IdleIsIdle
<1>2. TypeOK'
  BY <1>1 DEF Committed, TypeOK
<1>3. RowsInOrder'
  <2>1. ASSUME NEW v \in Variants, ~stock'[v].exists PROVE stock'[v] = NoRow
    BY <2>1 DEF Committed, IInv, RowsInOrder
  <2>2. ASSUME NEW o \in Orders, reservations'[o].status # "NONE"
        PROVE  IsNormal(reservations'[o].lines)
    BY <2>2 DEF Committed, IInv, RowsInOrder
  <2>3. QED
    BY <2>1, <2>2 DEF RowsInOrder
<1>4. Exclusive'
  <2> SUFFICES ASSUME NEW x \in Workers, NEW y \in Workers, x # y
               PROVE  txs'[x].held \cap txs'[y].held = {}
    BY DEF Exclusive
  <2>1. txs[x].held \cap txs[y].held = {} /\ Idle.held = {}
    BY IdleIsIdle DEF IInv, Exclusive
  <2>2. QED
    BY <1>1, <2>1
<1>5. ASSUME NEW x \in Workers PROVE TxInv(txs[x])'
  <2>1. CASE x = w
    <3>1. txs'[x].pc = "idle"
      BY <1>1, <2>1, IdleIsIdle, SMTT(30)
    <3>2. QED
      BY <3>1 DEF TxInv
  <2>2. CASE x # w
    <3>1. PICK m : m = txs[x]
      OBVIOUS
    <3>2. TxInv(m)'
      BY <2>2, <3>1, OthersKeepTxInv
    <3>3. txs'[x] = m
      BY <1>1, <2>2, <3>1
    <3>4. QED
      BY <3>2, <3>3, ZenonT(60) DEF TxInv, ReserveInv, Covered, SettleInv, DoneLines,
                        TakenIsDone, AdjustInv
  <2>3. QED
    BY <2>1, <2>2
<1>6. QED
  BY <1>2, <1>3, <1>4, <1>5 DEF Committed, IInv

-----------------------------------------------------------------------------
(* The four kinds of COMMIT                                                *)

LEMMA NewReserved ==
  ASSUME NEW row \in Items, NEW r \in 0..MaxStock, NEW new,
         new = [row EXCEPT !.reserved = r]
  PROVE  /\ new \in Items
         /\ new.exists = row.exists /\ new.onHand = row.onHand /\ new.reserved = r
         /\ r = row.reserved => new = row
BY DEF Items

(* A row's columns are numbers.                                            *)
LEMMA ItemColumns ==
  ASSUME IInv, NEW v \in Variants
  PROVE  /\ stock[v] \in Items
         /\ stock[v].reserved \in 0..MaxStock
         /\ stock[v].onHand \in 0..MaxStock
         /\ stock[v].reserved <= stock[v].onHand
BY DEF IInv, TypeOK, Items, WithinStock

(* The reservation of a command is written.                                *)
Written(o, row) == /\ reservations' = [reservations EXCEPT ![o] = row]
                   /\ reservations[o].status # row.status

LEMMA WrittenRow ==
  ASSUME IInv, NEW o \in Orders, NEW row \in Reservations, Written(o, row)
  PROVE  /\ reservations' \in [Orders -> Reservations]
         /\ reservations'[o] = row
         /\ \A p \in Orders \ {o} : reservations'[p] = reservations[p]
<1>1. reservations \in [Orders -> Reservations]
  BY DEF IInv, TypeOK
<1>2. QED
  BY ONLY <1>1, o \in Orders, row \in Reservations, Written(o, row) DEF Written

(* A reserve that finds every line available.                              *)
LEMMA CommitReserveHeld ==
  ASSUME IInv, NEW w \in Workers, txs[w].pc = "commit",
         txs[w].cmd.kind = "reserve", ~txs[w].short, CommitReserve(txs[w]),
         NEW o, o = txs[w].cmd.order, NEW lines, lines = txs[w].cmd.lines,
         NEW q, q = Units(lines)
  PROVE  /\ Committed(w)
         /\ o \in Orders /\ reservations[o].status = "NONE"
         /\ IsNormal(lines)
         /\ \E k \in Keys : Written(o, [status |-> "PENDING", key |-> k, lines |-> lines])
         /\ \A v \in Variants : /\ stock'[v].onHand = stock[v].onHand
                                /\ stock[v].reserved + q[v] <= stock[v].onHand
<1>1. PICK t, k : t = txs[w] /\ k = txs[w].cmd.key
  OBVIOUS
<1>2. t.cmd \in CommandTypes /\ ReserveInv(t) /\ o \in Orders /\ k \in Keys
  BY <1>1, KindOfPc, CommandFields
<1>3. /\ IsNormal(lines) /\ t.todo = <<>>
      /\ \A l \in Range(lines) \ Range(t.todo) : t.short \/ Covered(t, l)
      /\ <<"order", o>> \in t.held
      /\ reservations[o].status = "NONE"
  BY <1>1, <1>2 DEF ReserveInv
<1>4. \A l \in Range(lines) : Covered(t, l)
  <2>1. Range(<<>>) = {}
    BY DEF Range
  <2>2. QED
    BY <1>1, <1>3, <2>1
<1>5. /\ q \in [Variants -> 0..MaxQuantity]
      /\ \A l \in Range(lines) : l \in Lines /\ q[l.variant] = l.quantity
      /\ \A v \in Variants : q[v] # 0 => \E l \in Range(lines) : l.variant = v
  BY <1>3, UnitsOfLines
<1>6. ASSUME NEW v \in Variants, q[v] # 0
      PROVE  /\ ItemRow(v) \in t.held
             /\ stock[v].exists
             /\ stock[v].reserved + q[v] <= stock[v].onHand
  BY <1>4, <1>5, <1>6 DEF Covered
<1>7. ASSUME NEW v \in Variants
      PROVE  /\ q[v] \in 0..MaxQuantity
             /\ stock[v].reserved + q[v] <= stock[v].onHand
             /\ stock[v].reserved + q[v] \in 0..MaxStock
             /\ q[v] = 0 => stock[v].reserved + q[v] = stock[v].reserved
  <2>1. PICK n, a, b : n = q[v] /\ a = stock[v].reserved /\ b = stock[v].onHand
    OBVIOUS
  <2>2. n \in 0..MaxQuantity /\ a \in 0..MaxStock /\ b \in 0..MaxStock /\ a <= b
    BY <1>5, <2>1, ItemColumns
  <2>3. n # 0 => a + n <= b
    BY <1>6, <2>1
  <2>4. a + n <= b /\ a + n \in 0..MaxStock /\ (n = 0 => a + n = a)
    BY ONLY <2>2, <2>3, QuantityAssumption
  <2>5. QED
    BY <2>1, <2>2, <2>4
<1>8. /\ stock' = [v \in Variants |-> [stock[v] EXCEPT !.reserved = @ + q[v]]]
      /\ reservations' = [reservations EXCEPT ![o] =
                            [status |-> "PENDING", key |-> k, lines |-> lines]]
  BY <1>1 DEF CommitReserve
<1>9. ASSUME NEW v \in Variants
      PROVE  /\ stock'[v] \in Items
             /\ stock'[v].exists = stock[v].exists
             /\ stock'[v].onHand = stock[v].onHand
             /\ stock'[v].reserved = stock[v].reserved + q[v]
             /\ q[v] = 0 => stock'[v] = stock[v]
  <2>1. PICK row, new, r : /\ row = stock[v] /\ new = stock'[v]
                           /\ r = stock[v].reserved + q[v]
    OBVIOUS
  <2>2. new = [row EXCEPT !.reserved = r]
    BY <1>8, <2>1
  <2>3. row \in Items /\ r \in 0..MaxStock
    BY <1>7, <2>1, ItemColumns
  <2>4. /\ new \in Items
        /\ new.exists = row.exists /\ new.onHand = row.onHand /\ new.reserved = r
        /\ r = row.reserved => new = row
    BY <2>2, <2>3, NewReserved
  <2>5. QED
    BY <1>7, <2>1, <2>4
<1>10. PICK row : row = [status |-> "PENDING", key |-> k, lines |-> lines]
  OBVIOUS
<1>11. /\ row \in Reservations
       /\ row.status = "PENDING" /\ row.lines = lines
  <2>1. lines \in Seq(Lines)
    BY <1>3 DEF IsNormal
  <2>2. QED
    BY ONLY <1>2, <1>10, <2>1 DEF Reservations, Statuses
<1>12. Written(o, row)
  BY <1>3, <1>8, <1>10, <1>11 DEF Written
<1>13. /\ reservations' \in [Orders -> Reservations]
       /\ reservations'[o] = row
       /\ \A p \in Orders \ {o} : reservations'[p] = reservations[p]
  BY <1>2, <1>11, <1>12, WrittenRow
<1>14. Counted'
  <2>1. ASSUME NEW v \in Variants
        PROVE  stock'[v].reserved = Cardinality(PendingUnits(v)')
    <3>1. PICK n : n = q[v]
      OBVIOUS
    <3>2. /\ n \in 0..MaxQuantity
          /\ n = Units(reservations'[o].lines)[v]
      BY <1>7, <1>11, <1>13, <3>1
    <3>3. Cardinality(PendingUnits(v)') = Cardinality(PendingUnits(v)) + n
      BY <1>2, <1>3, <1>11, <1>13, <3>2, BecomesPending
    <3>4. stock[v].reserved = Cardinality(PendingUnits(v))
      BY DEF IInv, Counted
    <3>5. QED
      BY <1>9, <3>1, <3>3, <3>4
  <2>2. QED
    BY <2>1 DEF Counted
<1>15. WithinStock'
  BY <1>7, <1>9 DEF WithinStock
<1>16. ASSUME NEW v \in Variants
       PROVE  \/ stock'[v] = stock[v]
              \/ /\ stock'[v].exists
                 /\ stock[v].exists /\ ItemRow(v) \in txs[w].held
  <2>1. CASE q[v] = 0
    BY <1>9, <2>1
  <2>2. CASE q[v] # 0
    BY <1>1, <1>6, <1>9, <2>2
  <2>3. QED
    BY <2>1, <2>2
<1>17. stock' \in [Variants -> Items]
  BY <1>8, <1>9
<1>18. ASSUME NEW p \in Orders
       PROVE  \/ reservations'[p] = reservations[p]
              \/ /\ IsNormal(reservations'[p].lines)
                 /\ reservations[p].status = "NONE" /\ <<"order", p>> \in txs[w].held
  BY <1>1, <1>3, <1>11, <1>13
<1>19. Committed(w)
  BY <1>13, <1>14, <1>15, <1>16, <1>17, <1>18 DEF Committed
<1>20. QED
  BY <1>2, <1>3, <1>7, <1>9, <1>10, <1>12, <1>19

(* A reserve that does not: a FAILED row, and the stock as it was.         *)
LEMMA CommitReserveFailed ==
  ASSUME IInv, NEW w \in Workers, txs[w].pc = "commit",
         txs[w].cmd.kind = "reserve", txs[w].short, CommitReserve(txs[w]),
         NEW o, o = txs[w].cmd.order, NEW lines, lines = txs[w].cmd.lines
  PROVE  /\ Committed(w)
         /\ o \in Orders /\ reservations[o].status = "NONE"
         /\ IsNormal(lines)
         /\ \E k \in Keys : Written(o, [status |-> "FAILED", key |-> k, lines |-> lines])
         /\ \A v \in Variants : stock'[v] = stock[v]
<1>1. PICK t, k : t = txs[w] /\ k = txs[w].cmd.key
  OBVIOUS
<1>2. t.cmd \in CommandTypes /\ ReserveInv(t) /\ o \in Orders /\ k \in Keys
  BY <1>1, KindOfPc, CommandFields
<1>3. /\ IsNormal(lines)
      /\ <<"order", o>> \in t.held
      /\ reservations[o].status = "NONE"
  BY <1>1, <1>2 DEF ReserveInv
<1>4. /\ stock' = [v \in Variants |-> [stock[v] EXCEPT !.reserved = @ + Nothing[v]]]
      /\ reservations' = [reservations EXCEPT ![o] =
                            [status |-> "FAILED", key |-> k, lines |-> lines]]
  BY <1>1 DEF CommitReserve
<1>5. ASSUME NEW v \in Variants PROVE stock'[v] = stock[v] /\ stock[v] \in Items
  <2>1. PICK row, new, r : /\ row = stock[v] /\ new = stock'[v]
                           /\ r = stock[v].reserved + Nothing[v]
    OBVIOUS
  <2>2. new = [row EXCEPT !.reserved = r]
    BY <1>4, <2>1
  <2>3. row \in Items /\ r \in 0..MaxStock /\ r = row.reserved
    BY <2>1, ItemColumns DEF Nothing
  <2>4. new = row
    BY <2>2, <2>3, NewReserved
  <2>5. QED
    BY <2>1, <2>3, <2>4
<1>6. PICK row : row = [status |-> "FAILED", key |-> k, lines |-> lines]
  OBVIOUS
<1>7. /\ row \in Reservations
      /\ row.status = "FAILED" /\ row.lines = lines
  <2>1. lines \in Seq(Lines)
    BY <1>3 DEF IsNormal
  <2>2. QED
    BY ONLY <1>2, <1>6, <2>1 DEF Reservations, Statuses
<1>8. Written(o, row)
  BY <1>3, <1>4, <1>6, <1>7 DEF Written
<1>9. /\ reservations' \in [Orders -> Reservations]
      /\ reservations'[o] = row
      /\ \A p \in Orders \ {o} : reservations'[p] = reservations[p]
  BY <1>2, <1>7, <1>8, WrittenRow
<1>10. Counted'
  <2>1. ASSUME NEW v \in Variants
        PROVE  stock'[v].reserved = Cardinality(PendingUnits(v)')
    <3>1. Cardinality(PendingUnits(v)') = Cardinality(PendingUnits(v))
      BY <1>2, <1>3, <1>7, <1>9, StaysUncounted
    <3>2. stock[v].reserved = Cardinality(PendingUnits(v))
      BY DEF IInv, Counted
    <3>3. QED
      BY <1>5, <3>1, <3>2
  <2>2. QED
    BY <2>1 DEF Counted
<1>11. WithinStock'
  BY <1>5 DEF WithinStock, IInv
<1>12. stock' \in [Variants -> Items]
  BY <1>4, <1>5
<1>13. ASSUME NEW p \in Orders
       PROVE  \/ reservations'[p] = reservations[p]
              \/ /\ IsNormal(reservations'[p].lines)
                 /\ reservations[p].status = "NONE" /\ <<"order", p>> \in txs[w].held
  BY <1>1, <1>3, <1>7, <1>9
<1>14. Committed(w)
  BY <1>5, <1>9, <1>10, <1>11, <1>12, <1>13 DEF Committed
<1>15. QED
  BY <1>2, <1>3, <1>5, <1>6, <1>8, <1>14

(* The reservation that a confirm or a release is about to settle.         *)
LEMMA SettledRow ==
  ASSUME IInv, NEW w \in Workers, txs[w].pc = "commit",
         txs[w].cmd.kind \in {"confirm", "release"},
         NEW o, o = txs[w].cmd.order, NEW lines, lines = reservations[o].lines,
         NEW q, q = Units(lines)
  PROVE  /\ o \in Orders /\ reservations[o].status = "PENDING"
         /\ IsNormal(lines)
         /\ ReservationRow(o) \in txs[w].held
         /\ \A v \in Variants :
              /\ q[v] \in 0..MaxQuantity
              /\ q[v] <= stock[v].reserved
              /\ q[v] # 0 => stock[v].exists /\ ItemRow(v) \in txs[w].held
         /\ txs[w].cmd.kind = "release" => \A v \in Variants : txs[w].taken[v] = q[v]
<1>1. PICK t : t = txs[w]
  OBVIOUS
<1>2. /\ SettleInv(t) /\ o \in Orders /\ t.cmd.order = o
      /\ t \in Transactions
  BY <1>1, KindOfPc, CommandFields, OneTransaction
<1>3. /\ ReservationRow(o) \in t.held
      /\ reservations[o].status = "PENDING"
      /\ t.todo = <<>>
      /\ \A l \in DoneLines(t) : ItemRow(l.variant) \in t.held
      /\ t.cmd.kind = "release" => TakenIsDone(t)
  BY <1>1, <1>2 DEF SettleInv
<1>4. DoneLines(t) = Range(lines)
  <2>1. Range(<<>>) = {}
    BY DEF Range
  <2>2. QED
    BY <1>2, <1>3, <2>1 DEF DoneLines
<1>5. IsNormal(lines)
  BY <1>2, <1>3, Zenon DEF IInv, RowsInOrder
<1>6. /\ q \in [Variants -> 0..MaxQuantity]
      /\ \A l \in Range(lines) : l \in Lines /\ q[l.variant] = l.quantity
      /\ \A v \in Variants : q[v] # 0 => \E l \in Range(lines) : l.variant = v
  BY <1>5, UnitsOfLines, Zenon
<1>7. ASSUME NEW v \in Variants
      PROVE  /\ q[v] \in 0..MaxQuantity
             /\ q[v] <= stock[v].reserved
             /\ q[v] # 0 => stock[v].exists /\ ItemRow(v) \in t.held
  <2>1. q[v] <= stock[v].reserved /\ q[v] \in 0..MaxQuantity
    BY <1>2, <1>3, <1>6, PendingIsReserved, Zenon
  <2>2. ASSUME q[v] # 0 PROVE stock[v].exists
    <3>1. PICK n, r : n = q[v] /\ r = stock[v].reserved
      OBVIOUS
    <3>2. r # 0
      BY ONLY <2>1, <2>2, <3>1, QuantityAssumption
    <3>3. NoRow.reserved = 0
      BY DEF NoRow
    <3>4. QED
      BY <3>1, <3>2, <3>3 DEF IInv, RowsInOrder
  <2>3. ASSUME q[v] # 0 PROVE ItemRow(v) \in t.held
    <3>1. PICK l \in Range(lines) : l.variant = v
      BY <1>6, <2>3, Zenon
    <3>2. ItemRow(l.variant) \in t.held
      BY <1>3, <1>4
    <3>3. QED
      BY <3>1, <3>2, Zenon
  <2>4. QED
    BY <2>1, <2>2, <2>3, Zenon
<1>8. ASSUME t.cmd.kind = "release", NEW v \in Variants
      PROVE  t.taken[v] = q[v]
  <2>1. TakenIsDone(t)
    BY <1>3, <1>8, Zenon
  <2>2. CASE q[v] # 0
    <3>1. PICK l \in Range(lines) : l.variant = v
      BY <1>6, <2>2
    <3>2. t.taken[v] = l.quantity
      BY <1>4, <2>1, <3>1 DEF TakenIsDone
    <3>3. QED
      BY <1>6, <3>1, <3>2, Zenon
  <2>3. CASE t.taken[v] # 0
    <3>1. PICK l \in Range(lines) : l.variant = v
      BY <1>2, <2>1, <2>3 DEF TakenIsDone
    <3>2. t.taken[v] = l.quantity
      BY <1>4, <2>1, <3>1 DEF TakenIsDone
    <3>3. QED
      BY <1>6, <3>1, <3>2
  <2>4. QED
    BY <2>2, <2>3
<1>9. QED
  BY <1>1, <1>2, <1>3, <1>5, <1>7, <1>8, Zenon

(* The row keeps its key and its lines in a new status.                    *)
LEMMA StatusWritten ==
  ASSUME IInv, NEW o \in Orders, NEW s \in {"CONFIRMED", "RELEASED"},
         reservations[o].status = "PENDING",
         reservations' = [reservations EXCEPT ![o].status = s]
  PROVE  /\ reservations' \in [Orders -> Reservations]
         /\ reservations'[o].status = s
         /\ reservations'[o].lines = reservations[o].lines
         /\ \A p \in Orders \ {o} : reservations'[p] = reservations[p]
<1>1. reservations \in [Orders -> Reservations]
  BY DEF IInv, TypeOK
<1>2. PICK row, new : row = reservations[o] /\ new = [row EXCEPT !.status = s]
  OBVIOUS
<1>3. /\ row \in Reservations /\ s \in Statuses
  BY <1>1, <1>2 DEF Statuses
<1>4. new \in Reservations /\ new.status = s /\ new.lines = row.lines
  BY ONLY <1>2, <1>3 DEF Reservations
<1>5. reservations' = [reservations EXCEPT ![o] = new]
  BY <1>2
<1>6. /\ reservations' \in [Orders -> Reservations]
      /\ reservations'[o] = new
      /\ \A p \in Orders \ {o} : reservations'[p] = reservations[p]
  BY ONLY <1>1, <1>4, <1>5, o \in Orders
<1>7. QED
  BY <1>2, <1>4, <1>6

LEMMA CommitConfirmCommitted ==
  ASSUME IInv, NEW w \in Workers, txs[w].pc = "commit",
         txs[w].cmd.kind = "confirm", CommitConfirm(txs[w]),
         NEW o, o = txs[w].cmd.order, NEW lines, lines = reservations[o].lines,
         NEW q, q = Units(lines)
  PROVE  /\ Committed(w)
         /\ o \in Orders /\ reservations[o].status = "PENDING"
         /\ reservations' \in [Orders -> Reservations]
         /\ reservations'[o].status = "CONFIRMED"
         /\ reservations'[o].lines = lines
         /\ \A p \in Orders \ {o} : reservations'[p] = reservations[p]
         /\ \A v \in Variants : stock'[v].onHand = stock[v].onHand - q[v]
<1>1. /\ o \in Orders /\ reservations[o].status = "PENDING"
      /\ IsNormal(lines)
      /\ ReservationRow(o) \in txs[w].held
      /\ \A v \in Variants :
           /\ q[v] \in 0..MaxQuantity
           /\ q[v] <= stock[v].reserved
           /\ q[v] # 0 => stock[v].exists /\ ItemRow(v) \in txs[w].held
  BY SettledRow
<1>2. /\ stock' = [v \in Variants |-> [stock[v] EXCEPT !.reserved = @ - q[v],
                                                       !.onHand   = @ - q[v]]]
      /\ reservations' = [reservations EXCEPT ![o].status = "CONFIRMED"]
  BY Zenon DEF CommitConfirm
<1>3. /\ reservations' \in [Orders -> Reservations]
      /\ reservations'[o].status = "CONFIRMED"
      /\ reservations'[o].lines = lines
      /\ \A p \in Orders \ {o} : reservations'[p] = reservations[p]
  BY <1>1, <1>2, StatusWritten, Zenon
<1>4. ASSUME NEW v \in Variants
      PROVE  /\ stock'[v] \in Items
             /\ stock'[v].exists = stock[v].exists
             /\ stock'[v].onHand = stock[v].onHand - q[v]
             /\ stock'[v].reserved = stock[v].reserved - q[v]
             /\ stock'[v].reserved <= stock'[v].onHand
             /\ q[v] = 0 => stock'[v] = stock[v]
  <2>1. PICK row, new, n : row = stock[v] /\ new = stock'[v] /\ n = q[v]
    OBVIOUS
  <2>2. PICK a, b, r, h : /\ a = row.reserved /\ b = row.onHand
                          /\ r = a - n /\ h = b - n
    OBVIOUS
  <2>3. /\ row \in Items /\ a \in 0..MaxStock /\ b \in 0..MaxStock /\ a <= b
        /\ n \in 0..MaxQuantity /\ n <= a
    BY <1>1, <2>1, <2>2, ItemColumns, Zenon
  <2>4. /\ r \in 0..MaxStock /\ h \in 0..MaxStock /\ r <= h
        /\ n = 0 => r = a /\ h = b
    BY ONLY <2>2, <2>3, QuantityAssumption
  <2>5. new = [row EXCEPT !.reserved = r, !.onHand = h]
    BY <1>2, <2>1, <2>2, Zenon
  <2>6. /\ new \in Items
        /\ new.exists = row.exists /\ new.onHand = h /\ new.reserved = r
        /\ r = row.reserved /\ h = row.onHand => new = row
    BY ONLY <2>3, <2>4, <2>5 DEF Items
  <2>7. QED
    BY ONLY <2>1, <2>2, <2>4, <2>6
<1>5. Counted'
  <2>1. ASSUME NEW v \in Variants
        PROVE  stock'[v].reserved = Cardinality(PendingUnits(v)')
    <3>1. PICK n : n = q[v]
      OBVIOUS
    <3>2. n \in 0..MaxQuantity /\ n = Units(reservations[o].lines)[v]
      BY <1>1, <3>1, Zenon
    <3>3. reservations'[o].status # "PENDING"
      BY <1>3
    <3>4. Cardinality(PendingUnits(v)') = Cardinality(PendingUnits(v)) - n
      BY <1>1, <1>3, <3>2, <3>3, LeavesPending, Zenon
    <3>5. stock[v].reserved = Cardinality(PendingUnits(v))
      BY SMTT(30) DEF IInv, Counted
    <3>6. QED
      BY <1>4, <3>1, <3>4, <3>5
  <2>2. QED
    BY <2>1 DEF Counted
<1>6. WithinStock'
  BY <1>4 DEF WithinStock
<1>7. stock' \in [Variants -> Items]
  BY <1>2, <1>4, Zenon
<1>8. ASSUME NEW v \in Variants
      PROVE  \/ stock'[v] = stock[v]
             \/ /\ stock'[v].exists
                /\ stock[v].exists /\ ItemRow(v) \in txs[w].held
  <2>1. CASE q[v] = 0
    BY <1>4, <2>1
  <2>2. CASE q[v] # 0
    BY <1>1, <1>4, <2>2, Zenon
  <2>3. QED
    BY <2>1, <2>2, SMTT(30)
<1>9. ASSUME NEW p \in Orders
      PROVE  \/ reservations'[p] = reservations[p]
             \/ /\ IsNormal(reservations'[p].lines)
                /\ reservations[p].status = "PENDING" /\ ReservationRow(p) \in txs[w].held
  BY <1>1, <1>3, Zenon
<1>10. Committed(w)
  BY <1>3, <1>5, <1>6, <1>7, <1>8, <1>9 DEF Committed
<1>11. QED
  BY <1>1, <1>3, <1>4, <1>10, ZenonT(60)

LEMMA CommitReleaseCommitted ==
  ASSUME IInv, NEW w \in Workers, txs[w].pc = "commit",
         txs[w].cmd.kind = "release", CommitRelease(txs[w]),
         NEW o, o = txs[w].cmd.order, NEW lines, lines = reservations[o].lines
  PROVE  /\ Committed(w)
         /\ o \in Orders /\ reservations[o].status = "PENDING"
         /\ reservations' \in [Orders -> Reservations]
         /\ reservations'[o].status = "RELEASED"
         /\ reservations'[o].lines = lines
         /\ \A p \in Orders \ {o} : reservations'[p] = reservations[p]
         /\ \A v \in Variants : stock'[v].onHand = stock[v].onHand
<1> DEFINE q == Units(lines)
<1>1. /\ o \in Orders /\ reservations[o].status = "PENDING"
      /\ IsNormal(lines)
      /\ ReservationRow(o) \in txs[w].held
      /\ \A v \in Variants :
           /\ q[v] \in 0..MaxQuantity
           /\ q[v] <= stock[v].reserved
           /\ q[v] # 0 => stock[v].exists /\ ItemRow(v) \in txs[w].held
      /\ \A v \in Variants : txs[w].taken[v] = q[v]
  BY SettledRow
<1>2. /\ stock' = [v \in Variants |-> [stock[v] EXCEPT !.reserved = @ - txs[w].taken[v]]]
      /\ reservations' = [reservations EXCEPT ![o].status = "RELEASED"]
  BY DEF CommitRelease
<1>3. /\ reservations' \in [Orders -> Reservations]
      /\ reservations'[o].status = "RELEASED"
      /\ reservations'[o].lines = lines
      /\ \A p \in Orders \ {o} : reservations'[p] = reservations[p]
  BY <1>1, <1>2, StatusWritten, Zenon
<1>4. ASSUME NEW v \in Variants
      PROVE  /\ stock'[v] \in Items
             /\ stock'[v].exists = stock[v].exists
             /\ stock'[v].onHand = stock[v].onHand
             /\ stock'[v].reserved = stock[v].reserved - q[v]
             /\ stock'[v].reserved <= stock'[v].onHand
             /\ q[v] = 0 => stock'[v] = stock[v]
  <2>1. PICK row, new, n : row = stock[v] /\ new = stock'[v] /\ n = q[v]
    OBVIOUS
  <2>2. PICK a, r : a = row.reserved /\ r = a - n
    OBVIOUS
  <2>3. /\ row \in Items /\ a \in 0..MaxStock /\ row.onHand \in 0..MaxStock
        /\ a <= row.onHand
        /\ n \in 0..MaxQuantity /\ n <= a
    BY <1>1, <2>1, <2>2, ItemColumns, Zenon
  <2>4. /\ r \in 0..MaxStock /\ r <= row.onHand
        /\ n = 0 => r = a
    BY ONLY <2>2, <2>3, QuantityAssumption
  <2>5. new = [row EXCEPT !.reserved = r]
    BY <1>1, <1>2, <2>1, <2>2, Zenon
  <2>6. /\ new \in Items
        /\ new.exists = row.exists /\ new.onHand = row.onHand /\ new.reserved = r
        /\ r = row.reserved => new = row
    BY <2>3, <2>4, <2>5, NewReserved
  <2>7. QED
    BY ONLY <2>1, <2>2, <2>4, <2>6
<1>5. Counted'
  <2>1. ASSUME NEW v \in Variants
        PROVE  stock'[v].reserved = Cardinality(PendingUnits(v)')
    <3>1. PICK n : n = q[v]
      BY SMTT(30)
    <3>2. n \in 0..MaxQuantity /\ n = Units(reservations[o].lines)[v]
      BY <1>1, <3>1
    <3>3. reservations'[o].status # "PENDING"
      BY <1>3
    <3>4. Cardinality(PendingUnits(v)') = Cardinality(PendingUnits(v)) - n
      BY <1>1, <1>3, <3>2, <3>3, LeavesPending, Zenon
    <3>5. stock[v].reserved = Cardinality(PendingUnits(v))
      BY DEF IInv, Counted
    <3>6. QED
      BY <1>4, <3>1, <3>4, <3>5
  <2>2. QED
    BY <2>1 DEF Counted
<1>6. WithinStock'
  BY <1>4 DEF WithinStock
<1>7. stock' \in [Variants -> Items]
  BY <1>2, <1>4
<1>8. ASSUME NEW v \in Variants
      PROVE  \/ stock'[v] = stock[v]
             \/ /\ stock'[v].exists
                /\ stock[v].exists /\ ItemRow(v) \in txs[w].held
  <2>1. CASE q[v] = 0
    BY <1>4, <2>1, Zenon
  <2>2. CASE q[v] # 0
    BY <1>1, <1>4, <2>2, ZenonT(60)
  <2>3. QED
    BY <2>1, <2>2
<1>9. ASSUME NEW p \in Orders
      PROVE  \/ reservations'[p] = reservations[p]
             \/ /\ IsNormal(reservations'[p].lines)
                /\ reservations[p].status = "PENDING" /\ ReservationRow(p) \in txs[w].held
  BY <1>1, <1>3
<1>10. Committed(w)
  BY <1>3, <1>5, <1>6, <1>7, <1>8, <1>9 DEF Committed
<1>11. QED
  BY <1>1, <1>3, <1>4, <1>10, Zenon

(* stock_on_hand as computed from the row that was locked, or from no row. *)
LEMMA CommitAdjustCommitted ==
  ASSUME IInv, NEW w \in Workers, txs[w].pc = "commit",
         txs[w].cmd.kind = "adjust", CommitAdjust(txs[w]),
         NEW v, v = txs[w].cmd.variant,
         NEW n, n = Adjusted(txs[w].cmd, txs[w].seen)
  PROVE  /\ Committed(w)
         /\ v \in Variants
         /\ n \in stock[v].reserved..MaxStock
         /\ UNCHANGED reservations
         /\ stock'[v].onHand = n
         /\ \A u \in Variants \ {v} : stock'[u] = stock[u]
<1>1. PICK t, row, new : /\ t = txs[w] /\ row = stock[v]
                         /\ new = [row EXCEPT !.exists = TRUE, !.onHand = n]
  OBVIOUS
<1>2. t.cmd \in CommandTypes /\ AdjustInv(t) /\ v \in Variants
  BY <1>1, KindOfPc, CommandFields
<1>3. /\ n \in row.reserved..MaxStock
      /\ \/ row.exists /\ ItemRow(v) \in t.held
         \/ ~row.exists /\ <<"variant", v>> \in t.held
  BY <1>1, <1>2 DEF AdjustInv
<1>4. row \in Items /\ row.reserved \in 0..MaxStock
  BY <1>1, <1>2, ItemColumns
<1>5. n \in 0..MaxStock /\ row.reserved <= n
  BY ONLY <1>3, <1>4, QuantityAssumption
<1>6. /\ new \in Items
      /\ new.exists = TRUE /\ new.onHand = n /\ new.reserved = row.reserved
  BY ONLY <1>1, <1>4, <1>5 DEF Items
<1>7. stock \in [Variants -> Items]
  BY DEF IInv, TypeOK
<1>8. stock' = [stock EXCEPT ![v] = new]
  BY <1>1 DEF CommitAdjust
<1>9. /\ stock' \in [Variants -> Items]
      /\ stock'[v] = new
      /\ \A u \in Variants \ {v} : stock'[u] = stock[u]
  BY ONLY <1>2, <1>6, <1>7, <1>8
<1>10. UNCHANGED reservations
  BY DEF CommitAdjust
<1>11. \A u \in Variants : stock'[u].reserved = stock[u].reserved
  BY <1>1, <1>6, <1>9
<1>12. Counted'
  <2>1. ASSUME NEW u \in Variants
        PROVE  PendingUnits(u)' = PendingUnits(u)
    BY <1>10 DEF PendingUnits
  <2>2. QED
    BY <1>11, <2>1 DEF IInv, Counted
<1>13. WithinStock'
  <2>1. ASSUME NEW u \in Variants PROVE stock'[u].reserved <= stock'[u].onHand
    <3>1. CASE u = v
      BY <1>5, <1>6, <1>9, <3>1
    <3>2. CASE u # v
      BY <1>9, <3>2 DEF IInv, WithinStock
    <3>3. QED
      BY <3>1, <3>2
  <2>2. QED
    BY <2>1 DEF WithinStock
<1>14. \A u \in Variants :
         \/ stock'[u] = stock[u]
         \/ /\ stock'[u].exists
            /\ \/ stock[u].exists /\ ItemRow(u) \in txs[w].held
               \/ ~stock[u].exists /\ <<"variant", u>> \in txs[w].held
  BY <1>1, <1>3, <1>6, <1>9, ZenonT(60)
<1>15. reservations' \in [Orders -> Reservations]
  BY <1>10 DEF IInv, TypeOK
<1>16. Committed(w)
  BY <1>9, <1>10, <1>12, <1>13, <1>14, <1>15 DEF Committed
<1>17. QED
  BY <1>1, <1>2, <1>3, <1>6, <1>9, <1>10, <1>16

LEMMA CommitKeepsIInv ==
  ASSUME IInv, NEW w \in Workers, Commit(w)
  PROVE  IInv'
<1>1. txs[w].pc = "commit" /\ txs' = [txs EXCEPT ![w] = Idle]
  BY DEF Commit
<1>2. CASE txs[w].cmd.kind = "reserve" /\ CommitReserve(txs[w])
  <2>1. Committed(w)
    BY <1>1, <1>2, CommitReserveHeld, CommitReserveFailed
  <2>2. QED
    BY <1>1, <2>1, CommittedKeepsIInv
<1>3. CASE txs[w].cmd.kind = "confirm" /\ CommitConfirm(txs[w])
  <2>1. Committed(w)
    BY <1>1, <1>3, CommitConfirmCommitted
  <2>2. QED
    BY <1>1, <2>1, CommittedKeepsIInv
<1>4. CASE txs[w].cmd.kind = "release" /\ CommitRelease(txs[w])
  <2>1. Committed(w)
    BY <1>1, <1>4, CommitReleaseCommitted
  <2>2. QED
    BY <1>1, <2>1, CommittedKeepsIInv
<1>5. CASE txs[w].cmd.kind = "adjust" /\ CommitAdjust(txs[w])
  <2>1. Committed(w)
    BY <1>1, <1>5, CommitAdjustCommitted
  <2>2. QED
    BY <1>1, <2>1, CommittedKeepsIInv
<1>6. QED
  BY <1>2, <1>3, <1>4, <1>5 DEF Commit

-----------------------------------------------------------------------------
(* The invariant, and what the counters say                                *)

LEMMA InitIInv == Init => IInv
<1> SUFFICES ASSUME Init PROVE IInv
  OBVIOUS
<1>1. /\ stock = [v \in Variants |-> NoRow]
      /\ reservations = [o \in Orders |-> NoReservation]
      /\ txs = [w \in Workers |-> Idle]
  BY DEF Init
<1>2. NoRow \in Items /\ NoRow.onHand = 0 /\ NoRow.reserved = 0
  BY DEF NoRow, Items
<1>3. /\ NoReservation \in Reservations
      /\ NoReservation.status = "NONE" /\ NoReservation.lines = <<>>
  <2>1. <<>> \in Seq(Lines)
    OBVIOUS
  <2>2. QED
    BY ONLY <2>1 DEF NoReservation, Reservations, Statuses
<1>4. TypeOK
  BY <1>1, <1>2, <1>3, IdleIsIdle DEF TypeOK
<1>5. RowsInOrder
  BY <1>1, <1>3 DEF RowsInOrder
<1>6. Exclusive
  BY <1>1, IdleIsIdle DEF Exclusive
<1>7. \A w \in Workers : TxInv(txs[w])
  BY <1>1, IdleIsIdle
<1>8. Counted
  <2>1. ASSUME NEW v \in Variants PROVE PendingUnits(v) = {}
    BY <1>1, <1>3 DEF PendingUnits
  <2>2. QED
    BY <1>1, <1>2, <2>1, FS_EmptySet DEF Counted
<1>9. WithinStock
  BY <1>1, <1>2 DEF WithinStock
<1>10. QED
  BY <1>4, <1>5, <1>6, <1>7, <1>8, <1>9 DEF IInv

LEMMA NextKeepsIInv == IInv /\ [Next]_vars => IInv'
<1> SUFFICES ASSUME IInv, [Next]_vars PROVE IInv'
  OBVIOUS
<1>1. ASSUME NEW w \in Workers, NEW c \in Commands, Begin(w, c) PROVE IInv'
  BY <1>1, BeginKeepsIInv
<1>2. ASSUME NEW w \in Workers, FindExistingReservation(w) PROVE IInv'
  BY <1>2, FindKeepsIInv
<1>3. ASSUME NEW w \in Workers, LockReservation(w) PROVE IInv'
  BY <1>3, LockReservationKeepsIInv
<1>4. ASSUME NEW w \in Workers, LockItem(w) PROVE IInv'
  BY <1>4, LockItemKeepsIInv
<1>5. ASSUME NEW w \in Workers, Insert(w) PROVE IInv'
  BY <1>5, InsertKeepsIInv
<1>6. ASSUME NEW w \in Workers, Commit(w) PROVE IInv'
  BY <1>6, CommitKeepsIInv
<1>7. ASSUME NEW w \in Workers, Rollback(w) PROVE IInv'
  BY <1>7, CloseKeepsIInv DEF Rollback
<1>8. CASE UNCHANGED vars
  <2>1. TypeOK' /\ RowsInOrder' /\ Exclusive' /\ Counted' /\ WithinStock'
    BY <1>8 DEF vars, IInv, TypeOK, RowsInOrder, Exclusive, Counted, PendingUnits, WithinStock
  <2>2. ASSUME NEW x \in Workers PROVE TxInv(txs[x])'
    <3>1. PICK m : m = txs[x]
      OBVIOUS
    <3>2. TxInv(m)'
      BY <1>8, <3>1, InvOfSameRows DEF vars, IInv
    <3>3. txs'[x] = m
      BY <1>8, <3>1 DEF vars
    <3>4. QED
      BY <3>2, <3>3, ZenonT(60) DEF TxInv, ReserveInv, Covered, SettleInv, DoneLines,
                        TakenIsDone, AdjustInv
  <2>3. QED
    BY <2>1, <2>2 DEF IInv
<1>9. QED
  BY <1>1, <1>2, <1>3, <1>4, <1>5, <1>6, <1>7, <1>8 DEF Next, Proceed

(* The locks keep what the transactions read true until their COMMIT.      *)
THEOREM LocksAlways == Spec => []IInv
<1>1. QED
  BY InitIInv, NextKeepsIInv, PTL DEF Spec

(* Pool's units are those of the PENDING rows.                             *)
LEMMA HeldIsPending ==
  ASSUME TypeOK, NEW v \in Variants
  PROVE  Pool!Held(v) = PendingUnits(v)
<1>1. ASSUME NEW o \in Orders
      PROVE  ClaimState(reservations[o].status) = "held"
               <=> reservations[o].status = "PENDING"
  BY DEF TypeOK, Reservations, Statuses, ClaimState
<1>2. QED
  BY <1>1 DEF Pool!Held, PendingUnits

(* reserved_stock is exact and covered by the stock on hand in every       *)
(* committed state, however many transactions run and however they         *)
(* interleave, fail or repeat.                                             *)
THEOREM CounterAlwaysExact == Spec => []CounterIsExact
<1>1. IInv => CounterIsExact
  <2> SUFFICES ASSUME IInv, NEW v \in Variants
               PROVE  /\ stock[v].reserved = Cardinality(Pool!Held(v))
                      /\ stock[v].reserved <= stock[v].onHand
    BY DEF CounterIsExact
  <2>1. Pool!Held(v) = PendingUnits(v)
    BY HeldIsPending DEF IInv
  <2>2. QED
    BY <2>1 DEF IInv, Counted, WithinStock
<1>2. QED
  BY <1>1, LocksAlways, PTL

-----------------------------------------------------------------------------
(* InventoryTx implements StockPool                                        *)

(* StockPool's variables, in this module's.                                *)
OnHand == [v \in Variants |-> stock[v].onHand]
Claims == [o \in Orders |-> [state |-> ClaimState(reservations[o].status),
                             items |-> Units(reservations[o].lines)]]

(* StockPool counts with its own instance of FiniteSets.                   *)
LEMMA PoolCardinality ==
  ASSUME NEW S
  PROVE  Pool!Cardinality(S) = Cardinality(S)
BY DEF Pool!Cardinality, Cardinality

LEMMA InitPool == Init => Pool!Init
<1> SUFFICES ASSUME Init PROVE Pool!Init
  OBVIOUS
<1>1. \A v \in Variants : stock[v].onHand = 0
  BY DEF Init, NoRow
<1>2. \A o \in Orders : /\ ClaimState(reservations[o].status) = "none"
                        /\ Units(reservations[o].lines) = [v \in Variants |-> 0]
  BY UnitsOfNoLines DEF Init, NoReservation, ClaimState, Nothing
<1>3. QED
  BY <1>1, <1>2 DEF Pool!Init

(* A reservation is written in a new state, its lines those of `lines`.    *)
LEMMA ClaimWritten ==
  ASSUME NEW o \in Orders, NEW row, row = reservations'[o],
         \A p \in Orders \ {o} : reservations'[p] = reservations[p]
  PROVE  Claims' = [Claims EXCEPT ![o] = [state |-> ClaimState(row.status),
                                          items |-> Units(row.lines)]]
<1>1. PICK new : new = [state |-> ClaimState(row.status), items |-> Units(row.lines)]
  OBVIOUS
<1>2. Claims' = [p \in Orders |-> [state |-> ClaimState(reservations'[p].status),
                                   items |-> Units(reservations'[p].lines)]]
  BY DEF Claims
<1>3. \A p \in Orders : Claims'[p] = IF p = o THEN new ELSE Claims[p]
  BY <1>1, <1>2 DEF Claims
<1>4. DOMAIN Claims = Orders
  BY DEF Claims
<1>5. [Claims EXCEPT ![o] = new] = [p \in Orders |-> IF p = o THEN new ELSE Claims[p]]
  BY <1>4
<1>6. Claims' = [p \in Orders |-> IF p = o THEN new ELSE Claims[p]]
  BY <1>2, <1>3
<1>7. QED
  BY <1>1, <1>5, <1>6

LEMMA OnHandKept ==
  ASSUME \A v \in Variants : stock'[v].onHand = stock[v].onHand
  PROVE  OnHand' = OnHand
BY DEF OnHand

(* The COMMIT of a reserve claims or refuses the order's units.            *)
LEMMA ReserveImplements ==
  ASSUME IInv, NEW w \in Workers, txs[w].pc = "commit",
         txs[w].cmd.kind = "reserve", CommitReserve(txs[w])
  PROVE  \E o \in Orders, q \in Pool!Quantities : Pool!Claim(o, q) \/ Pool!Refuse(o, q)
<1>1. PICK o, lines : o = txs[w].cmd.order /\ lines = txs[w].cmd.lines
  OBVIOUS
<1>2. PICK q : q = Units(lines)
  OBVIOUS
<1>3. CASE ~txs[w].short
  <2>1. /\ o \in Orders /\ reservations[o].status = "NONE"
        /\ IsNormal(lines)
        /\ \E k \in Keys : Written(o, [status |-> "PENDING", key |-> k, lines |-> lines])
        /\ \A v \in Variants : /\ stock'[v].onHand = stock[v].onHand
                               /\ stock[v].reserved + q[v] <= stock[v].onHand
    BY <1>1, <1>2, <1>3, CommitReserveHeld
  <2>2. q \in [Variants -> 0..MaxQuantity]
    BY <1>2, <2>1, UnitsOfLines
  <2>3. PICK row : /\ row.status = "PENDING" /\ row.lines = lines
                   /\ Written(o, row)
    BY <2>1
  <2>4. reservations \in [Orders -> Reservations]
    BY DEF IInv, TypeOK
  <2>5. /\ reservations'[o] = row
        /\ \A p \in Orders \ {o} : reservations'[p] = reservations[p]
    BY <2>1, <2>3, <2>4 DEF Written
  <2>6. Claims' = [Claims EXCEPT ![o] = [state |-> "held", items |-> q]]
    <3>1. ClaimState(row.status) = "held" /\ Units(row.lines) = q
      BY <1>2, <2>3 DEF ClaimState
    <3>2. Claims' = [Claims EXCEPT ![o] = [state |-> ClaimState(row.status),
                                           items |-> Units(row.lines)]]
      BY <2>1, <2>5, ClaimWritten
    <3>3. QED
      BY <3>1, <3>2
  <2>7. OnHand' = OnHand
    BY <2>1, OnHandKept
  <2>8. Claims[o].state = "none"
    BY <2>1 DEF Claims, ClaimState
  <2>9. ASSUME NEW v \in Variants
        PROVE  Pool!Cardinality(Pool!Held(v)) + q[v] <= OnHand[v]
    <3>1. Pool!Cardinality(Pool!Held(v)) = stock[v].reserved
      BY HeldIsPending, PoolCardinality DEF IInv, Counted
    <3>2. QED
      BY <2>1, <3>1 DEF OnHand
  <2>10. Pool!Claim(o, q)
    BY ONLY <2>6, <2>7, <2>8, <2>9 DEF Pool!Claim, Claims, OnHand
  <2>11. q \in Pool!Quantities
    BY <2>2 DEF Pool!Quantities
  <2>12. QED
    BY <2>1, <2>10, <2>11
<1>4. CASE txs[w].short
  <2>1. /\ o \in Orders /\ reservations[o].status = "NONE"
        /\ IsNormal(lines)
        /\ \E k \in Keys : Written(o, [status |-> "FAILED", key |-> k, lines |-> lines])
        /\ \A v \in Variants : stock'[v] = stock[v]
    BY <1>1, <1>4, CommitReserveFailed
  <2>2. q \in [Variants -> 0..MaxQuantity]
    BY <1>2, <2>1, UnitsOfLines
  <2>3. PICK row : /\ row.status = "FAILED" /\ row.lines = lines
                   /\ Written(o, row)
    BY <2>1
  <2>4. reservations \in [Orders -> Reservations]
    BY DEF IInv, TypeOK
  <2>5. /\ reservations'[o] = row
        /\ \A p \in Orders \ {o} : reservations'[p] = reservations[p]
    BY <2>1, <2>3, <2>4 DEF Written
  <2>6. Claims' = [Claims EXCEPT ![o] = [state |-> "refused", items |-> q]]
    <3>1. ClaimState(row.status) = "refused" /\ Units(row.lines) = q
      BY <1>2, <2>3 DEF ClaimState
    <3>2. Claims' = [Claims EXCEPT ![o] = [state |-> ClaimState(row.status),
                                           items |-> Units(row.lines)]]
      BY <2>1, <2>5, ClaimWritten
    <3>3. QED
      BY <3>1, <3>2
  <2>7. OnHand' = OnHand
    BY <2>1, OnHandKept
  <2>8. Claims[o].state = "none"
    BY <2>1 DEF Claims, ClaimState
  <2>9. Pool!Refuse(o, q)
    BY ONLY <2>6, <2>7, <2>8 DEF Pool!Refuse, Claims, OnHand
  <2>10. q \in Pool!Quantities
    BY <2>2 DEF Pool!Quantities
  <2>11. QED
    BY <2>1, <2>9, <2>10
<1>5. QED
  BY <1>3, <1>4

(* A claim changes its state and keeps its units.                          *)
LEMMA ClaimSettled ==
  ASSUME NEW o \in Orders, NEW s,
         ClaimState(reservations'[o].status) = s,
         reservations'[o].lines = reservations[o].lines,
         \A p \in Orders \ {o} : reservations'[p] = reservations[p]
  PROVE  Claims' = [Claims EXCEPT ![o].state = s]
<1>1. PICK row : row = reservations'[o]
  OBVIOUS
<1>2. Claims' = [Claims EXCEPT ![o] = [state |-> ClaimState(row.status),
                                       items |-> Units(row.lines)]]
  BY <1>1, ClaimWritten
<1>3. /\ Claims[o] = [state |-> ClaimState(reservations[o].status),
                      items |-> Units(reservations[o].lines)]
  BY DEF Claims
<1>4. [Claims[o] EXCEPT !.state = s] = [state |-> s, items |-> Units(row.lines)]
  BY <1>1, <1>3
<1>5. Claims' = [Claims EXCEPT ![o] = [Claims[o] EXCEPT !.state = s]]
  BY <1>1, <1>2, <1>4
<1>6. QED
  BY <1>5

LEMMA ConfirmImplements ==
  ASSUME IInv, NEW w \in Workers, txs[w].pc = "commit",
         txs[w].cmd.kind = "confirm", CommitConfirm(txs[w])
  PROVE  \E o \in Orders : Pool!Sell(o)
<1>1. PICK o, lines : o = txs[w].cmd.order /\ lines = reservations[o].lines
  OBVIOUS
<1>2. PICK q : q = Units(lines)
  OBVIOUS
<1>3. /\ o \in Orders /\ reservations[o].status = "PENDING"
      /\ reservations'[o].status = "CONFIRMED"
      /\ reservations'[o].lines = lines
      /\ \A p \in Orders \ {o} : reservations'[p] = reservations[p]
      /\ \A v \in Variants : stock'[v].onHand = stock[v].onHand - q[v]
  BY <1>1, <1>2, CommitConfirmCommitted
<1>4. Claims' = [Claims EXCEPT ![o].state = "sold"]
  <2>1. ClaimState(reservations'[o].status) = "sold"
    BY <1>3 DEF ClaimState
  <2>2. reservations'[o].lines = reservations[o].lines
    BY <1>1, <1>3, ZenonT(60)
  <2>3. QED
    BY <1>3, <2>1, <2>2, ClaimSettled
<1>5. Claims[o].state = "held" /\ Claims[o].items = q
  BY <1>1, <1>2, <1>3 DEF Claims, ClaimState
<1>6. OnHand' = [v \in Variants |-> OnHand[v] - Claims[o].items[v]]
  BY <1>3, <1>5 DEF OnHand
<1>7. Pool!Sell(o)
  BY ONLY <1>4, <1>5, <1>6 DEF Pool!Sell, Claims, OnHand
<1>8. QED
  BY <1>3, <1>7

LEMMA ReleaseImplements ==
  ASSUME IInv, NEW w \in Workers, txs[w].pc = "commit",
         txs[w].cmd.kind = "release", CommitRelease(txs[w])
  PROVE  \E o \in Orders : Pool!GiveBack(o)
<1>1. PICK o, lines : o = txs[w].cmd.order /\ lines = reservations[o].lines
  OBVIOUS
<1>2. /\ o \in Orders /\ reservations[o].status = "PENDING"
      /\ reservations'[o].status = "RELEASED"
      /\ reservations'[o].lines = lines
      /\ \A p \in Orders \ {o} : reservations'[p] = reservations[p]
      /\ \A v \in Variants : stock'[v].onHand = stock[v].onHand
  BY <1>1, CommitReleaseCommitted
<1>3. Claims' = [Claims EXCEPT ![o].state = "returned"]
  <2>1. ClaimState(reservations'[o].status) = "returned"
    BY <1>2 DEF ClaimState
  <2>2. reservations'[o].lines = reservations[o].lines
    BY <1>1, <1>2
  <2>3. QED
    BY <1>2, <2>1, <2>2, ClaimSettled
<1>4. Claims[o].state = "held"
  BY <1>2 DEF Claims, ClaimState
<1>5. OnHand' = OnHand
  BY <1>2, OnHandKept
<1>6. Pool!GiveBack(o)
  BY ONLY <1>3, <1>4, <1>5 DEF Pool!GiveBack, Claims, OnHand
<1>7. QED
  BY <1>2, <1>6

LEMMA AdjustImplements ==
  ASSUME IInv, NEW w \in Workers, txs[w].pc = "commit",
         txs[w].cmd.kind = "adjust", CommitAdjust(txs[w])
  PROVE  \E v \in Variants, n \in 0..MaxStock : Pool!Restock(v, n)
<1>1. PICK v, n : v = txs[w].cmd.variant /\ n = Adjusted(txs[w].cmd, txs[w].seen)
  OBVIOUS
<1>2. /\ v \in Variants
      /\ n \in stock[v].reserved..MaxStock
      /\ UNCHANGED reservations
      /\ stock'[v].onHand = n
      /\ \A u \in Variants \ {v} : stock'[u] = stock[u]
  BY <1>1, CommitAdjustCommitted
<1>3. OnHand' = [OnHand EXCEPT ![v] = n]
  <2>1. OnHand' = [u \in Variants |-> stock'[u].onHand]
    BY DEF OnHand
  <2>2. \A u \in Variants : OnHand'[u] = IF u = v THEN n ELSE OnHand[u]
    BY <1>2, <2>1 DEF OnHand
  <2>3. DOMAIN OnHand = Variants
    BY DEF OnHand
  <2>4. QED
    BY <2>1, <2>2, <2>3
<1>4. Claims' = Claims
  BY <1>2 DEF Claims
<1>5. stock[v].reserved \in 0..MaxStock
  BY <1>2, ItemColumns
<1>6. Pool!Cardinality(Pool!Held(v)) = stock[v].reserved
  BY <1>2, HeldIsPending, PoolCardinality DEF IInv, Counted
<1>7. n \in 0..MaxStock /\ n >= stock[v].reserved
  BY ONLY <1>2, <1>5, QuantityAssumption
<1>8. Pool!Restock(v, n)
  BY ONLY <1>3, <1>4, <1>6, <1>7 DEF Pool!Restock, Claims, OnHand
<1>9. QED
  BY <1>2, <1>7, <1>8

LEMMA StepPool == IInv /\ [Next]_vars => [Pool!Next]_(Pool!vars)
<1> SUFFICES ASSUME IInv, [Next]_vars PROVE Pool!Next \/ UNCHANGED Pool!vars
  OBVIOUS
<1>1. CASE UNCHANGED <<stock, reservations>>
  BY <1>1 DEF Pool!vars
<1>2. ASSUME NEW w \in Workers, Commit(w) PROVE Pool!Next
  BY <1>2, ReserveImplements, ConfirmImplements, ReleaseImplements, AdjustImplements
     DEF Commit, Pool!Next
<1>3. ASSUME NEW w \in Workers, \/ \E c \in Commands : Begin(w, c)
                                \/ FindExistingReservation(w) \/ LockReservation(w)
                                \/ LockItem(w) \/ Insert(w) \/ Rollback(w)
      PROVE  UNCHANGED <<stock, reservations>>
  BY <1>3, Zenon DEF Begin, FindExistingReservation, LockReservation, LockItem, Insert,
              Rollback, Close, Goto, LockForReserve, LockForConfirm, LockForRelease,
              LockForAdjust
<1>4. QED
  BY <1>1, <1>2, <1>3 DEF Next, Proceed, vars

(* Every behaviour of the interleaved statements is, seen through the      *)
(* committed rows, a behaviour of StockPool: an order's lines are claimed  *)
(* all at once or not at all, stock that is claimed is not claimed again,  *)
(* and a claim is settled once.                                            *)
THEOREM TransactionsImplementPool == Spec => ImplementsPool
<1>1. Spec => Pool!Init /\ [][Pool!Next]_(Pool!vars)
  BY InitPool, StepPool, LocksAlways, PTL DEF Spec
<1>2. QED
  BY <1>1 DEF ImplementsPool, Pool!Spec
=============================================================================
