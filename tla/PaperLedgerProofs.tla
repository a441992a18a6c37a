--------------------------- MODULE PaperLedgerProofs ---------------------------
(***************************************************************************)
(* Proofs about PaperLedger: its types, what is reserved, that cash covers *)
(* it, and that it implements CashAccount, for any agents, prices, fees,   *)
(* sizes of any sign and number of orders.                                 *)
(***************************************************************************)
EXTENDS PaperLedger, TallyTheorems, FiniteSetTheorems

\* What execute_limit_order wrote into a row that is still pending.
PendingRows ==
    \A o \in OrderIds : orders[o].status = "pending" =>
        /\ orders[o].size \in Sizes
        /\ orders[o].held = orders[o].size + MakerFee[orders[o].size]
        /\ sound[orders[o].owner] => orders[o].size >= 0

\* The inductive invariant: the types need PendingRows (a fee is looked up for
\* the size of the row), the reservations need the exact sum of what is held.
LedgerInv == TypeOK /\ PendingRows /\ ReservationsMatchOrders /\ CashCoversReservations

-------------------------------------------------------------------------------
(* Lemmas *)

\* Fees are integers; of an amount that is not negative they are between zero
\* and the amount.
LEMMA FeeTypes ==
    ASSUME NEW v \in Sizes \cup Values
    PROVE  /\ v \in Int /\ TakerFee[v] \in Int /\ MakerFee[v] \in Int
           /\ v >= 0 => /\ TakerFee[v] >= 0 /\ TakerFee[v] <= v
                        /\ MakerFee[v] >= 0 /\ MakerFee[v] <= v
BY LedgerAssumption

\* What the history does when it notes the amount n of agent a.
LEMMA NoteType ==
    ASSUME TypeOK, NEW a \in Agents, NEW n \in Int, Note(a, n)
    PROVE  /\ sound' \in [Agents -> BOOLEAN]
           /\ \A b \in Agents : sound'[b] => sound[b]
           /\ sound'[a] => n >= 0
           /\ sound' = sound \/ sound' = [sound EXCEPT ![a] = FALSE]
<1>1. CASE n < 0
    BY <1>1 DEF Note, TypeOK
<1>2. CASE ~(n < 0)
    BY <1>2 DEF Note, TypeOK
<1> QED
    BY <1>1, <1>2

\* The table ids and what an agent's pending orders hold.
LEMMA HoldType ==
    ASSUME TypeOK, NEW a \in Agents
    PROVE  HoldOf(a) \in [1..MaxOrders -> Int]
<1>1. \A o \in OrderIds : orders[o].held \in Int
    BY DEF TypeOK, Order
<1> QED
    BY <1>1 DEF HoldOf, OrderIds

\* A pending order of a sound agent holds no negative amount.
LEMMA SoundHolds ==
    ASSUME TypeOK, PendingRows, NEW a \in Agents, sound[a]
    PROVE  HoldOf(a) \in [1..MaxOrders -> Nat]
<1>1. ASSUME NEW o \in PendingOf(a) PROVE orders[o].held \in Nat
    <2>1. /\ orders[o].owner = a /\ o \in OrderIds /\ orders[o].size \in Sizes
          /\ orders[o].held = orders[o].size + MakerFee[orders[o].size]
          /\ orders[o].size >= 0
        BY DEF PendingRows, PendingOf
    <2> QED
        BY <2>1, FeeTypes
<1> QED
    BY <1>1 DEF HoldOf, OrderIds

\* The amount reserved is at least what any one pending order holds.
LEMMA HeldIsReserved ==
    ASSUME LedgerInv, NEW o \in OrderIds, orders[o].status = "pending",
           NEW a \in Agents, a = orders[o].owner, sound[a]
    PROVE  /\ HoldOf(a)[o] = orders[o].held
           /\ orders[o].held \in Nat
           /\ orders[o].held <= reserved[a]
           /\ MaxZero(reserved[a] - orders[o].held) = reserved[a] - orders[o].held
<1>1. reserved[a] \in Int /\ MaxOrders \in Nat /\ o \in 1..MaxOrders
    BY LedgerAssumption DEF LedgerInv, TypeOK, OrderIds
<1>2. HoldOf(a)[o] = orders[o].held
    BY DEF HoldOf, PendingOf
<1>3. HoldOf(a) \in [1..MaxOrders -> Nat]
    BY SoundHolds DEF LedgerInv
<1>4. HoldOf(a)[o] <= reserved[a]
    BY <1>1, <1>3, TallyAtLeast DEF LedgerInv, ReservationsMatchOrders
<1>5. orders[o].held \in Nat /\ orders[o].held <= reserved[a]
    BY <1>1, <1>2, <1>3, <1>4
<1>6. MaxZero(reserved[a] - orders[o].held) = reserved[a] - orders[o].held
    BY <1>1, <1>5 DEF MaxZero
<1> QED
    BY <1>2, <1>5, <1>6

\* A step that touches only row o, of which a is or becomes the owner, leaves
\* every other agent's holds alone and moves the sum of a's by o's change.
LEMMA HoldChange ==
    ASSUME TypeOK, TypeOK', NEW o \in OrderIds, NEW a \in Agents,
           \A i \in OrderIds : i # o => orders'[i] = orders[i],
           orders[o].status = "pending" => orders[o].owner = a,
           orders'[o].owner = a
    PROVE  /\ \A b \in Agents : b # a => HoldOf(b)' = HoldOf(b)
           /\ Tally(HoldOf(a)', MaxOrders)
              = Tally(HoldOf(a), MaxOrders) + (HoldOf(a)'[o] - HoldOf(a)[o])
<1>1. \A b \in Agents, i \in OrderIds : i # o => HoldOf(b)'[i] = HoldOf(b)[i]
    BY DEF HoldOf, PendingOf
<1>2. ASSUME NEW b \in Agents, b # a PROVE HoldOf(b)' = HoldOf(b)
    <2>1. HoldOf(b)'[o] = 0 /\ HoldOf(b)[o] = 0
        BY <1>2 DEF HoldOf, PendingOf
    <2>2. \A i \in OrderIds : HoldOf(b)'[i] = HoldOf(b)[i]
        BY <1>1, <2>1
    <2> QED
        BY <2>2 DEF HoldOf
<1>3. HoldOf(a) \in [1..MaxOrders -> Int]
    BY HoldType
<1>4. HoldOf(a)' \in [1..MaxOrders -> Int]
    <2>1. \A i \in OrderIds : orders'[i].held \in Int
        BY DEF TypeOK, Order
    <2> QED
        BY <2>1 DEF HoldOf, OrderIds
<1>5. MaxOrders \in Nat /\ o \in 1..MaxOrders /\ OrderIds = 1..MaxOrders
    BY LedgerAssumption DEF OrderIds
<1>6. \A i \in 1..MaxOrders : i # o => HoldOf(a)'[i] = HoldOf(a)[i]
    BY <1>1, <1>5
<1> QED
    BY <1>2, <1>3, <1>4, <1>5, <1>6, TallyChange

-------------------------------------------------------------------------------
(* Initial states *)

\* The constant rows of an empty table have the types of rows.
LEMMA EmptyRows == NoOrder \in Order /\ NoPosition \in Position
<1>1. (CHOOSE a \in Agents : TRUE) \in Agents
    BY LedgerAssumption
<1> QED
    BY <1>1 DEF NoOrder, NoPosition, Order, Position, Sides, OrderStatus, PositionStatus

\* The books are in order before the first order is placed.
LEMMA InitInv == Init => LedgerInv
<1> SUFFICES ASSUME Init PROVE LedgerInv
    OBVIOUS
<1> USE DEF Init
<1>1. TypeOK
    BY LedgerAssumption, EmptyRows DEF TypeOK
<1>2. PendingRows
    BY DEF PendingRows, NoOrder
<1>3. \A a \in Agents : Tally(HoldOf(a), MaxOrders) = 0
    <2> SUFFICES ASSUME NEW a \in Agents PROVE Tally(HoldOf(a), MaxOrders) = 0
        OBVIOUS
    <2>1. \A o \in 1..MaxOrders : HoldOf(a)[o] = 0
        BY DEF HoldOf, PendingOf, NoOrder, OrderIds
    <2> QED
        BY <1>1, <2>1, HoldType, TallyZero, LedgerAssumption
<1>4. ReservationsMatchOrders
    BY <1>3 DEF ReservationsMatchOrders
<1>5. CashCoversReservations
    BY LedgerAssumption DEF CashCoversReservations
<1> QED
    BY <1>1, <1>2, <1>4, <1>5 DEF LedgerInv

-------------------------------------------------------------------------------
(* Types *)

\* An order that ends keeps the types and what PendingRows says of the others.
LEMMA EndTypes ==
    ASSUME LedgerInv, NEW o \in OrderIds, NEW st \in OrderStatus \ {"pending"},
           NEW back \in BOOLEAN, End(o, st, back), sound' = sound,
           \/ Release(o)
           \/ UNCHANGED reserved
    PROVE  /\ orders' \in [OrderIds -> Order] /\ reserved' \in [Agents -> Int]
           /\ PendingRows'
           /\ orders'[o].owner = orders[o].owner /\ orders'[o].status = st
           /\ \A i \in OrderIds : i # o => orders'[i] = orders[i]
<1> USE DEF LedgerInv, TypeOK
<1>1. [orders[o] EXCEPT !.status = st, !.released = back] \in Order
    BY DEF Order
<1>2. orders' = [orders EXCEPT ![o] = [orders[o] EXCEPT !.status = st, !.released = back]]
    BY DEF End
<1>3. orders[o].owner \in Agents
      /\ MaxZero(reserved[orders[o].owner] - orders[o].held) \in Int
    BY DEF Order, MaxZero
<1>4. orders'[o].owner = orders[o].owner /\ orders'[o].status = st
      /\ \A i \in OrderIds : i # o => orders'[i] = orders[i]
    <2>1. orders[o] \in Order
        OBVIOUS
    <2> QED
        BY <1>2, <2>1 DEF Order
<1>5. PendingRows'
    BY <1>4 DEF PendingRows
<1>6. orders' \in [OrderIds -> Order] /\ reserved' \in [Agents -> Int]
    BY <1>1, <1>2, <1>3 DEF Release
<1> QED
    BY <1>4, <1>5, <1>6

\* The three ways an order ends.
LEMMA EndKinds ==
    ASSUME LedgerInv, NEW o \in OrderIds,
           \/ CancelOrder(o)
           \/ ExpireOrder(o)
           \/ \E p \in PositionIds : FillLimitOrder(o, p)
    PROVE  /\ orders[o].status = "pending"
           /\ \E st \in OrderStatus \ {"pending"}, back \in BOOLEAN : End(o, st, back)
           /\ sound' = sound
           /\ Release(o) \/ (orders[o].held <= 0 /\ UNCHANGED reserved)
<1>1. orders[o].held \in Int
    BY DEF LedgerInv, TypeOK, Order
<1>2. ASSUME CancelOrder(o)
      PROVE  /\ orders[o].status = "pending" /\ End(o, "cancelled", orders[o].held > 0)
             /\ sound' = sound
             /\ Release(o) \/ (orders[o].held <= 0 /\ UNCHANGED reserved)
    BY <1>1, <1>2 DEF CancelOrder
<1>3. ASSUME ExpireOrder(o)
      PROVE  /\ orders[o].status = "pending" /\ End(o, "expired", orders[o].held # 0)
             /\ sound' = sound
             /\ Release(o) \/ (orders[o].held <= 0 /\ UNCHANGED reserved)
    BY <1>1, <1>3 DEF ExpireOrder
<1>4. ASSUME NEW p \in PositionIds, FillLimitOrder(o, p)
      PROVE  /\ orders[o].status = "pending" /\ End(o, "filled", orders[o].held # 0)
             /\ sound' = sound
             /\ Release(o) \/ (orders[o].held <= 0 /\ UNCHANGED reserved)
    BY <1>1, <1>4 DEF FillLimitOrder
<1>5. {"cancelled", "expired", "filled"} \subseteq OrderStatus \ {"pending"}
    BY DEF OrderStatus
<1>6. (orders[o].held > 0) \in BOOLEAN /\ (orders[o].held # 0) \in BOOLEAN
    OBVIOUS
<1> QED
    BY <1>2, <1>3, <1>4, <1>5, <1>6

\* Every action keeps the types and writes what PendingRows says.
LEMMA TypeStep == LedgerInv /\ [Next]_vars => TypeOK' /\ PendingRows'
<1> SUFFICES ASSUME LedgerInv, [Next]_vars PROVE TypeOK' /\ PendingRows'
    OBVIOUS
<1>t. TypeOK /\ PendingRows
    BY DEF LedgerInv
<1>1. ASSUME NEW a \in Agents, NEW side \in Sides, NEW size \in Sizes, NEW o \in OrderIds,
             RejectOrder(a, side, size, o)
      PROVE  TypeOK' /\ PendingRows'
    <2>1. [owner |-> a, side |-> side, size |-> size, held |-> 0, released |-> FALSE,
           status |-> "rejected"] \in Order
        BY FeeTypes DEF Order, OrderStatus
    <2> QED
        BY <1>1, <1>t, <2>1 DEF RejectOrder, books, TypeOK, PendingRows
<1>2. ASSUME NEW a \in Agents, NEW side \in Sides, NEW size \in Sizes, NEW o \in OrderIds,
             NEW p \in PositionIds, ExecuteMarketOrder(a, side, size, o, p)
      PROVE  TypeOK' /\ PendingRows'
    <2>1. size \in Int /\ TakerFee[size] \in Int
        BY FeeTypes
    <2>2. [owner |-> a, side |-> side, size |-> size, held |-> 0, released |-> FALSE,
           status |-> "filled"] \in Order
        BY <2>1 DEF Order, OrderStatus
    <2>3. [owner |-> a, side |-> side, size |-> size, fee |-> TakerFee[size],
           status |-> "open"] \in Position
        BY <2>1 DEF Position, PositionStatus
    <2>4. sound' \in [Agents -> BOOLEAN] /\ \A b \in Agents : sound'[b] => sound[b]
        BY <1>2, <1>t, <2>1, NoteType DEF ExecuteMarketOrder
    <2>5. TypeOK'
        BY <1>2, <1>t, <2>1, <2>2, <2>3, <2>4 DEF ExecuteMarketOrder, OpenPosition, TypeOK
    <2>6. PendingRows'
        <3>1. orders'[o].status = "filled" /\ \A i \in OrderIds : i # o => orders'[i] = orders[i]
            BY <1>2, <1>t DEF ExecuteMarketOrder, TypeOK
        <3>2. \A i \in OrderIds : orders[i].owner \in Agents
            BY <1>t DEF TypeOK, Order
        <3> QED
            BY <1>t, <2>4, <3>1, <3>2 DEF PendingRows
    <2> QED
        BY <2>5, <2>6
<1>3. ASSUME NEW a \in Agents, NEW side \in Sides, NEW size \in Sizes, NEW o \in OrderIds,
             ExecuteLimitOrder(a, side, size, o)
      PROVE  TypeOK' /\ PendingRows'
    <2>1. size \in Int /\ MakerFee[size] \in Int
        BY FeeTypes
    <2>2. [owner |-> a, side |-> side, size |-> size, held |-> size + MakerFee[size],
           released |-> FALSE, status |-> "pending"] \in Order
        BY <2>1 DEF Order, OrderStatus
    <2>3. /\ sound' \in [Agents -> BOOLEAN] /\ \A b \in Agents : sound'[b] => sound[b]
          /\ sound'[a] => size >= 0
        BY <1>3, <1>t, <2>1, NoteType DEF ExecuteLimitOrder
    <2>4. TypeOK'
        BY <1>3, <1>t, <2>1, <2>2, <2>3 DEF ExecuteLimitOrder, TypeOK
    <2>5. PendingRows'
        <3>1. /\ orders'[o] = [owner |-> a, side |-> side, size |-> size,
                               held |-> size + MakerFee[size], released |-> FALSE,
                               status |-> "pending"]
              /\ \A i \in OrderIds : i # o => orders'[i] = orders[i]
            BY <1>3, <1>t DEF ExecuteLimitOrder, TypeOK
        <3>2. \A i \in OrderIds : orders[i].owner \in Agents
            BY <1>t DEF TypeOK, Order
        <3> QED
            BY <1>t, <2>3, <3>1, <3>2 DEF PendingRows
    <2> QED
        BY <2>4, <2>5
<1>4. ASSUME NEW o \in OrderIds, CancelOrder(o) \/ ExpireOrder(o)
      PROVE  TypeOK' /\ PendingRows'
    <2>1. PICK st \in OrderStatus \ {"pending"}, back \in BOOLEAN : End(o, st, back)
        BY <1>4, EndKinds
    <2>2. sound' = sound /\ (Release(o) \/ UNCHANGED reserved)
        BY <1>4, EndKinds
    <2>3. orders' \in [OrderIds -> Order] /\ reserved' \in [Agents -> Int] /\ PendingRows'
        BY <2>1, <2>2, EndTypes
    <2> QED
        BY <1>4, <1>t, <2>3 DEF CancelOrder, ExpireOrder, TypeOK
<1>5. ASSUME NEW o \in OrderIds, NEW p \in PositionIds, FillLimitOrder(o, p)
      PROVE  TypeOK' /\ PendingRows'
    <2>1. PICK st \in OrderStatus \ {"pending"}, back \in BOOLEAN : End(o, st, back)
        BY <1>5, EndKinds
    <2>2. sound' = sound /\ (Release(o) \/ UNCHANGED reserved) /\ orders[o].status = "pending"
        BY <1>5, EndKinds
    <2>3. orders' \in [OrderIds -> Order] /\ reserved' \in [Agents -> Int] /\ PendingRows'
        BY <2>1, <2>2, EndTypes
    <2>4. orders[o].size \in Int /\ MakerFee[orders[o].size] \in Int
          /\ orders[o].owner \in Agents /\ orders[o].side \in Sides
        BY <1>t, <2>2, FeeTypes DEF PendingRows, TypeOK, Order
    <2>5. [owner |-> orders[o].owner, side |-> orders[o].side, size |-> orders[o].size,
           fee |-> MakerFee[orders[o].size], status |-> "open"] \in Position
        BY <2>4 DEF Position, PositionStatus
    <2>6. positions' \in [PositionIds -> Position]
        BY <1>5, <1>t, <2>5 DEF FillLimitOrder, OpenPosition, TypeOK
    <2>7. cash' \in [Agents -> Int] /\ count' \in [Agents -> Nat]
        BY <1>5, <1>t, <2>4 DEF FillLimitOrder, TypeOK
    <2> QED
        BY <1>5, <1>t, <2>3, <2>6, <2>7 DEF FillLimitOrder, TypeOK
<1>6. ASSUME NEW p \in PositionIds, NEW v \in Values,
             ClosePosition(p, v) \/ ExecuteStopLoss(p, v) \/ ExecuteTakeProfit(p, v)
      PROVE  TypeOK' /\ PendingRows'
    <2>1. PICK st \in PositionStatus, fee \in Int : Settle(p, st, v, fee)
        BY <1>6, FeeTypes
        DEF ClosePosition, ExecuteStopLoss, ExecuteTakeProfit, PositionStatus
    <2>2. [positions[p] EXCEPT !.status = st] \in Position
        BY <1>t DEF TypeOK, Position
    <2>3. RealizedPnl(p, v, fee) \in Int
        BY <1>t, FeeTypes DEF RealizedPnl, TypeOK, Position
    <2>4. positions[p].owner \in Agents /\ MaxZero(count[positions[p].owner] - 1) \in Nat
        BY <1>t DEF TypeOK, Position, MaxZero
    <2>5. sound' \in [Agents -> BOOLEAN] /\ \A b \in Agents : sound'[b] => sound[b]
        <3>1. PICK a \in Agents : a = positions[p].owner
            BY <2>4
        <3>2. Note(a, v) /\ v \in Int
            BY <2>1, <3>1, FeeTypes DEF Settle
        <3> QED
            BY <1>t, <3>2, NoteType
    <2>6. TypeOK'
        <3>1. /\ positions' = [positions EXCEPT ![p] = [positions[p] EXCEPT !.status = st]]
              /\ v - fee \in Int /\ reserved' = reserved /\ orders' = orders /\ alive' = alive
            BY <2>1, FeeTypes DEF Settle
        <3>2. positions' \in [PositionIds -> Position]
            BY <1>t, <2>2, <3>1 DEF TypeOK
        <3>3. cash' \in [Agents -> Int] /\ pnl' \in [Agents -> Int] /\ count' \in [Agents -> Nat]
            BY <1>t, <2>1, <2>3, <2>4, <3>1 DEF Settle, TypeOK
        <3> QED
            BY <1>t, <2>5, <3>1, <3>2, <3>3 DEF TypeOK
    <2>7. PendingRows'
        <3>1. orders' = orders /\ \A i \in OrderIds : orders[i].owner \in Agents
            BY <1>t, <2>1 DEF Settle, TypeOK, Order
        <3> QED
            BY <1>t, <2>5, <3>1 DEF PendingRows
    <2> QED
        BY <2>6, <2>7
<1>7. ASSUME NEW a \in Agents, ExecuteDeathProtocol(a)
      PROVE  TypeOK' /\ PendingRows'
    <2>1. ASSUME NEW o \in OrderIds
          PROVE  /\ [orders[o] EXCEPT !.status = "cancelled",
                                       !.released = @ \/ orders[o].held # 0] \in Order
                 /\ [orders[o] EXCEPT !.status = "cancelled",
                                       !.released = @ \/ orders[o].held # 0].status = "cancelled"
        <3>1. orders[o] \in Order /\ (orders[o].released \/ orders[o].held # 0) \in BOOLEAN
            BY <1>t DEF TypeOK
        <3> QED
            BY <3>1 DEF Order, OrderStatus
    <2>2. \A p \in PositionIds : [positions[p] EXCEPT !.status = "closed"] \in Position
        BY <1>t DEF TypeOK, Position, PositionStatus
    <2>3. Tally(HoldOf(a), MaxOrders) \in Int
        BY <1>t, HoldType, TallyType, LedgerAssumption
    <2>4. orders' \in [OrderIds -> Order] /\ positions' \in [PositionIds -> Position]
        BY <1>7, <1>t, <2>1, <2>2 DEF ExecuteDeathProtocol, TypeOK
    <2>5. reserved' \in [Agents -> Int] /\ alive' \in [Agents -> BOOLEAN]
        <3>1. /\ reserved[a] - Tally(HoldOf(a), MaxOrders) \in Int
              /\ reserved \in [Agents -> Int] /\ alive \in [Agents -> BOOLEAN]
            BY <1>t, <2>3 DEF TypeOK
        <3>2. reserved' = [reserved EXCEPT ![a] = reserved[a] - Tally(HoldOf(a), MaxOrders)]
              /\ alive' = [alive EXCEPT ![a] = FALSE]
            BY <1>7 DEF ExecuteDeathProtocol
        <3> QED
            BY <3>1, <3>2, Zenon
    <2>6. \A o \in OrderIds : orders'[o].status = "pending" => orders'[o] = orders[o]
        BY <1>7, <2>1 DEF ExecuteDeathProtocol
    <2>7. PendingRows'
        <3>1. sound' = sound
            BY <1>7 DEF ExecuteDeathProtocol
        <3> QED
            BY <1>t, <2>6, <3>1 DEF PendingRows
    <2> QED
        BY <1>7, <1>t, <2>4, <2>5, <2>7 DEF ExecuteDeathProtocol, TypeOK
<1>8. CASE UNCHANGED vars
    BY <1>8, <1>t DEF vars, TypeOK, PendingRows
<1> QED
    BY <1>1, <1>2, <1>3, <1>4, <1>5, <1>6, <1>7, <1>8 DEF Next

-------------------------------------------------------------------------------
(* Money: what a step does to one agent's cash, reservations and holds.  The *)
(* books and the refinement both follow from these operations.               *)

\* Nothing.
NoMove ==
    /\ cash' = cash /\ reserved' = reserved /\ sound' = sound
    /\ \A b \in Agents : HoldOf(b)' = HoldOf(b)

\* Nothing to any agent but a.
Apart(a) ==
    \A b \in Agents : b # a =>
        /\ cash'[b] = cash[b] /\ reserved'[b] = reserved[b]
        /\ HoldOf(b)' = HoldOf(b)

\* a pays n out of its buying power.
Pays(a, n) ==
    /\ n <= Available(a) /\ cash'[a] = cash[a] - n
    /\ reserved'[a] = reserved[a] /\ HoldOf(a)' = HoldOf(a)

\* a is credited n.
Receives(a, n) ==
    /\ cash'[a] = cash[a] + n
    /\ reserved'[a] = reserved[a] /\ HoldOf(a)' = HoldOf(a)

\* a sets n aside for its order o.
SetsAside(a, o, n) ==
    /\ n <= Available(a) /\ cash'[a] = cash[a] /\ reserved'[a] = reserved[a] + n
    /\ HoldOf(a)[o] = 0 /\ HoldOf(a)' = [HoldOf(a) EXCEPT ![o] = n]

\* What the order o of a holds is free again, or is paid for the fill.
GivesBack(a, o) ==
    /\ cash'[a] = cash[a] \/ cash'[a] = cash[a] - HoldOf(a)[o]
    /\ HoldOf(a)[o] <= reserved[a] /\ reserved'[a] = reserved[a] - HoldOf(a)[o]
    /\ HoldOf(a)' = [HoldOf(a) EXCEPT ![o] = 0]

\* All a's orders give back what they hold.
GivesAllBack(a) ==
    /\ cash'[a] = cash[a] /\ reserved'[a] = reserved[a] - Tally(HoldOf(a), MaxOrders)
    /\ HoldOf(a)' = [o \in OrderIds |-> 0]

\* One of these, of a sound agent.
Moves(a) ==
    \/ \E n \in Nat : Pays(a, n) \/ Receives(a, n)
    \/ \E n \in Nat, o \in OrderIds : SetsAside(a, o, n)
    \/ \E o \in OrderIds : GivesBack(a, o)
    \/ GivesAllBack(a)

\* A step moves the money of one agent at most: by one of the operations above
\* as long as no amount of the agent is negative, somehow after that.
OneMoves ==
    \E a \in Agents :
        /\ Apart(a)
        /\ \/ sound' = sound /\ (sound[a] => Moves(a))
           \/ sound' = [sound EXCEPT ![a] = FALSE]

\* A step that changes no row into or out of "pending" leaves every hold alone.
LEMMA SameHolds ==
    ASSUME TypeOK, NEW o \in OrderIds, orders[o].status # "pending",
           orders'[o].status # "pending",
           \A i \in OrderIds : i # o => orders'[i] = orders[i]
    PROVE  \A a \in Agents : HoldOf(a)' = HoldOf(a)
<1> SUFFICES ASSUME NEW a \in Agents PROVE HoldOf(a)' = HoldOf(a)
    OBVIOUS
<1>1. \A i \in OrderIds : HoldOf(a)'[i] = HoldOf(a)[i]
    BY DEF HoldOf, PendingOf
<1> QED
    BY <1>1 DEF HoldOf

\* A market order.
LEMMA MarketMoves ==
    ASSUME LedgerInv, NEW a \in Agents, NEW side \in Sides, NEW size \in Sizes,
           NEW o \in OrderIds, NEW p \in PositionIds, ExecuteMarketOrder(a, side, size, o, p)
    PROVE  OneMoves
<1>t. TypeOK /\ cash \in [Agents -> Int] /\ orders \in [OrderIds -> Order]
    BY DEF LedgerInv, TypeOK
<1>1. size \in Int /\ TakerFee[size] \in Int /\ (size >= 0 => TakerFee[size] >= 0)
    BY FeeTypes
<1>2. \A b \in Agents : HoldOf(b)' = HoldOf(b)
    BY <1>t, SameHolds DEF ExecuteMarketOrder, FreshOrder
<1>3. /\ cash' = [cash EXCEPT ![a] = @ - (size + TakerFee[size])] /\ reserved' = reserved
      /\ size + TakerFee[size] <= Available(a) /\ Note(a, size)
    BY DEF ExecuteMarketOrder
<1>4. Apart(a)
    BY <1>t, <1>2, <1>3 DEF Apart
<1>5. size >= 0 => Moves(a)
    <2> SUFFICES ASSUME size >= 0 PROVE Moves(a)
        OBVIOUS
    <2>1. PICK n \in Nat : n = size + TakerFee[size]
        BY <1>1
    <2>2. Pays(a, n)
        BY <1>t, <1>2, <1>3, <2>1 DEF Pays
    <2> QED
        BY <2>2 DEF Moves
<1>6. CASE size >= 0
    <2>1. sound' = sound
        BY <1>1, <1>3, <1>6 DEF Note
    <2> QED
        BY <1>4, <1>5, <1>6, <2>1 DEF OneMoves
<1>7. CASE size < 0
    <2>1. sound' = [sound EXCEPT ![a] = FALSE]
        BY <1>3, <1>7 DEF Note
    <2> QED
        BY <1>4, <2>1 DEF OneMoves
<1> QED
    BY <1>1, <1>6, <1>7

\* A limit order.
LEMMA LimitMoves ==
    ASSUME LedgerInv, TypeOK', NEW a \in Agents, NEW side \in Sides, NEW size \in Sizes,
           NEW o \in OrderIds, ExecuteLimitOrder(a, side, size, o)
    PROVE  OneMoves
<1>t. TypeOK /\ cash \in [Agents -> Int] /\ reserved \in [Agents -> Int]
      /\ orders \in [OrderIds -> Order]
    BY DEF LedgerInv, TypeOK
<1>1. size \in Int /\ MakerFee[size] \in Int /\ (size >= 0 => MakerFee[size] >= 0)
    BY FeeTypes
<1> DEFINE r == size + MakerFee[size]
<1>2. /\ orders[o].status = "none" /\ r <= Available(a) /\ cash' = cash
      /\ reserved' = [reserved EXCEPT ![a] = @ + r] /\ Note(a, size)
      /\ orders' = [orders EXCEPT ![o] =
             [owner |-> a, side |-> side, size |-> size, held |-> r,
              released |-> FALSE, status |-> "pending"]]
    BY DEF ExecuteLimitOrder, FreshOrder
<1>r. r \in Int /\ (size >= 0 => r \in Nat)
    BY <1>1
<1> HIDE DEF r
<1>3. orders'[o].owner = a /\ orders'[o].status = "pending" /\ orders'[o].held = r
      /\ \A i \in OrderIds : i # o => orders'[i] = orders[i]
    BY <1>t, <1>2
<1>4. \A b \in Agents : b # a => HoldOf(b)' = HoldOf(b)
    BY <1>t, <1>2, <1>3, HoldChange
<1>5. HoldOf(a)[o] = 0 /\ HoldOf(a)' = [HoldOf(a) EXCEPT ![o] = r]
    <2>1. HoldOf(a)[o] = 0 /\ HoldOf(a)'[o] = r
        BY <1>2, <1>3 DEF HoldOf, PendingOf
    <2>2. \A i \in OrderIds : i # o => HoldOf(a)'[i] = HoldOf(a)[i]
        BY <1>3 DEF HoldOf, PendingOf
    <2> QED
        BY <2>1, <2>2 DEF HoldOf
<1>6. Apart(a)
    BY <1>t, <1>2, <1>4 DEF Apart
<1>7. size >= 0 => Moves(a)
    <2> SUFFICES ASSUME size >= 0 PROVE Moves(a)
        OBVIOUS
    <2>1. r \in Nat
        BY <1>r
    <2>2. SetsAside(a, o, r)
        BY <1>t, <1>2, <1>5 DEF SetsAside
    <2> QED
        BY <2>1, <2>2 DEF Moves
<1>8. CASE size >= 0
    <2>1. sound' = sound
        BY <1>1, <1>2, <1>8 DEF Note
    <2> QED
        BY <1>6, <1>7, <1>8, <2>1 DEF OneMoves
<1>9. CASE size < 0
    <2>1. sound' = [sound EXCEPT ![a] = FALSE]
        BY <1>2, <1>9 DEF Note
    <2> QED
        BY <1>6, <2>1 DEF OneMoves
<1> QED
    BY <1>1, <1>8, <1>9

\* An order that is cancelled, expires or is filled.
LEMMA EndMoves ==
    ASSUME LedgerInv, TypeOK', NEW o \in OrderIds,
           \/ CancelOrder(o)
           \/ ExpireOrder(o)
           \/ \E p \in PositionIds : FillLimitOrder(o, p)
    PROVE  OneMoves
<1>t. TypeOK /\ cash \in [Agents -> Int] /\ reserved \in [Agents -> Int]
      /\ orders \in [OrderIds -> Order] /\ PendingRows
    BY DEF LedgerInv, TypeOK
<1>1. PICK st \in OrderStatus \ {"pending"}, back \in BOOLEAN : End(o, st, back)
    BY EndKinds
<1>2. /\ orders[o].status = "pending" /\ sound' = sound
      /\ Release(o) \/ (orders[o].held <= 0 /\ UNCHANGED reserved)
    BY EndKinds
<1>3. /\ orders'[o].owner = orders[o].owner /\ orders'[o].status # "pending"
      /\ \A i \in OrderIds : i # o => orders'[i] = orders[i]
    BY <1>1, <1>2, EndTypes
<1>4. PICK a \in Agents : a = orders[o].owner
    BY <1>t DEF Order
<1>5. \A b \in Agents : b # a => HoldOf(b)' = HoldOf(b)
    BY <1>t, <1>3, <1>4, HoldChange
<1>6. HoldOf(a)' = [HoldOf(a) EXCEPT ![o] = 0] /\ HoldOf(a)[o] = orders[o].held
    BY <1>2, <1>3, <1>4 DEF HoldOf, PendingOf
<1>7. orders[o].held = orders[o].size + MakerFee[orders[o].size]
    BY <1>2, <1>t DEF PendingRows
<1>8. cash' = cash \/ cash' = [cash EXCEPT ![a] = @ - orders[o].held]
    BY <1>4, <1>7 DEF CancelOrder, ExpireOrder, FillLimitOrder
<1>9. Apart(a)
    BY <1>t, <1>2, <1>4, <1>5, <1>8 DEF Apart, Release
<1>10. ASSUME sound[a] PROVE GivesBack(a, o)
    <2>1. /\ orders[o].held \in Nat /\ orders[o].held <= reserved[a]
          /\ MaxZero(reserved[a] - orders[o].held) = reserved[a] - orders[o].held
        BY <1>2, <1>4, <1>10, HeldIsReserved
    <2>2. reserved'[a] = reserved[a] - orders[o].held
        BY <1>t, <1>2, <1>4, <2>1 DEF Release
    <2>3. cash'[a] = cash[a] \/ cash'[a] = cash[a] - orders[o].held
        BY <1>t, <1>8
    <2> QED
        BY <1>6, <2>1, <2>2, <2>3 DEF GivesBack
<1> QED
    BY <1>2, <1>9, <1>10 DEF OneMoves, Moves

\* A position that closes.
LEMMA SettleMoves ==
    ASSUME LedgerInv, NEW p \in PositionIds, NEW v \in Values,
           ClosePosition(p, v) \/ ExecuteStopLoss(p, v) \/ ExecuteTakeProfit(p, v)
    PROVE  OneMoves
<1>t. TypeOK /\ cash \in [Agents -> Int] /\ positions \in [PositionIds -> Position]
    BY DEF LedgerInv, TypeOK
<1>1. PICK st \in PositionStatus, fee \in Int :
          Settle(p, st, v, fee) /\ (v >= 0 => fee <= v)
    BY FeeTypes DEF ClosePosition, ExecuteStopLoss, ExecuteTakeProfit, PositionStatus
<1>2. PICK a \in Agents : a = positions[p].owner
    BY <1>t DEF Position
<1>3. /\ reserved' = reserved /\ orders' = orders /\ Note(a, v) /\ v \in Int
      /\ cash' = [cash EXCEPT ![a] = @ + (v - fee)]
    BY <1>1, <1>2, FeeTypes DEF Settle
<1>4. \A b \in Agents : HoldOf(b)' = HoldOf(b)
    BY <1>3 DEF HoldOf, PendingOf
<1>5. Apart(a)
    BY <1>t, <1>3, <1>4 DEF Apart
<1>6. v >= 0 => Moves(a)
    <2> SUFFICES ASSUME v >= 0 PROVE Moves(a)
        OBVIOUS
    <2>1. PICK n \in Nat : n = v - fee
        BY <1>1, <1>3
    <2>2. Receives(a, n)
        BY <1>t, <1>3, <1>4, <2>1 DEF Receives
    <2> QED
        BY <2>2 DEF Moves
<1>7. CASE v >= 0
    <2>1. sound' = sound
        BY <1>3, <1>7 DEF Note
    <2> QED
        BY <1>5, <1>6, <1>7, <2>1 DEF OneMoves
<1>8. CASE v < 0
    <2>1. sound' = [sound EXCEPT ![a] = FALSE]
        BY <1>3, <1>8 DEF Note
    <2> QED
        BY <1>5, <2>1 DEF OneMoves
<1> QED
    BY <1>3, <1>7, <1>8

\* The death of an agent.
LEMMA DeathMoves ==
    ASSUME LedgerInv, NEW a \in Agents, ExecuteDeathProtocol(a)
    PROVE  OneMoves
<1>t. TypeOK /\ reserved \in [Agents -> Int] /\ orders \in [OrderIds -> Order]
    BY DEF LedgerInv, TypeOK
<1>1. /\ cash' = cash /\ sound' = sound
      /\ reserved' = [reserved EXCEPT ![a] = @ - Tally(HoldOf(a), MaxOrders)]
    BY DEF ExecuteDeathProtocol
<1>2. ASSUME NEW i \in OrderIds
      PROVE  /\ i \notin PendingOf(a) => orders'[i] = orders[i]
             /\ i \in PendingOf(a) => orders'[i].status = "cancelled"
                                      /\ orders'[i].owner = orders[i].owner
    <2>1. orders[i] \in Order
        BY <1>t
    <2>2. orders'[i] = IF i \in PendingOf(a)
                       THEN [orders[i] EXCEPT !.status = "cancelled",
                                              !.released = @ \/ orders[i].held # 0]
                       ELSE orders[i]
        BY DEF ExecuteDeathProtocol
    <2> QED
        BY <2>1, <2>2 DEF Order
<1>3. HoldOf(a)' = [i \in OrderIds |-> 0]
    BY <1>2 DEF HoldOf, PendingOf
<1>4. ASSUME NEW b \in Agents, b # a PROVE HoldOf(b)' = HoldOf(b)
    <2>1. \A i \in OrderIds : HoldOf(b)'[i] = HoldOf(b)[i]
        BY <1>2, <1>4 DEF HoldOf, PendingOf
    <2> QED
        BY <2>1 DEF HoldOf
<1>5. Apart(a)
    BY <1>t, <1>1, <1>4 DEF Apart
<1>6. GivesAllBack(a)
    BY <1>t, <1>1, <1>3 DEF GivesAllBack
<1> QED
    BY <1>1, <1>5, <1>6 DEF OneMoves, Moves

\* Every step moves the money of no agent or of one.
LEMMA MoneyStep == LedgerInv /\ [Next]_vars => NoMove \/ OneMoves
<1> SUFFICES ASSUME LedgerInv, [Next]_vars PROVE NoMove \/ OneMoves
    OBVIOUS
<1>0. TypeOK /\ TypeOK'
    BY TypeStep DEF LedgerInv
<1>1. ASSUME NEW a \in Agents, NEW side \in Sides, NEW size \in Sizes, NEW o \in OrderIds,
             RejectOrder(a, side, size, o)
      PROVE  NoMove
    <2>1. \A b \in Agents : HoldOf(b)' = HoldOf(b)
        BY <1>0, <1>1, SameHolds DEF RejectOrder, FreshOrder, TypeOK
    <2> QED
        BY <1>1, <2>1 DEF RejectOrder, books, NoMove
<1>2. CASE UNCHANGED vars
    BY <1>2 DEF vars, NoMove, HoldOf, PendingOf
<1> QED
    BY <1>0, <1>1, <1>2, MarketMoves, LimitMoves, EndMoves, SettleMoves, DeathMoves DEF Next

-------------------------------------------------------------------------------
(* Reservations and cash *)

\* An operation keeps the books of the agent it is about in order.
LEMMA MovesKeep ==
    ASSUME LedgerInv, TypeOK', NEW a \in Agents, sound[a], Moves(a)
    PROVE  /\ reserved'[a] = Tally(HoldOf(a)', MaxOrders)
           /\ 0 <= reserved'[a] /\ reserved'[a] <= cash'[a]
<1>0. /\ cash[a] \in Int /\ reserved[a] \in Int /\ MaxOrders \in Nat
      /\ reserved[a] = Tally(HoldOf(a), MaxOrders)
      /\ 0 <= reserved[a] /\ reserved[a] <= cash[a]
    BY LedgerAssumption
    DEF LedgerInv, TypeOK, ReservationsMatchOrders, CashCoversReservations
<1>h. HoldOf(a) \in [1..MaxOrders -> Nat] /\ OrderIds = 1..MaxOrders
    BY SoundHolds DEF LedgerInv, OrderIds
<1>1. ASSUME NEW o \in OrderIds, NEW n \in Nat, HoldOf(a)' = [HoldOf(a) EXCEPT ![o] = n]
      PROVE  Tally(HoldOf(a)', MaxOrders) = Tally(HoldOf(a), MaxOrders) + (n - HoldOf(a)[o])
    <2> DEFINE f == HoldOf(a)
               g == [f EXCEPT ![o] = n]
    <2>1. f \in [1..MaxOrders -> Int] /\ g \in [1..MaxOrders -> Int] /\ o \in 1..MaxOrders
        BY <1>h
    <2>2. g[o] = n /\ \A i \in 1..MaxOrders : i # o => g[i] = f[i]
        BY <1>h
    <2>3. Tally(g, MaxOrders) = Tally(f, MaxOrders) + (g[o] - f[o])
        <3> HIDE DEF f, g
        <3> QED
            BY <1>0, <2>1, <2>2, TallyChange
    <2> QED
        BY <1>1, <2>2, <2>3
<1>2. ASSUME NEW n \in Nat, Pays(a, n) \/ Receives(a, n)
      PROVE  /\ reserved'[a] = Tally(HoldOf(a)', MaxOrders)
             /\ 0 <= reserved'[a] /\ reserved'[a] <= cash'[a]
    BY <1>0, <1>2 DEF Pays, Receives, Available
<1>3. ASSUME NEW n \in Nat, NEW o \in OrderIds, SetsAside(a, o, n)
      PROVE  /\ reserved'[a] = Tally(HoldOf(a)', MaxOrders)
             /\ 0 <= reserved'[a] /\ reserved'[a] <= cash'[a]
    <2>1. Tally(HoldOf(a)', MaxOrders) = Tally(HoldOf(a), MaxOrders) + (n - HoldOf(a)[o])
        BY <1>1, <1>3 DEF SetsAside
    <2> QED
        BY <1>0, <1>3, <2>1 DEF SetsAside, Available
<1>4. ASSUME NEW o \in OrderIds, GivesBack(a, o)
      PROVE  /\ reserved'[a] = Tally(HoldOf(a)', MaxOrders)
             /\ 0 <= reserved'[a] /\ reserved'[a] <= cash'[a]
    <2>1. Tally(HoldOf(a)', MaxOrders) = Tally(HoldOf(a), MaxOrders) + (0 - HoldOf(a)[o])
        BY <1>1, <1>4 DEF GivesBack
    <2>2. HoldOf(a)[o] \in Nat
        BY <1>h
    <2> QED
        BY <1>0, <1>4, <2>1, <2>2 DEF GivesBack
<1>5. ASSUME GivesAllBack(a)
      PROVE  /\ reserved'[a] = Tally(HoldOf(a)', MaxOrders)
             /\ 0 <= reserved'[a] /\ reserved'[a] <= cash'[a]
    <2>1. Tally([o \in OrderIds |-> 0], MaxOrders) = 0
        <3> DEFINE z == [o \in OrderIds |-> 0]
        <3>1. z \in [1..MaxOrders -> Int] /\ \A o \in 1..MaxOrders : z[o] = 0
            BY <1>h
        <3>2. Tally(z, MaxOrders) = 0
            <4> HIDE DEF z
            <4> QED
                BY <1>0, <3>1, TallyZero
        <3> QED
            BY <3>2
    <2> QED
        BY <1>0, <1>5, <2>1 DEF GivesAllBack
<1> QED
    BY <1>2, <1>3, <1>4, <1>5 DEF Moves

\* Every operation of the ledger keeps the books of every agent in order.
LEMMA BooksStep ==
    LedgerInv /\ [Next]_vars => ReservationsMatchOrders' /\ CashCoversReservations'
<1> SUFFICES ASSUME LedgerInv, [Next]_vars, NEW b \in Agents, sound'[b]
             PROVE  /\ reserved'[b] = Tally(HoldOf(b)', MaxOrders)
                    /\ 0 <= reserved'[b] /\ reserved'[b] <= cash'[b]
    BY DEF ReservationsMatchOrders, CashCoversReservations
<1>0. TypeOK'
    BY TypeStep
<1>1. sound[b] =>
          /\ reserved[b] = Tally(HoldOf(b), MaxOrders)
          /\ 0 <= reserved[b] /\ reserved[b] <= cash[b]
    BY DEF LedgerInv, ReservationsMatchOrders, CashCoversReservations
<1>2. CASE NoMove
    BY <1>1, <1>2 DEF NoMove
<1>3. CASE OneMoves
    <2>1. PICK a \in Agents :
              /\ Apart(a)
              /\ \/ sound' = sound /\ (sound[a] => Moves(a))
                 \/ sound' = [sound EXCEPT ![a] = FALSE]
        BY <1>3 DEF OneMoves
    <2>2. CASE b # a
        <3>1. sound[b]
            BY <2>1, <2>2 DEF LedgerInv, TypeOK
        <3> QED
            BY <1>1, <2>1, <2>2, <3>1 DEF Apart
    <2>3. CASE b = a
        <3>1. sound[a] /\ Moves(a)
            BY <2>1, <2>3 DEF LedgerInv, TypeOK
        <3> QED
            BY <1>0, <2>3, <3>1, MovesKeep
    <2> QED
        BY <2>2, <2>3
<1> QED
    BY <1>2, <1>3, MoneyStep

-------------------------------------------------------------------------------
(* Theorems *)

\* The inductive invariant holds of the specification.
THEOREM LedgerInvariant == Spec => []LedgerInv
<1>1. LedgerInv /\ [Next]_vars => LedgerInv'
    BY TypeStep, BooksStep DEF LedgerInv
<1> QED
    BY InitInv, <1>1, PTL DEF Spec

\* The rows of the database keep their types, whatever trades, fees and prices.
THEOREM LedgerTypes == Spec => []TypeOK
BY LedgerInvariant, PTL DEF LedgerInv

\* At any time what an agent without a negative amount has reserved is what its
\* pending orders hold: no path of fills, cancels, expiries and deaths leaks or
\* doubles a release, whatever the other agents' sizes are.
THEOREM ReservationsExact == Spec => []ReservationsMatchOrders
BY LedgerInvariant, PTL DEF LedgerInv

\* The cash of an agent without a negative amount is never negative and always
\* covers its reservations.
THEOREM CashCovered == Spec => []CashCoversReservations
BY LedgerInvariant, PTL DEF LedgerInv

-------------------------------------------------------------------------------
(* Positions: their number, and what they cost *)

\* Beside the types: a row that was never used is not a short position.
PositionInv ==
    /\ CountMatchesPositions
    /\ LongBooksBalance
    /\ \A p \in PositionIds : positions[p].status = "none" => positions[p].side = "buy"

\* The open positions of an agent are finitely many.
LEMMA OpenFinite ==
    ASSUME NEW a
    PROVE  IsFiniteSet(OpenOf(a)) /\ Cardinality(OpenOf(a)) \in Nat
<1>1. IsFiniteSet(PositionIds)
    BY FS_Interval, LedgerAssumption DEF PositionIds
<1>2. OpenOf(a) \in SUBSET PositionIds
    BY DEF OpenOf
<1> QED
    BY <1>1, <1>2, FS_Subset, FS_CardinalityType

\* What an agent's open positions cost is a function into the integers.
LEMMA CostType ==
    ASSUME TypeOK, NEW a
    PROVE  CostOf(a) \in [1..MaxPositions -> Int] /\ MaxPositions \in Nat
<1>1. \A p \in PositionIds : positions[p].size \in Int /\ positions[p].fee \in Int
    BY DEF TypeOK, Position
<1> QED
    BY <1>1, LedgerAssumption DEF CostOf, PositionIds

\* A step that touches one position row, owned by a from then on, changes no
\* other agent's open positions and the cost of a's by what the row changed.
LEMMA CostChange ==
    ASSUME TypeOK, TypeOK', NEW p \in PositionIds, NEW a \in Agents,
           \A i \in PositionIds : i # p => positions'[i] = positions[i],
           positions[p].status = "open" => positions[p].owner = a,
           positions'[p].owner = a
    PROVE  /\ \A b \in Agents : b # a => OpenOf(b)' = OpenOf(b) /\ CostOf(b)' = CostOf(b)
           /\ Tally(CostOf(a)', MaxPositions)
              = Tally(CostOf(a), MaxPositions) + (CostOf(a)'[p] - CostOf(a)[p])
<1>1. ASSUME NEW b \in Agents, b # a PROVE OpenOf(b)' = OpenOf(b) /\ CostOf(b)' = CostOf(b)
    <2>1. \A i \in PositionIds : i \in OpenOf(b)' <=> i \in OpenOf(b)
        BY <1>1 DEF OpenOf
    <2>2. OpenOf(b)' = OpenOf(b) /\ p \notin OpenOf(b)
        BY <1>1, <2>1 DEF OpenOf
    <2>3. \A i \in PositionIds : CostOf(b)'[i] = CostOf(b)[i]
        BY <2>2 DEF CostOf
    <2> QED
        BY <2>2, <2>3 DEF CostOf
<1>2. \A i \in 1..MaxPositions : i # p => CostOf(a)'[i] = CostOf(a)[i]
    BY DEF CostOf, OpenOf, PositionIds
<1>3. CostOf(a) \in [1..MaxPositions -> Int] /\ MaxPositions \in Nat /\ p \in 1..MaxPositions
    BY CostType DEF PositionIds
<1>4. CostOf(a)' \in [1..MaxPositions -> Int]
    <2>1. \A i \in PositionIds : positions'[i].size \in Int /\ positions'[i].fee \in Int
        BY DEF TypeOK, Position
    <2> QED
        BY <2>1 DEF CostOf, PositionIds
<1> QED
    BY <1>1, <1>2, <1>3, <1>4, TallyChange

\* Both facts of one agent survive a step that leaves its part of the books alone.
LEMMA SameBooks ==
    ASSUME PositionInv, NEW a \in Agents, alive'[a] => alive[a],
           OpenOf(a)' = OpenOf(a), CostOf(a)' = CostOf(a), LongOnly(a)' => LongOnly(a),
           cash'[a] = cash[a], pnl'[a] = pnl[a], count'[a] = count[a]
    PROVE  /\ alive'[a] => count'[a] = Cardinality(OpenOf(a)')
           /\ alive'[a] /\ LongOnly(a)'
              => cash'[a] + Tally(CostOf(a)', MaxPositions) = Capital + pnl'[a]
BY DEF PositionInv, CountMatchesPositions, LongBooksBalance

\* Opening: a position of a is written into an unused row and paid for.
LEMMA OpenStep ==
    ASSUME TypeOK, TypeOK', PositionInv, NEW a \in Agents, NEW p \in PositionIds,
           NEW side \in Sides, NEW size \in Int, NEW fee \in Int,
           FreshPosition(p), OpenPosition(p, a, side, size, fee),
           cash' = [cash EXCEPT ![a] = @ - (size + fee)],
           count' = [count EXCEPT ![a] = @ + 1],
           pnl' = pnl, alive' = alive
    PROVE  PositionInv'
<1>1. /\ positions'[p] = [owner |-> a, side |-> side, size |-> size, fee |-> fee,
                          status |-> "open"]
      /\ \A i \in PositionIds : i # p => positions'[i] = positions[i]
      /\ positions[p].status = "none" /\ positions[p].side = "buy"
    BY DEF OpenPosition, FreshPosition, PositionInv, TypeOK
<1>2. /\ \A b \in Agents : b # a => OpenOf(b)' = OpenOf(b) /\ CostOf(b)' = CostOf(b)
      /\ Tally(CostOf(a)', MaxPositions)
         = Tally(CostOf(a), MaxPositions) + (CostOf(a)'[p] - CostOf(a)[p])
    BY <1>1, CostChange
<1>3. CostOf(a)'[p] = size + fee /\ CostOf(a)[p] = 0
    BY <1>1 DEF CostOf, OpenOf
<1>4. \A b \in Agents : LongOnly(b)' => LongOnly(b)
    BY <1>1 DEF LongOnly
<1>5. OpenOf(a)' = OpenOf(a) \cup {p} /\ p \notin OpenOf(a)
    BY <1>1 DEF OpenOf
<1>6. Cardinality(OpenOf(a)') = Cardinality(OpenOf(a)) + 1
    BY <1>5, OpenFinite, FS_AddElement
<1>7. cash[a] \in Int /\ count[a] \in Nat /\ pnl[a] \in Int
      /\ Tally(CostOf(a), MaxPositions) \in Int
    BY CostType, TallyType DEF TypeOK
<1>8. /\ alive'[a] => count'[a] = Cardinality(OpenOf(a)')
      /\ alive'[a] /\ LongOnly(a)'
         => cash'[a] + Tally(CostOf(a)', MaxPositions) = Capital + pnl'[a]
    <2>1. cash'[a] = cash[a] - (size + fee) /\ count'[a] = count[a] + 1
        BY DEF TypeOK
    <2>2. alive[a] => count[a] = Cardinality(OpenOf(a))
        BY DEF PositionInv, CountMatchesPositions
    <2>3. alive[a] /\ LongOnly(a)
          => cash[a] + Tally(CostOf(a), MaxPositions) = Capital + pnl[a]
        BY DEF PositionInv, LongBooksBalance
    <2>4. Tally(CostOf(a)', MaxPositions) = Tally(CostOf(a), MaxPositions) + (size + fee)
        BY <1>2, <1>3, <1>7
    <2>5. cash'[a] + Tally(CostOf(a)', MaxPositions) = cash[a] + Tally(CostOf(a), MaxPositions)
        BY <1>7, <2>1, <2>4
    <2> QED
        BY <1>4, <1>6, <2>1, <2>2, <2>3, <2>5
<1>9. ASSUME NEW b \in Agents, b # a
      PROVE  /\ alive'[b] => count'[b] = Cardinality(OpenOf(b)')
             /\ alive'[b] /\ LongOnly(b)'
                => cash'[b] + Tally(CostOf(b)', MaxPositions) = Capital + pnl'[b]
    <2>1. cash'[b] = cash[b] /\ count'[b] = count[b]
        BY <1>9 DEF TypeOK
    <2> QED
        BY <1>2, <1>4, <1>9, <2>1, SameBooks
<1>10. \A i \in PositionIds : positions'[i].status = "none" => positions'[i].side = "buy"
    BY <1>1 DEF PositionInv
<1> QED
    BY <1>8, <1>9, <1>10 DEF PositionInv, CountMatchesPositions, LongBooksBalance

\* Closing: the row leaves "open" and the books receive what it is worth.
LEMMA CloseStep ==
    ASSUME TypeOK, TypeOK', PositionInv, NEW p \in PositionIds, NEW v \in Int,
           NEW fee \in Int, NEW st \in PositionStatus \ {"open", "none"},
           Settle(p, st, v, fee)
    PROVE  PositionInv'
<1>0. PICK a \in Agents : a = positions[p].owner
    BY DEF TypeOK, Position
<1>1. /\ \A i \in PositionIds : i # p => positions'[i] = positions[i]
      /\ positions'[p].owner = a /\ positions'[p].side = positions[p].side
      /\ positions'[p].status = st /\ positions[p].status = "open"
      /\ positions[p].size \in Int /\ positions[p].fee \in Int
    <2>1. positions' = [positions EXCEPT ![p].status = st] /\ positions[p].status = "open"
        BY DEF Settle
    <2>2. positions \in [PositionIds -> Position] /\ positions[p] \in Position
        BY DEF TypeOK
    <2> QED
        BY <1>0, <2>1, <2>2 DEF Position
<1>2. /\ \A b \in Agents : b # a => OpenOf(b)' = OpenOf(b) /\ CostOf(b)' = CostOf(b)
      /\ Tally(CostOf(a)', MaxPositions)
         = Tally(CostOf(a), MaxPositions) + (CostOf(a)'[p] - CostOf(a)[p])
    BY <1>0, <1>1, CostChange
<1>3. CostOf(a)'[p] = 0 /\ CostOf(a)[p] = positions[p].size + positions[p].fee
    BY <1>0, <1>1 DEF CostOf, OpenOf
<1>4. \A b \in Agents : LongOnly(b)' => LongOnly(b)
    BY <1>0, <1>1 DEF LongOnly
<1>5. OpenOf(a)' = OpenOf(a) \ {p} /\ p \in OpenOf(a)
    BY <1>0, <1>1 DEF OpenOf
<1>6. Cardinality(OpenOf(a)') = Cardinality(OpenOf(a)) - 1
      /\ Cardinality(OpenOf(a)') \in Nat /\ Cardinality(OpenOf(a)) \in Nat
    BY <1>5, OpenFinite, FS_RemoveElement, FS_CardinalityType
<1>7. cash[a] \in Int /\ count[a] \in Nat /\ pnl[a] \in Int
      /\ Tally(CostOf(a), MaxPositions) \in Int
    BY CostType, TallyType DEF TypeOK
<1>8. /\ cash' = [cash EXCEPT ![a] = @ + (v - fee)]
      /\ count' = [count EXCEPT ![a] = MaxZero(@ - 1)]
      /\ pnl' = [pnl EXCEPT ![a] = @ + RealizedPnl(p, v, fee)]
      /\ alive' = alive
    BY <1>0 DEF Settle
<1>9. /\ alive'[a] => count'[a] = Cardinality(OpenOf(a)')
      /\ alive'[a] /\ LongOnly(a)'
         => cash'[a] + Tally(CostOf(a)', MaxPositions) = Capital + pnl'[a]
    <2>1. /\ cash'[a] = cash[a] + (v - fee) /\ count'[a] = MaxZero(count[a] - 1)
          /\ pnl'[a] = pnl[a] + RealizedPnl(p, v, fee)
        BY <1>8 DEF TypeOK
    <2>2. alive[a] => count[a] = Cardinality(OpenOf(a))
        BY DEF PositionInv, CountMatchesPositions
    <2>3. alive[a] /\ LongOnly(a)
          => cash[a] + Tally(CostOf(a), MaxPositions) = Capital + pnl[a]
        BY DEF PositionInv, LongBooksBalance
    <2>4. LongOnly(a) => RealizedPnl(p, v, fee) = v - positions[p].size - positions[p].fee - fee
        BY <1>0 DEF LongOnly, RealizedPnl
    <2>5. Tally(CostOf(a)', MaxPositions)
          = Tally(CostOf(a), MaxPositions) - (positions[p].size + positions[p].fee)
        BY <1>1, <1>2, <1>3, <1>7
    <2>6. alive'[a] => count'[a] = Cardinality(OpenOf(a)')
        BY <1>6, <1>7, <1>8, <2>1, <2>2 DEF MaxZero
    <2>7. ASSUME alive'[a], LongOnly(a)'
          PROVE  cash'[a] + Tally(CostOf(a)', MaxPositions) = Capital + pnl'[a]
        <3>1. LongOnly(a) /\ alive[a]
            BY <1>4, <1>8, <2>7
        <3>2. cash[a] + Tally(CostOf(a), MaxPositions) = Capital + pnl[a]
            BY <2>3, <3>1
        <3>3. pnl'[a] = pnl[a] + (v - positions[p].size - positions[p].fee - fee)
            BY <2>1, <2>4, <3>1
        <3> QED
            BY <1>1, <1>7, <2>1, <2>5, <3>2, <3>3, LedgerAssumption
    <2> QED
        BY <2>6, <2>7
<1>10. ASSUME NEW b \in Agents, b # a
       PROVE  /\ alive'[b] => count'[b] = Cardinality(OpenOf(b)')
              /\ alive'[b] /\ LongOnly(b)'
                 => cash'[b] + Tally(CostOf(b)', MaxPositions) = Capital + pnl'[b]
    <2>1. cash'[b] = cash[b] /\ count'[b] = count[b] /\ pnl'[b] = pnl[b] /\ alive'[b] = alive[b]
        BY <1>8, <1>10 DEF TypeOK
    <2> QED
        BY <1>2, <1>4, <1>10, <2>1, SameBooks
<1>11. \A i \in PositionIds : positions'[i].status = "none" => positions'[i].side = "buy"
    BY <1>1 DEF PositionInv
<1> QED
    BY <1>9, <1>10, <1>11 DEF PositionInv, CountMatchesPositions, LongBooksBalance

\* Every operation keeps position_count and the long books right.
LEMMA PositionStep == LedgerInv /\ PositionInv /\ [Next]_vars => PositionInv'
<1> SUFFICES ASSUME LedgerInv, PositionInv, [Next]_vars PROVE PositionInv'
    OBVIOUS
<1>0. TypeOK /\ TypeOK'
    BY TypeStep DEF LedgerInv
<1>1. ASSUME UNCHANGED <<cash, count, pnl, alive, positions>> PROVE PositionInv'
    BY <1>1 DEF PositionInv, CountMatchesPositions, LongBooksBalance, LongOnly, CostOf, OpenOf
<1>2. ASSUME NEW a \in Agents, NEW side \in Sides, NEW size \in Sizes, NEW o \in OrderIds,
             NEW p \in PositionIds, ExecuteMarketOrder(a, side, size, o, p)
      PROVE  PositionInv'
    BY <1>0, <1>2, FeeTypes, OpenStep DEF ExecuteMarketOrder
<1>3. ASSUME NEW o \in OrderIds, NEW p \in PositionIds, FillLimitOrder(o, p)
      PROVE  PositionInv'
    <2>1. /\ orders[o].owner \in Agents /\ orders[o].side \in Sides
          /\ orders[o].size \in Sizes
        BY <1>3 DEF FillLimitOrder, LedgerInv, PendingRows, TypeOK, Order
    <2>2. orders[o].size \in Int /\ MakerFee[orders[o].size] \in Int
        BY <2>1, FeeTypes
    <2>3. PICK a \in Agents, side \in Sides, size \in Int, fee \in Int :
              a = orders[o].owner /\ side = orders[o].side /\ size = orders[o].size
              /\ fee = MakerFee[orders[o].size]
        BY <2>1, <2>2
    <2>4. /\ FreshPosition(p) /\ OpenPosition(p, a, side, size, fee)
          /\ cash' = [cash EXCEPT ![a] = @ - (size + fee)]
          /\ count' = [count EXCEPT ![a] = @ + 1]
          /\ pnl' = pnl /\ alive' = alive
        BY <1>3, <2>3 DEF FillLimitOrder
    <2> QED
        BY <1>0, <2>4, OpenStep
<1>4. ASSUME NEW p \in PositionIds, NEW v \in Values,
             ClosePosition(p, v) \/ ExecuteStopLoss(p, v) \/ ExecuteTakeProfit(p, v)
      PROVE  PositionInv'
    <2>1. PICK st \in PositionStatus \ {"open", "none"}, fee \in Int : Settle(p, st, v, fee)
        BY <1>4, FeeTypes
        DEF ClosePosition, ExecuteStopLoss, ExecuteTakeProfit, PositionStatus
    <2>2. v \in Int
        BY FeeTypes
    <2> QED
        BY <1>0, <2>1, <2>2, CloseStep
<1>5. ASSUME NEW a \in Agents, ExecuteDeathProtocol(a)
      PROVE  PositionInv'
    <2>1. /\ cash' = cash /\ pnl' = pnl /\ count' = count
          /\ alive' = [alive EXCEPT ![a] = FALSE]
          /\ \A i \in PositionIds :
                /\ i \notin OpenOf(a) => positions'[i] = positions[i]
                /\ i \in OpenOf(a) => /\ positions'[i].status = "closed"
                                      /\ positions'[i].owner = positions[i].owner
                                      /\ positions'[i].side = positions[i].side
        <3>1. \A i \in PositionIds : positions[i] \in Position
            BY <1>0 DEF TypeOK
        <3> QED
            BY <1>5, <3>1 DEF ExecuteDeathProtocol, Position
    <2>2. ASSUME NEW b \in Agents, b # a
          PROVE  OpenOf(b)' = OpenOf(b) /\ CostOf(b)' = CostOf(b)
        <3>1. \A i \in PositionIds : i \in OpenOf(b)' <=> i \in OpenOf(b)
            BY <2>1, <2>2 DEF OpenOf
        <3>2. \A i \in OpenOf(b) : positions'[i] = positions[i]
            BY <2>1, <2>2 DEF OpenOf
        <3>3. OpenOf(b)' = OpenOf(b)
            BY <3>1 DEF OpenOf
        <3> QED
            BY <3>2, <3>3 DEF CostOf
    <2>3. \A b \in Agents : LongOnly(b)' => LongOnly(b)
        BY <2>1 DEF LongOnly
    <2>4. ~alive'[a] /\ \A b \in Agents : b # a => alive'[b] = alive[b]
        BY <1>0, <2>1 DEF TypeOK
    <2>5. ASSUME NEW b \in Agents
          PROVE  /\ alive'[b] => count'[b] = Cardinality(OpenOf(b)')
                 /\ alive'[b] /\ LongOnly(b)'
                    => cash'[b] + Tally(CostOf(b)', MaxPositions) = Capital + pnl'[b]
        <3>1. CASE b = a
            BY <2>4, <3>1
        <3>2. CASE b # a
            BY <2>1, <2>2, <2>3, <2>4, <3>2, SameBooks
        <3> QED
            BY <3>1, <3>2
    <2>6. \A i \in PositionIds : positions'[i].status = "none" => positions'[i].side = "buy"
        BY <2>1 DEF PositionInv
    <2> QED
        BY <2>5, <2>6 DEF PositionInv, CountMatchesPositions, LongBooksBalance
<1> QED
    BY <1>1, <1>2, <1>3, <1>4, <1>5
    DEF Next, vars, books, RejectOrder, ExecuteLimitOrder, CancelOrder, ExpireOrder

\* Before the first order there is no position.
LEMMA PositionInit == Init => PositionInv
<1> SUFFICES ASSUME Init PROVE PositionInv
    OBVIOUS
<1>1. \A a : OpenOf(a) = {} /\ CostOf(a) = [p \in PositionIds |-> 0]
    BY DEF Init, OpenOf, CostOf, NoPosition
<1>2. \A a : Tally(CostOf(a), MaxPositions) = 0
    <2>1. [p \in PositionIds |-> 0] \in [1..MaxPositions -> Int] /\ MaxPositions \in Nat
          /\ \A p \in 1..MaxPositions : [q \in PositionIds |-> 0][p] = 0
        BY LedgerAssumption DEF PositionIds
    <2> QED
        BY <1>1, <2>1, TallyZero
<1>3. CountMatchesPositions
    BY <1>1, FS_EmptySet DEF CountMatchesPositions, Init
<1>4. LongBooksBalance
    BY <1>2, LedgerAssumption DEF LongBooksBalance, Init
<1> QED
    BY <1>3, <1>4 DEF PositionInv, Init, NoPosition

\* Of an agent that lives, position_count is the number of its open positions,
\* on every path by which a position is opened or closed.
THEOREM CountExact == Spec => []CountMatchesPositions
<1>1. Spec => []PositionInv
    BY LedgerInvariant, PositionInit, PositionStep, PTL DEF Spec
<1> QED
    BY <1>1, PTL DEF PositionInv

\* The books of an agent that never went short balance: cash and what the open
\* positions cost are its capital and its realized profit.
THEOREM LongBooksExact == Spec => []LongBooksBalance
<1>1. Spec => []PositionInv
    BY LedgerInvariant, PositionInit, PositionStep, PTL DEF Spec
<1> QED
    BY <1>1, PTL DEF PositionInv

-------------------------------------------------------------------------------
(* PaperLedger implements CashAccount: every transaction of the books is a *)
(* step of the account (or none).                                          *)

\* The refinement mapping.
Free == [a \in Agents |-> Available(a)]
Hold == [a \in Agents |-> HoldOf(a)]

\* The account sums with the same definition.
LEMMA SameTally == \A f, n : Account!Tally(f, n) = Tally(f, n)
BY DEF Account!Tally, Tally

\* Its orders are the rows of the orders table.
LEMMA SameOrders == Account!Orders = OrderIds
BY DEF Account!Orders, OrderIds

\* A single hold is the sum of what is held, where all the rest is put to 0.
LEMMA TallyOfOne ==
    ASSUME NEW f \in [1..MaxOrders -> Int], NEW o \in OrderIds
    PROVE  Tally([i \in OrderIds |-> IF i \in {o} THEN f[i] ELSE 0], MaxOrders) = f[o]
<1> DEFINE z == [i \in 1..MaxOrders |-> 0]
           g == [i \in OrderIds |-> IF i \in {o} THEN f[i] ELSE 0]
<1>1. MaxOrders \in Nat /\ o \in 1..MaxOrders /\ OrderIds = 1..MaxOrders
    BY LedgerAssumption DEF OrderIds
<1>2. z \in [1..MaxOrders -> Int] /\ g \in [1..MaxOrders -> Int]
      /\ \A i \in 1..MaxOrders : i # o => g[i] = z[i]
    BY <1>1
<1>3. z[o] = 0 /\ g[o] = f[o] /\ f[o] \in Int
    BY <1>1
<1>4. Tally(z, MaxOrders) = 0
    BY <1>1, <1>2, TallyZero
<1>5. Tally(g, MaxOrders) = Tally(z, MaxOrders) + (g[o] - z[o])
    <2> HIDE DEF z, g
    <2> QED
        BY <1>1, <1>2, TallyChange
<1> QED
    BY <1>3, <1>4, <1>5


\* The account starts as one that holds nothing back.
LEMMA AccountInit == Init => Account!Init
<1> SUFFICES ASSUME Init PROVE Account!Init
    OBVIOUS
<1>1. \A a \in Agents : Available(a) = Capital
    BY LedgerAssumption DEF Init, Available
<1>2. Free \in [Agents -> Nat]
    BY <1>1, LedgerAssumption DEF Free
<1>3. Hold = [a \in Agents |-> [o \in OrderIds |-> 0]]
    BY DEF Hold, HoldOf, PendingOf, Init, NoOrder
<1>4. sound = [a \in Agents |-> TRUE]
    BY DEF Init
<1> QED
    BY <1>2, <1>3, <1>4, SameOrders DEF Account!Init, Free, Hold

-------------------------------------------------------------------------------
(* Every step *)

\* When only a's money moves, only a's buying power and holds do.
LEMMA FreeChange ==
    ASSUME NEW a \in Agents, Apart(a)
    PROVE  /\ Free' = [Free EXCEPT ![a] = Available(a)']
           /\ Hold' = [Hold EXCEPT ![a] = HoldOf(a)']
<1>1. \A b \in Agents : Free'[b] = IF b = a THEN Available(a)' ELSE Free[b]
    BY DEF Free, Available, Apart
<1>2. \A b \in Agents : Hold'[b] = IF b = a THEN HoldOf(a)' ELSE Hold[b]
    BY DEF Hold, Apart
<1> QED
    BY <1>1, <1>2 DEF Free, Hold

\* Each operation on money is one operation of the account.
LEMMA AccountMoves ==
    ASSUME LedgerInv, TypeOK', NEW a \in Agents, sound[a], Apart(a), Moves(a)
    PROVE  \/ \E o \in Account!Orders : Account!Reserve(a, o) \/ Account!SpendHeld(a, o)
           \/ \E S \in SUBSET Account!Orders : Account!Return(a, S)
           \/ Account!Spend(a)
           \/ Account!Earn(a)
<1>0. /\ cash[a] \in Int /\ reserved[a] \in Int /\ Available(a) \in Nat
      /\ HoldOf(a) \in [1..MaxOrders -> Nat] /\ OrderIds = 1..MaxOrders
    BY SoundHolds
    DEF LedgerInv, TypeOK, CashCoversReservations, Available, OrderIds
<1>1. /\ Free' = [Free EXCEPT ![a] = Available(a)'] /\ Free[a] = Available(a)
      /\ Hold' = [Hold EXCEPT ![a] = HoldOf(a)'] /\ Hold[a] = HoldOf(a)
    BY FreeChange DEF Free, Hold
<1>s. HoldOf(a)' = HoldOf(a) => Hold' = Hold
    BY <1>1 DEF Hold
<1>2. ASSUME NEW n \in Nat, Pays(a, n) PROVE Account!Spend(a)
    <2>1. Available(a)' = Available(a) - n /\ n \in 0..Available(a)
        BY <1>0, <1>2 DEF Pays, Available
    <2>2. Hold' = Hold
        BY <1>2, <1>s DEF Pays
    <2>3. PICK m \in 0..Free[a] : m = n
        BY <1>1, <2>1
    <2>4. Free' = [Free EXCEPT ![a] = @ - m]
        BY <1>1, <2>1, <2>3
    <2> QED
        BY <2>2, <2>4 DEF Account!Spend, Free, Hold
<1>3. ASSUME NEW n \in Nat, Receives(a, n) PROVE Account!Earn(a)
    <2>1. Available(a)' = Available(a) + n
        BY <1>0, <1>3 DEF Receives, Available
    <2>2. Hold' = Hold
        BY <1>3, <1>s DEF Receives
    <2>3. Free'[a] = Available(a)'
        BY <1>1 DEF Free
    <2>4. Free'[a] - Free[a] \in Nat
        BY <1>0, <1>1, <2>1, <2>3
    <2>5. Free' = [Free EXCEPT ![a] = Free'[a]]
        BY <1>1, <2>3
    <2> QED
        BY <2>2, <2>4, <2>5 DEF Account!Earn, Free, Hold
<1>4. ASSUME NEW n \in Nat, NEW o \in OrderIds, SetsAside(a, o, n)
      PROVE  Account!Reserve(a, o)
    <2>1. Available(a)' = Available(a) - n /\ n \in 0..Available(a)
        BY <1>0, <1>4 DEF SetsAside, Available
    <2>2. Hold[a][o] = 0 /\ Hold' = [Hold EXCEPT ![a][o] = n]
        BY <1>1, <1>4 DEF SetsAside
    <2> QED
        BY <1>1, <2>1, <2>2 DEF Account!Reserve, Free, Hold
<1>5. ASSUME NEW o \in OrderIds, GivesBack(a, o)
      PROVE  Account!Return(a, {o}) \/ Account!SpendHeld(a, o)
    <2>1. HoldOf(a)[o] \in Nat
        BY <1>0
    <2>2. CASE cash'[a] = cash[a] - HoldOf(a)[o]
        <3>1. Available(a)' = Available(a) + HoldOf(a)[o] - HoldOf(a)[o]
            BY <1>0, <1>5, <2>1, <2>2 DEF GivesBack, Available
        <3>2. Hold' = [Hold EXCEPT ![a][o] = 0]
            BY <1>1, <1>5 DEF GivesBack
        <3>3. Hold[a][o] \in 0..Hold[a][o]
            BY <1>1, <2>1
        <3>4. Free' = [Free EXCEPT ![a] = @ + Hold[a][o] - Hold[a][o]]
            BY <1>1, <3>1
        <3> QED
            BY <3>2, <3>3, <3>4 DEF Account!SpendHeld, Free, Hold
    <2>3. CASE cash'[a] = cash[a]
        <3>1. Available(a)' = Available(a) + HoldOf(a)[o]
            BY <1>0, <1>5, <2>1, <2>3 DEF GivesBack, Available
        <3>2. HoldOf(a) \in [1..MaxOrders -> Int]
            BY <1>0
        <3>3. Tally([i \in OrderIds |-> IF i \in {o} THEN Hold[a][i] ELSE 0], MaxOrders)
              = HoldOf(a)[o]
            BY <1>1, <3>2, TallyOfOne
        <3>4. HoldOf(a)' = [i \in OrderIds |-> IF i \in {o} THEN 0 ELSE HoldOf(a)[i]]
            BY <1>0, <1>5 DEF GivesBack
        <3> QED
            BY <1>1, <3>1, <3>3, <3>4, SameTally, SameOrders DEF Account!Return, Free, Hold
    <2> QED
        BY <1>5, <2>2, <2>3 DEF GivesBack
<1>6. ASSUME GivesAllBack(a) PROVE Account!Return(a, OrderIds)
    <2>1. Tally(HoldOf(a), MaxOrders) \in Int
        BY HoldType, TallyType, LedgerAssumption DEF LedgerInv
    <2>2. Available(a)' = Available(a) + Tally(HoldOf(a), MaxOrders)
        BY <1>0, <1>6, <2>1 DEF GivesAllBack, Available
    <2>3. [i \in OrderIds |-> IF i \in OrderIds THEN Hold[a][i] ELSE 0] = HoldOf(a)
        BY <1>0, <1>1
    <2>4. HoldOf(a)' = [i \in OrderIds |-> IF i \in OrderIds THEN 0 ELSE HoldOf(a)[i]]
        BY <1>6 DEF GivesAllBack
    <2> QED
        BY <1>1, <2>2, <2>3, <2>4, SameTally, SameOrders DEF Account!Return, Free, Hold
<1>7. \A o \in OrderIds : {o} \in SUBSET OrderIds
    OBVIOUS
<1> QED
    BY <1>2, <1>3, <1>4, <1>5, <1>6, <1>7, SameOrders DEF Moves

\* Each operation of the ledger is one operation of the account, or none.
LEMMA AccountStep == LedgerInv /\ [Next]_vars => [Account!Next]_<<Free, Hold, sound>>
<1> SUFFICES ASSUME LedgerInv, [Next]_vars
             PROVE  Account!Next \/ UNCHANGED <<Free, Hold, sound>>
    OBVIOUS
<1>0. TypeOK' /\ sound \in [Agents -> BOOLEAN]
    BY TypeStep DEF LedgerInv, TypeOK
<1>1. CASE NoMove
    BY <1>1 DEF NoMove, Free, Hold, Available
<1>2. CASE OneMoves
    <2>1. PICK a \in Agents :
              /\ Apart(a)
              /\ \/ sound' = sound /\ (sound[a] => Moves(a))
                 \/ sound' = [sound EXCEPT ![a] = FALSE]
        BY <1>2 DEF OneMoves
    <2>2. CASE sound[a] /\ sound' = sound /\ Moves(a)
        BY <1>0, <2>1, <2>2, AccountMoves DEF Account!Next
    <2>3. CASE sound' = [sound EXCEPT ![a] = FALSE]
        <3>1. \A b \in Agents \ {a} : Free'[b] = Free[b] /\ Hold'[b] = Hold[b]
            BY <2>1 DEF Apart, Free, Hold, Available
        <3>2. Account!Breach(a)
            BY <2>3, <3>1 DEF Account!Breach, Free, Hold
        <3> QED
            BY <3>2 DEF Account!Next
    <2>4. ~sound[a] /\ sound' = sound => sound' = [sound EXCEPT ![a] = FALSE]
        BY <1>0
    <2> QED
        BY <2>1, <2>2, <2>3, <2>4
<1> QED
    BY <1>1, <1>2, MoneyStep

\* The paper trading books implement the cash account: buying power is spent or
\* set aside only out of itself, and a hold is given up once, by every agent
\* until an amount of its own is negative.
THEOREM LedgerImplementsAccount == Spec => ImplementsCashAccount
<1>1. Init => Account!Init
    BY AccountInit
<1>2. LedgerInv /\ [Next]_vars => [Account!Next]_<<Free, Hold, sound>>
    BY AccountStep
<1> QED
    BY <1>1, <1>2, LedgerInvariant, PTL DEF Spec, ImplementsCashAccount, Account!Spec, Free, Hold

===============================================================================
