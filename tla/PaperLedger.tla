------------------------------ MODULE PaperLedger ------------------------------
(***************************************************************************)
(* The books of the paper trading engine when every database transaction   *)
(* runs alone: an agent's cash, the cash reserved for its limit orders,    *)
(* its orders and its positions.  One action is one transaction of         *)
(* PaperTradingService, LimitOrderMonitor, PositionMonitor, of the death   *)
(* protocol or of the sanity checker.  PaperRaces has the same             *)
(* transactions split into their reads and their commit.                   *)
(*                                                                         *)
(* Money is in whole units.  Nothing in the code asks for a positive size: *)
(* sizes, and what a position is worth when it closes (a take-profit fills *)
(* at the price the agent wrote), are any integers, and the fee has the    *)
(* sign of the value and never exceeds it.                                 *)
(***************************************************************************)
EXTENDS Integers, FiniteSets, Tally

CONSTANTS
    Agents,        \* the agents that trade
    Capital,       \* the cash an agent starts with
    Sizes,         \* the order sizes (size_usd) agents ask for, of any sign
    Values,        \* what a position may be worth at its exit, of any sign
    MaxOrders,     \* bound: rows of the orders table
    MaxPositions,  \* bound: rows of the positions table
    TakerFee,      \* fee_schedule.calculate_fee(value, "market", ...)
    MakerFee       \* fee_schedule.calculate_fee(value, "limit", ...)

ASSUME LedgerAssumption ==
    /\ Agents # {}
    /\ Capital \in Nat
    /\ Sizes \subseteq Int
    /\ Values \subseteq Int
    /\ MaxOrders \in Nat
    /\ MaxPositions \in Nat
    /\ \A v \in Sizes \cup Values :
        /\ TakerFee[v] \in 0..v \cup v..0
        /\ MakerFee[v] \in 0..v \cup v..0

VARIABLES
    cash,       \* Agent.cash_balance
    reserved,   \* Agent.reserved_cash
    count,      \* Agent.position_count
    pnl,        \* Agent.realized_pnl
    alive,      \* Agent.status = "active"
    orders,     \* the orders table
    positions,  \* the positions table
    sound       \* history: no order of the agent had a negative size, and none
                \* of its positions closed at a negative value

vars == <<cash, reserved, count, pnl, alive, orders, positions, sound>>
books == <<cash, reserved, count, pnl>>

OrderIds == 1..MaxOrders
PositionIds == 1..MaxPositions
Sides == {"buy", "sell"}

OrderStatus == {"none", "rejected", "pending", "filled", "cancelled", "expired"}
PositionStatus == {"none", "open", "closed", "stopped_out", "take_profit_hit"}

\* An order row: its owner, side and size, what it reserved and whether that
\* was given back (reserved_amount, reservation_released).
Order == [owner : Agents, side : Sides, size : Int, held : Int,
          released : BOOLEAN, status : OrderStatus]

\* A position row: its owner, side, size_usd and fees_entry.
Position == [owner : Agents, side : Sides, size : Int, fee : Int,
             status : PositionStatus]

NoOrder == [owner |-> CHOOSE a \in Agents : TRUE, side |-> "buy", size |-> 0,
            held |-> 0, released |-> FALSE, status |-> "none"]
NoPosition == [owner |-> CHOOSE a \in Agents : TRUE, side |-> "buy",
               size |-> 0, fee |-> 0, status |-> "none"]

TypeOK ==
    /\ cash \in [Agents -> Int]
    /\ reserved \in [Agents -> Int]
    /\ count \in [Agents -> Nat]
    /\ pnl \in [Agents -> Int]
    /\ alive \in [Agents -> BOOLEAN]
    /\ orders \in [OrderIds -> Order]
    /\ positions \in [PositionIds -> Position]
    /\ sound \in [Agents -> BOOLEAN]

Init ==
    /\ cash = [a \in Agents |-> Capital]
    /\ reserved = [a \in Agents |-> 0]
    /\ count = [a \in Agents |-> 0]
    /\ pnl = [a \in Agents |-> 0]
    /\ alive = [a \in Agents |-> TRUE]
    /\ orders = [o \in OrderIds |-> NoOrder]
    /\ positions = [p \in PositionIds |-> NoPosition]
    /\ sound = [a \in Agents |-> TRUE]

-------------------------------------------------------------------------------
(* Helpers *)

\* The next row of a table is the first unused id: ids are autoincrement keys.
FreshOrder(o) == orders[o].status = "none" /\ \A i \in 1..(o - 1) : orders[i].status # "none"
FreshPosition(p) ==
    positions[p].status = "none" /\ \A i \in 1..(p - 1) : positions[i].status # "none"

\* Mutant: what is set aside can be spent again.
AvailableIgnoresReserved(a) == cash[a]

\* Buying power, as both trade handlers compute it.
Available(a) == cash[a] - reserved[a]

MaxZero(n) == IF n > 0 THEN n ELSE 0

\* The history notes an amount n of agent a's order or exit.
Note(a, n) == sound' = IF n < 0 THEN [sound EXCEPT ![a] = FALSE] ELSE sound

OpenPosition(p, a, side, size, fee) ==
    positions' = [positions EXCEPT ![p] =
        [owner |-> a, side |-> side, size |-> size, fee |-> fee, status |-> "open"]]

\* Mutant: the entry fee is forgotten.
RealizedPnlForgetsEntryFee(p, v, fee) ==
    (IF positions[p].side = "buy" THEN v - positions[p].size ELSE positions[p].size - v) - fee

\* raw_pnl - fees_entry - exit fee, for a position worth v at its exit.
RealizedPnl(p, v, fee) ==
    LET raw == IF positions[p].side = "buy" THEN v - positions[p].size
                                            ELSE positions[p].size - v
    IN  raw - positions[p].fee - fee

-------------------------------------------------------------------------------
(* PaperTradingService *)

\* The order is refused: by the operator halt, by the Warden or because the
\* buying power does not cover it.  A rejected row is written, nothing else.
RejectOrder(a, side, size, o) ==
    /\ FreshOrder(o)
    /\ orders' = [orders EXCEPT ![o] =
           [owner |-> a, side |-> side, size |-> size, held |-> 0,
            released |-> FALSE, status |-> "rejected"]]
    /\ UNCHANGED <<books, alive, positions, sound>>

\* A market order that the halt check and the Warden let through.
ExecuteMarketOrder(a, side, size, o, p) ==
    LET fee == TakerFee[size]
    IN  /\ FreshOrder(o)
        /\ FreshPosition(p)
        /\ size <= Available(a)
        /\ size + fee <= Available(a)
        /\ OpenPosition(p, a, side, size, fee)
        /\ orders' = [orders EXCEPT ![o] =
               [owner |-> a, side |-> side, size |-> size, held |-> 0,
                released |-> FALSE, status |-> "filled"]]
        /\ cash' = [cash EXCEPT ![a] = @ - (size + fee)]
        /\ count' = [count EXCEPT ![a] = @ + 1]
        /\ Note(a, size)
        /\ UNCHANGED <<reserved, pnl, alive>>

\* Mutant: the reservation is checked against the cash, not the buying power.
ExecuteLimitOrderOnCash(a, side, size, o) ==
    LET reservation == size + MakerFee[size]
    IN  /\ FreshOrder(o)
        /\ reservation <= cash[a]
        /\ orders' = [orders EXCEPT ![o] =
               [owner |-> a, side |-> side, size |-> size, held |-> reservation,
                released |-> FALSE, status |-> "pending"]]
        /\ reserved' = [reserved EXCEPT ![a] = @ + reservation]
        /\ Note(a, size)
        /\ UNCHANGED <<cash, count, pnl, alive, positions>>

\* A limit order that the halt check and the Warden let through: the size and
\* the estimated maker fee are set aside.
ExecuteLimitOrder(a, side, size, o) ==
    LET reservation == size + MakerFee[size]
    IN  /\ FreshOrder(o)
        /\ reservation <= Available(a)
        /\ orders' = [orders EXCEPT ![o] =
               [owner |-> a, side |-> side, size |-> size, held |-> reservation,
                released |-> FALSE, status |-> "pending"]]
        /\ reserved' = [reserved EXCEPT ![a] = @ + reservation]
        /\ Note(a, size)
        /\ UNCHANGED <<cash, count, pnl, alive, positions>>

\* The row o ends in status st, its reservation given back or not.
End(o, st, back) ==
    orders' = [orders EXCEPT ![o] = [@ EXCEPT !.status = st, !.released = back]]

\* Mutant: the order ends, its reservation stays.
ReleaseLeaks(o) == UNCHANGED reserved

\* What order o holds is taken off its owner's reservations, never below zero.
Release(o) ==
    reserved' = [reserved EXCEPT ![orders[o].owner] = MaxZero(@ - orders[o].held)]

\* Only a positive reservation is released here: a cancelled order of negative
\* size leaves what it took off the reservations off them.
CancelOrder(o) ==
    /\ orders[o].status = "pending"
    /\ End(o, "cancelled", orders[o].held > 0)
    /\ IF orders[o].held > 0 THEN Release(o) ELSE UNCHANGED reserved
    /\ UNCHANGED <<cash, count, pnl, alive, positions, sound>>

\* A close by the service or by the position monitor: the row takes status st,
\* the agent is credited the exit value v less the exit fee.
Settle(p, st, v, fee) ==
    LET a == positions[p].owner
    IN  /\ positions[p].status = "open"
        /\ positions' = [positions EXCEPT ![p].status = st]
        /\ cash' = [cash EXCEPT ![a] = @ + (v - fee)]
        /\ pnl' = [pnl EXCEPT ![a] = @ + RealizedPnl(p, v, fee)]
        /\ count' = [count EXCEPT ![a] = MaxZero(@ - 1)]
        /\ Note(a, v)
        /\ UNCHANGED <<reserved, alive, orders>>

ClosePosition(p, v) == Settle(p, "closed", v, TakerFee[v])
ExecuteStopLoss(p, v) == Settle(p, "stopped_out", v, TakerFee[v])
ExecuteTakeProfit(p, v) == Settle(p, "take_profit_hit", v, MakerFee[v])

-------------------------------------------------------------------------------
(* LimitOrderMonitor *)

\* The price crossed the limit.  The agent pays the actual cost, size and
\* maker fee, and gets its reservation back.
FillLimitOrder(o, p) ==
    LET a == orders[o].owner
        size == orders[o].size
        fee == MakerFee[size]
    IN  /\ orders[o].status = "pending"
        /\ FreshPosition(p)
        /\ End(o, "filled", orders[o].held # 0)
        /\ IF orders[o].held # 0 THEN Release(o) ELSE UNCHANGED reserved
        /\ OpenPosition(p, a, orders[o].side, size, fee)
        /\ cash' = [cash EXCEPT ![a] = @ - (size + fee)]
        /\ count' = [count EXCEPT ![a] = @ + 1]
        /\ UNCHANGED <<pnl, alive, sound>>

ExpireOrder(o) ==
    /\ orders[o].status = "pending"
    /\ End(o, "expired", orders[o].held # 0)
    /\ IF orders[o].held # 0 THEN Release(o) ELSE UNCHANGED reserved
    /\ UNCHANGED <<cash, count, pnl, alive, positions, sound>>

-------------------------------------------------------------------------------
(* EvaluationEngine, the orders and positions part of the death protocol *)

PendingOf(a) == {o \in OrderIds : orders[o].owner = a /\ orders[o].status = "pending"}

OpenOf(a) == {p \in PositionIds : positions[p].owner = a /\ positions[p].status = "open"}

\* What each pending order of a holds; 0 for every other row.
HoldOf(a) == [o \in OrderIds |-> IF o \in PendingOf(a) THEN orders[o].held ELSE 0]

\* Every pending order of a is cancelled and its reservation taken off; every
\* open position is marked closed, with no credit and no count update.
ExecuteDeathProtocol(a) ==
    /\ alive[a]
    /\ alive' = [alive EXCEPT ![a] = FALSE]
    /\ reserved' = [reserved EXCEPT ![a] = @ - Tally(HoldOf(a), MaxOrders)]
    /\ orders' = [o \in OrderIds |->
           IF o \in PendingOf(a)
           THEN [orders[o] EXCEPT !.status = "cancelled", !.released = @ \/ orders[o].held # 0]
           ELSE orders[o]]
    /\ positions' = [p \in PositionIds |->
           IF p \in OpenOf(a) THEN [positions[p] EXCEPT !.status = "closed"]
                              ELSE positions[p]]
    /\ UNCHANGED <<cash, count, pnl, sound>>

-------------------------------------------------------------------------------

Next ==
    \/ \E a \in Agents, side \in Sides, size \in Sizes, o \in OrderIds :
        \/ RejectOrder(a, side, size, o)
        \/ \E p \in PositionIds : ExecuteMarketOrder(a, side, size, o, p)
        \/ ExecuteLimitOrder(a, side, size, o)
    \/ \E o \in OrderIds :
        \/ CancelOrder(o)
        \/ \E p \in PositionIds : FillLimitOrder(o, p)
        \/ ExpireOrder(o)
    \/ \E p \in PositionIds, v \in Values :
        ClosePosition(p, v) \/ ExecuteStopLoss(p, v) \/ ExecuteTakeProfit(p, v)
    \/ \E a \in Agents : ExecuteDeathProtocol(a)

Spec == Init /\ [][Next]_vars

-------------------------------------------------------------------------------
(* Properties *)

\* As long as no amount of an agent is negative, its cash covers what its limit
\* orders have set aside, so the cash is never negative, whatever the agents
\* beside it do.
CashCoversReservations ==
    \A a \in Agents : sound[a] => 0 <= reserved[a] /\ reserved[a] <= cash[a]

\* As long as no amount of an agent is negative, the cash set aside is exactly
\* what its pending orders hold: no path (fill, cancel, expiry, death) leaks a
\* reservation or gives one back twice, and the max(0, ...) never cuts.
ReservationsMatchOrders ==
    \A a \in Agents : sound[a] => reserved[a] = Tally(HoldOf(a), MaxOrders)

\* Of a living agent, position_count is the number of its open positions, on
\* every way in (market, limit fill) and out (close, stop, take profit).
CountMatchesPositions ==
    \A a \in Agents : alive[a] => count[a] = Cardinality(OpenOf(a))

\* What a paid for each of its open positions, with the entry fee.
CostOf(a) ==
    [p \in PositionIds |-> IF p \in OpenOf(a) THEN positions[p].size + positions[p].fee ELSE 0]

LongOnly(a) == \A p \in PositionIds : positions[p].owner = a => positions[p].side = "buy"

\* A living agent that never went short has lost or won exactly its realized
\* profit: what it paid for open positions, with the entry fees, is all that
\* is missing from its capital.  True of amounts of any sign.
LongBooksBalance ==
    \A a \in Agents :
        alive[a] /\ LongOnly(a) => cash[a] + Tally(CostOf(a), MaxPositions) = Capital + pnl[a]

\* An agent that holds no position has what it started with plus its realized
\* profit, whichever side it traded.  The kickoff document defines the three
\* numbers so; closing a short credits the buyback cost, so this is false.
FlatBooksBalance ==
    \A a \in Agents : (alive[a] /\ OpenOf(a) = {}) => cash[a] = Capital + pnl[a]

\* PaperTradingSanityChecker.check_cash_balances calls anything else "a bug in
\* the trading engine".  A limit order of negative size raises the buying power
\* above the cash, and a take-profit may have a negative price: this is false.
CashStaysPositive == \A a \in Agents : cash[a] >= 0

\* The books implement CashAccount: buying power is what is free, a pending
\* order holds its reservation, and each reservation is given up exactly once,
\* by every agent until an amount of its own is negative.
Account == INSTANCE CashAccount WITH
    free <- [a \in Agents |-> Available(a)],
    hold <- [a \in Agents |-> HoldOf(a)]

ImplementsCashAccount == Account!Spec

===============================================================================
