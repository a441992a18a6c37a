------------------------------- MODULE PaperRaces ------------------------------
(***************************************************************************)
(* The transactions of PaperLedger as the processes really run them, on    *)
(* the rows of one agent.  Each process reads rows, works on its copies    *)
(* and writes the columns it changed, as absolute values, when it commits  *)
(* (READ COMMITTED, no row versions).  The processes are                   *)
(*   - the agents process: PaperTradingService, one call at a time;        *)
(*   - the trading process: PositionMonitor and LimitOrderMonitor, whose   *)
(*     cycles do not overlap each other (their awaits never suspend);      *)
(*   - Genesis: an evaluation batch that ends in the agent's death.        *)
(* The Redis lock of a position is a key with a time to live.              *)
(*                                                                         *)
(* An order opens at most one position, so one id names both.  Prices do   *)
(* not move and nothing is charged: what a trade costs is Size[id], of any *)
(* sign, and a close pays Size[id] back.                                   *)
(***************************************************************************)
EXTENDS Integers, FiniteSets, Tally

CONSTANTS
    Trades,     \* ids of orders and of the positions they open
    Size,       \* Size[t]: the dollars trade t costs and pays back
    Capital,    \* the agent's initial cash
    MaxCalls    \* bound: calls the agent makes to the trading service

ASSUME RacesAssumption ==
    /\ IsFiniteSet(Trades) /\ Trades = 1..Cardinality(Trades) /\ Trades # {}
    /\ Size \in [Trades -> Int]
    /\ Capital \in Nat
    /\ MaxCalls \in Nat

VARIABLES
    cash, reserved,  \* the agent's row
    alive,           \* Agent.status = "active"
    order,           \* order[t]: Order.status
    position,        \* position[t]: Position.status
    lock,            \* lock[t]: the key position:{id}:closing exists
    stop,            \* stop[t]: t has no stop loss, has one, has one that is hit
    svc,             \* the call in progress in the agents process
    mon,             \* the cycle in progress in the trading process
    gen,             \* the evaluation batch in progress in Genesis
    calls,           \* calls made so far
    opened,          \* opened[t]: positions opened for t
    credits          \* credits[t]: by whom the exit value of t was committed

vars == <<cash, reserved, alive, order, position, lock, stop, svc, mon, gen,
          calls, opened, credits>>
rows == <<cash, reserved, alive, order, position, stop, opened, credits>>
env == <<lock, calls>>

Processes == {"service", "monitor"}
Ops == {"idle", "market", "limit", "close", "stops", "limits", "batch", "death"}

\* A call of the trading service: the trade and the agent's row as loaded.
Idle == [op |-> "idle", trade |-> 1, cash |-> 0, reserved |-> 0]

\* A monitor cycle: the rows its query returned that are still to be handled,
\* the agent's row as loaded, the balances it will write and what it did.
IdleCycle == [op |-> "idle", todo |-> {}, loaded |-> FALSE, cash0 |-> 0, reserved0 |-> 0,
              cash |-> 0, reserved |-> 0, filled |-> {}, expired |-> {}, closed |-> {}]

\* A batch: reserved_cash as loaded, the orders and positions it ends.
IdleBatch == [op |-> "idle", reserved |-> 0, orders |-> {}, positions |-> {}]

TypeOK ==
    /\ cash \in Int /\ reserved \in Int /\ alive \in BOOLEAN
    /\ order \in [Trades -> {"none", "pending", "filled", "cancelled", "expired"}]
    /\ position \in [Trades -> {"none", "open", "closed"}]
    /\ lock \in [Trades -> BOOLEAN]
    /\ stop \in [Trades -> {"none", "set", "hit"}]
    /\ svc \in [op : Ops, trade : Trades, cash : Int, reserved : Int]
    /\ mon \in [op : Ops, todo : SUBSET Trades, loaded : BOOLEAN, cash0 : Int, reserved0 : Int,
                cash : Int, reserved : Int, filled : SUBSET Trades,
                expired : SUBSET Trades, closed : SUBSET Trades]
    /\ gen \in [op : Ops, reserved : Int, orders : SUBSET Trades, positions : SUBSET Trades]
    /\ calls \in 0..MaxCalls
    /\ opened \in [Trades -> Nat]
    /\ credits \in [Trades -> [Processes -> Nat]]

Init ==
    /\ cash = Capital /\ reserved = 0 /\ alive = TRUE
    /\ order = [t \in Trades |-> "none"]
    /\ position = [t \in Trades |-> "none"]
    /\ lock = [t \in Trades |-> FALSE]
    /\ stop = [t \in Trades |-> "none"]
    /\ svc = Idle /\ mon = IdleCycle /\ gen = IdleBatch
    /\ calls = 0
    /\ opened = [t \in Trades |-> 0]
    /\ credits = [t \in Trades |-> [p \in Processes |-> 0]]

-------------------------------------------------------------------------------
(* Helpers *)

MaxZero(n) == IF n > 0 THEN n ELSE 0

Fresh(t) == order[t] = "none" /\ \A u \in 1..(t - 1) : order[u] # "none"
\* Mutant: the query forgets the status.
PendingOrDone == {t \in Trades : order[t] # "none"}

Pending == {t \in Trades : order[t] = "pending"}
Open == {t \in Trades : position[t] = "open"}

SizeOf(S) == Tally([t \in Trades |-> IF t \in S THEN Size[t] ELSE 0], Cardinality(Trades))

\* Genesis has flushed its updates of the rows and not committed yet: the
\* database makes every other writer of these rows wait.
RowsFree == gen.op # "death"

\* What a commit leaves in a column: an attribute that kept the value it was
\* loaded with is not written.
Written(column, loaded, new) == IF new = loaded THEN column ELSE new

\* The reservation of t taken off the reservations r, never below zero.
Freed(r, t) == IF Size[t] = 0 THEN r ELSE MaxZero(r - Size[t])

Paid(t, p) == credits' = [credits EXCEPT ![t][p] = @ + 1]

-------------------------------------------------------------------------------
(* PaperTradingService in the agents process *)

Call == svc.op = "idle" /\ calls < MaxCalls /\ calls' = calls + 1

\* execute_market_order and execute_limit_order up to the buying power check:
\* the agent's row is read once, before the halt check and the Warden.
BeginOrder(t, op) ==
    /\ Call
    /\ Fresh(t)
    /\ Size[t] <= cash - reserved
    /\ svc' = [op |-> op, trade |-> t, cash |-> cash, reserved |-> reserved]
    /\ UNCHANGED <<rows, lock, mon, gen>>

CommitMarketOrder ==
    LET t == svc.trade
    IN  /\ svc.op = "market"
        /\ RowsFree
        /\ cash' = Written(cash, svc.cash, svc.cash - Size[t])
        /\ order' = [order EXCEPT ![t] = "filled"]
        /\ position' = [position EXCEPT ![t] = "open"]
        /\ stop' = [stop EXCEPT ![t] = "set"]
        /\ opened' = [opened EXCEPT ![t] = @ + 1]
        /\ svc' = Idle
        /\ UNCHANGED <<reserved, alive, credits, env, mon, gen>>

CommitLimitOrder ==
    LET t == svc.trade
    IN  /\ svc.op = "limit"
        /\ RowsFree
        /\ reserved' = Written(reserved, svc.reserved, svc.reserved + Size[t])
        /\ order' = [order EXCEPT ![t] = "pending"]
        /\ svc' = Idle
        /\ UNCHANGED <<cash, alive, position, stop, opened, credits, env, mon, gen>>

\* Mutant: the status is not read under the lock.
BeginCloseUnchecked(t) ==
    /\ Call
    /\ ~lock[t]
    /\ position[t] # "none"
    /\ lock' = [lock EXCEPT ![t] = TRUE]
    /\ svc' = [op |-> "close", trade |-> t, cash |-> cash, reserved |-> reserved]
    /\ UNCHANGED <<rows, mon, gen>>

\* close_position: SET NX of the lock, then the position must be open.
BeginClose(t) ==
    /\ Call
    /\ ~lock[t]
    /\ position[t] = "open"
    /\ lock' = [lock EXCEPT ![t] = TRUE]
    /\ svc' = [op |-> "close", trade |-> t, cash |-> cash, reserved |-> reserved]
    /\ UNCHANGED <<rows, mon, gen>>

\* The commit of the close, then the lock is deleted, whoever holds it by now.
CommitClose ==
    LET t == svc.trade
    IN  /\ svc.op = "close"
        /\ RowsFree
        /\ cash' = Written(cash, svc.cash, svc.cash + Size[t])
        /\ position' = [position EXCEPT ![t] = "closed"]
        /\ Paid(t, "service")
        /\ lock' = [lock EXCEPT ![t] = FALSE]
        /\ svc' = Idle
        /\ UNCHANGED <<reserved, alive, order, stop, opened, calls, mon, gen>>

\* A read fails: the transaction is rolled back and the lock deleted.
FailCall ==
    /\ svc.op # "idle"
    /\ lock' = IF svc.op = "close" THEN [lock EXCEPT ![svc.trade] = FALSE] ELSE lock
    /\ svc' = Idle
    /\ UNCHANGED <<rows, calls, mon, gen>>

\* The agents process dies and is restarted: the lock stays behind.
CrashCall ==
    /\ svc.op # "idle"
    /\ svc' = Idle
    /\ UNCHANGED <<rows, env, mon, gen>>

\* Mutant: the lock is taken without a time to live.
LockStays(t) == FALSE /\ UNCHANGED vars

\* The lock's 30 seconds are over.
ExpireLock(t) ==
    /\ lock[t]
    /\ lock' = [lock EXCEPT ![t] = FALSE]
    /\ UNCHANGED <<rows, calls, svc, mon, gen>>

-------------------------------------------------------------------------------
(* PositionMonitor and LimitOrderMonitor in the trading process *)

BeginStops ==
    /\ mon.op = "idle"
    /\ Open # {}
    /\ mon' = [IdleCycle EXCEPT !.op = "stops", !.todo = Open]
    /\ UNCHANGED <<rows, env, svc, gen>>

BeginLimits ==
    /\ mon.op = "idle"
    /\ Pending # {}
    /\ mon' = [IdleCycle EXCEPT !.op = "limits", !.todo = Pending]
    /\ UNCHANGED <<rows, env, svc, gen>>

\* session.get(Agent): the row is read by the first trade of the cycle that
\* needs it and kept in the session afterwards.
Loaded ==
    IF mon.loaded THEN mon
    ELSE [mon EXCEPT !.loaded = TRUE, !.cash0 = cash, !.reserved0 = reserved,
                     !.cash = cash, !.reserved = reserved]

\* The stop of t is hit and the lock is free.  The lock is taken and given back
\* around changes that are only in memory; position.status is not read again.
CloseInMemory(t) ==
    /\ mon.op = "stops" /\ t \in mon.todo
    /\ stop[t] = "hit" /\ ~lock[t]
    /\ mon' = [Loaded EXCEPT !.todo = @ \ {t}, !.closed = @ \cup {t}, !.cash = @ + Size[t]]
    /\ UNCHANGED <<rows, env, svc, gen>>

\* The ticker of t is missing or stale: the stop is hit and not executed.
SkipPosition(t) ==
    /\ mon.op = "stops" /\ t \in mon.todo
    /\ stop[t] = "hit"
    /\ mon' = [mon EXCEPT !.todo = @ \ {t}]
    /\ UNCHANGED <<rows, env, svc, gen>>

\* The stop is not hit, or another process holds the lock.
LeaveOpen(t) ==
    /\ mon.op = "stops" /\ t \in mon.todo
    /\ stop[t] # "hit" \/ lock[t]
    /\ mon' = [mon EXCEPT !.todo = @ \ {t}]
    /\ UNCHANGED <<rows, env, svc, gen>>

FillInMemory(t) ==
    /\ mon.op = "limits" /\ t \in mon.todo
    /\ mon' = [Loaded EXCEPT !.todo = @ \ {t}, !.filled = @ \cup {t},
                             !.reserved = Freed(@, t), !.cash = @ - Size[t]]
    /\ UNCHANGED <<rows, env, svc, gen>>

ExpireInMemory(t) ==
    /\ mon.op = "limits" /\ t \in mon.todo
    /\ mon' = [Loaded EXCEPT !.todo = @ \ {t}, !.expired = @ \cup {t},
                             !.reserved = Freed(@, t)]
    /\ UNCHANGED <<rows, env, svc, gen>>

LeavePending(t) ==
    /\ mon.op = "limits" /\ t \in mon.todo
    /\ mon' = [mon EXCEPT !.todo = @ \ {t}]
    /\ UNCHANGED <<rows, env, svc, gen>>

\* The tickers cannot be fetched, something raises or the process dies: what the
\* cycle did was only in memory.
DiscardCycle ==
    /\ mon.op # "idle"
    /\ mon' = IdleCycle
    /\ UNCHANGED <<rows, env, svc, gen>>

\* One commit for the whole cycle.
CommitCycle ==
    /\ mon.op # "idle" /\ mon.todo = {}
    /\ RowsFree \/ mon.filled \cup mon.expired \cup mon.closed = {}
    /\ cash' = Written(cash, mon.cash0, mon.cash)
    /\ reserved' = Written(reserved, mon.reserved0, mon.reserved)
    /\ order' = [t \in Trades |-> CASE t \in mon.filled -> "filled"
                                    [] t \in mon.expired -> "expired"
                                    [] OTHER -> order[t]]
    /\ position' = [t \in Trades |-> CASE t \in mon.filled -> "open"
                                       [] t \in mon.closed -> "closed"
                                       [] OTHER -> position[t]]
    /\ credits' = [t \in Trades |->
           IF t \in mon.closed THEN [credits[t] EXCEPT !["monitor"] = @ + 1] ELSE credits[t]]
    /\ opened' = [t \in Trades |-> IF t \in mon.filled THEN opened[t] + 1 ELSE opened[t]]
    /\ mon' = IdleCycle
    /\ UNCHANGED <<alive, stop, env, svc, gen>>

\* The price moves beyond the stop of t and stays there.
HitStop(t) ==
    /\ stop[t] = "set"
    /\ stop' = [stop EXCEPT ![t] = "hit"]
    /\ UNCHANGED <<cash, reserved, alive, order, position, opened, credits, env, svc, mon, gen>>

-------------------------------------------------------------------------------
(* Genesis: evaluate_batch and the death protocol *)

\* _run_evaluations loads the rows of the agents that are due; the data for
\* all of them are gathered and Claude is asked before any decision executes.
BeginBatch ==
    /\ gen.op = "idle" /\ alive
    /\ gen' = [IdleBatch EXCEPT !.op = "batch", !.reserved = reserved]
    /\ UNCHANGED <<rows, env, svc, mon>>

\* The death protocol selects the pending orders and the open positions; the
\* updates are flushed by the next query, and last words are asked for.
ExecuteDeathProtocol ==
    /\ gen.op = "batch"
    /\ gen' = [gen EXCEPT !.op = "death", !.orders = Pending, !.positions = Open,
                          !.reserved = @ - SizeOf(Pending)]
    /\ UNCHANGED <<rows, env, svc, mon>>

\* The commit at the end of _run_evaluations.
CommitBatch ==
    /\ gen.op = "death"
    /\ alive' = FALSE
    /\ reserved' = Written(reserved, gen.reserved + SizeOf(gen.orders), gen.reserved)
    /\ order' = [t \in Trades |-> IF t \in gen.orders THEN "cancelled" ELSE order[t]]
    /\ position' = [t \in Trades |-> IF t \in gen.positions THEN "closed" ELSE position[t]]
    /\ gen' = IdleBatch
    /\ UNCHANGED <<cash, stop, opened, credits, env, svc, mon>>

\* The agent survives, or the protocol raises and all is rolled back.
AbandonBatch ==
    /\ gen.op # "idle"
    /\ gen' = IdleBatch
    /\ UNCHANGED <<rows, env, svc, mon>>

-------------------------------------------------------------------------------

Service ==
    \/ \E t \in Trades : BeginOrder(t, "market") \/ BeginOrder(t, "limit") \/ BeginClose(t)
    \/ CommitMarketOrder \/ CommitLimitOrder \/ CommitClose \/ FailCall \/ CrashCall

Monitors ==
    \/ BeginStops \/ BeginLimits \/ CommitCycle \/ DiscardCycle
    \/ \E t \in Trades :
        \/ CloseInMemory(t) \/ LeaveOpen(t) \/ SkipPosition(t)
        \/ FillInMemory(t) \/ ExpireInMemory(t) \/ LeavePending(t)

Genesis == BeginBatch \/ ExecuteDeathProtocol \/ CommitBatch \/ AbandonBatch

Environment == \E t \in Trades : ExpireLock(t) \/ HitStop(t)

Next == Service \/ Monitors \/ Genesis \/ Environment

\* Each monitor loops for ever and the event loop runs both in turn (strong
\* fairness of their cycles' beginnings); a key with a time to live goes away;
\* Genesis's calls to Claude return or raise.  A commit that waits for a row is
\* served when the row is released, before a later transaction can take it
\* again: strong fairness.
Fairness ==
    /\ SF_vars(BeginStops) /\ SF_vars(BeginLimits)
    /\ WF_vars(Monitors) /\ SF_vars(CommitCycle)
    /\ \A t \in Trades : WF_vars(ExpireLock(t))
    /\ WF_vars(CommitBatch \/ AbandonBatch)

Spec == Init /\ [][Next]_vars /\ Fairness

-------------------------------------------------------------------------------
(* Properties *)

\* An order opens one position, even when a cycle that loaded it as pending
\* commits after Genesis cancelled it: once filled or cancelled, no commit makes
\* it pending again.
OpenedOnce == \A t \in Trades : opened[t] <= 1

\* Each process credits the exit of a position at most once: a double close
\* takes both processes.
CreditedOncePerProcess == \A t \in Trades, p \in Processes : credits[t][p] <= 1

\* A position is closed and credited once: what the docstring of
\* close_position says its Redis lock ensures.
NoDoubleClose ==
    \A t \in Trades : credits[t]["service"] + credits[t]["monitor"] <= 1

\* A cycle could have closed t and did not.
Missed(t) ==
    \/ SkipPosition(t) /\ ~lock[t]
    \/ DiscardCycle /\ mon.op = "stops" /\ t \in mon.todo \cup mon.closed

\* A position beyond its stop is closed in the end, though the agents process
\* may die with the lock taken and Genesis may hold the rows for a while, unless
\* for ever there is again a cycle without its price or one that is discarded.
StopsExecute ==
    \A t \in Trades :
        \/ []<><<Missed(t)>>_vars
        \/ (position[t] = "open" /\ stop[t] = "hit") ~> position[t] = "closed"

===============================================================================
