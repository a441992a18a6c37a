------------------------------ MODULE RacesProofs ------------------------------
(***************************************************************************)
(* Proofs about two sets of tables that several processes write, for any   *)
(* values of the constants.                                                *)
(*   - PaperRaces: its types, the one position of an order and the one     *)
(*     credit by each process.                                             *)
(*   - Pipeline: its types, and the one prompt of a result.                *)
(* The two share no state.                                                 *)
(***************************************************************************)
EXTENDS PaperRaces, Pipeline, TallyTheorems, FiniteSetTheorems

-------------------------------------------------------------------------------
(* PaperRaces *)

\* An order that is still to be filled has opened nothing, and what was not
\* opened has no position.
OrdersFit ==
    \A t \in Trades : /\ order[t] \in {"none", "pending"} => opened[t] = 0
                      /\ opened[t] = 0 => position[t] = "none"
                      /\ opened[t] <= 1

\* What was credited is closed, for ever.
CreditsFit ==
    \A t \in Trades, p \in Processes : /\ credits[t][p] <= 1
                                       /\ credits[t][p] # 0 => position[t] = "closed"

\* The call in progress works on a trade that nobody has placed, or on a position
\* that the service has not credited.
CallFits ==
    /\ svc.op \in {"market", "limit"} => order[svc.trade] = "none"
    /\ svc.op = "close" => credits[svc.trade]["service"] = 0 /\ position[svc.trade] # "none"

\* The cycle in progress holds orders that have opened nothing, whatever became
\* of them since they were loaded, or positions that no monitor has credited.
CycleFits ==
    /\ mon.op = "limits" => \A t \in mon.todo \cup mon.filled \cup mon.expired :
                                order[t] # "none" /\ opened[t] = 0
    /\ mon.op # "limits" => mon.filled = {} /\ mon.expired = {}
    /\ mon.filled \cap mon.expired = {} /\ mon.todo \cap (mon.filled \cup mon.expired) = {}
    /\ mon.op = "stops" => \A t \in mon.todo \cup mon.closed :
                                credits[t]["monitor"] = 0 /\ position[t] # "none"
    /\ mon.op # "stops" => mon.closed = {}

\* The batch ends what was there.
BatchFits ==
    /\ \A t \in gen.orders : order[t] # "none"
    /\ \A t \in gen.positions : position[t] # "none"

\* The inductive invariant.
RacesInv == TypeOK /\ OrdersFit /\ CreditsFit /\ CallFits /\ CycleFits /\ BatchFits

\* The records of a monitor's cycle.
Cycles == [op : Ops, todo : SUBSET Trades, loaded : BOOLEAN, cash0 : Int, reserved0 : Int,
           cash : Int, reserved : Int, filled : SUBSET Trades,
           expired : SUBSET Trades, closed : SUBSET Trades]

\* A sum of sizes is an integer.
LEMMA SizeOfType == ASSUME NEW S \in SUBSET Trades PROVE SizeOf(S) \in Int
<1> DEFINE f == [t \in Trades |-> IF t \in S THEN Size[t] ELSE 0]
           n == Cardinality(Trades)
<1>1. n \in Nat /\ Trades = 1..n
    BY RacesAssumption, FS_CardinalityType
<1>2. \A t \in Trades : (IF t \in S THEN Size[t] ELSE 0) \in Int
    BY RacesAssumption
<1>3. f \in [1..n -> Int]
    <2> HIDE DEF n
    <2> QED
        BY <1>1, <1>2
<1> HIDE DEF f, n
<1>4. Tally(f, n) \in Int
    BY <1>1, <1>3, TallyType
<1> QED
    BY <1>4 DEF SizeOf, f, n

\* The columns of the agent's row are integers, and the call in progress when
\* there is none works on trade 1.
LEMMA SizeTypes == 1 \in Trades /\ \A t \in Trades : Size[t] \in Int
<1>1. Cardinality(Trades) \in Nat
    BY RacesAssumption, FS_CardinalityType
<1> QED
    BY <1>1, RacesAssumption

\* A column holds an integer whatever of it is written.
LEMMA WrittenType ==
    ASSUME NEW c \in Int, NEW l \in Int, NEW n \in Int
    PROVE  Written(c, l, n) \in Int
BY DEF Written

LEMMA RacesInit == Init => RacesInv
<1> SUFFICES ASSUME Init PROVE RacesInv
    OBVIOUS
<1>1. Capital \in Int /\ 0 \in 0..MaxCalls
    BY RacesAssumption
<1>2. \A t \in Trades : credits[t] = [p \in Processes |-> 0]
    BY DEF Init
<1>3. credits \in [Trades -> [Processes -> Nat]]
    BY DEF Init
<1>4. \A t \in Trades, p \in Processes : credits[t][p] = 0
    BY <1>2
<1>5. /\ svc \in [op : Ops, trade : Trades, cash : Int, reserved : Int]
      /\ mon \in Cycles
      /\ gen \in [op : Ops, reserved : Int, orders : SUBSET Trades, positions : SUBSET Trades]
    BY SizeTypes DEF Init, Idle, IdleCycle, IdleBatch, Ops, Cycles
<1>6. TypeOK
    BY <1>1, <1>3, <1>5 DEF Init, TypeOK, Cycles
<1>7. svc.op = "idle" /\ mon.op = "idle" /\ mon.filled = {} /\ mon.expired = {} /\ mon.closed = {}
      /\ gen.orders = {} /\ gen.positions = {}
    BY DEF Init, Idle, IdleCycle, IdleBatch
<1>8. OrdersFit
    BY DEF Init, OrdersFit
<1> QED
    BY <1>4, <1>6, <1>7, <1>8 DEF RacesInv, CreditsFit, CallFits, CycleFits, BatchFits

-------------------------------------------------------------------------------

\* Loading the agent's row changes the balances of a cycle and nothing else.
LEMMA LoadedKeeps ==
    ASSUME TypeOK
    PROVE  /\ Loaded \in Cycles
           /\ Loaded.op = mon.op /\ Loaded.todo = mon.todo /\ Loaded.filled = mon.filled
           /\ Loaded.expired = mon.expired /\ Loaded.closed = mon.closed
<1>1. CASE mon.loaded
    BY <1>1 DEF Loaded, TypeOK, Cycles
<1>2. CASE ~mon.loaded
    BY <1>2 DEF Loaded, TypeOK, Cycles
<1> QED
    BY <1>1, <1>2

\* A step of the trading service that commits nothing.
LEMMA CallStep ==
    ASSUME RacesInv,
           \/ \E t \in Trades : BeginOrder(t, "market") \/ BeginOrder(t, "limit") \/ BeginClose(t)
           \/ FailCall \/ CrashCall
    PROVE  RacesInv'
<1> USE DEF RacesInv
<1>1. UNCHANGED <<rows, mon, gen>>
    BY DEF BeginOrder, BeginClose, FailCall, CrashCall, rows, env
<1>2. OrdersFit' /\ CreditsFit' /\ CycleFits' /\ BatchFits'
    BY <1>1 DEF rows, OrdersFit, CreditsFit, CycleFits, BatchFits
<1>3. /\ svc' \in [op : Ops, trade : Trades, cash : Int, reserved : Int]
      /\ CallFits'
    <2>1. ASSUME NEW t \in Trades, BeginOrder(t, "market") \/ BeginOrder(t, "limit") PROVE <1>3
        BY <2>1, <1>1 DEF BeginOrder, Fresh, TypeOK, Ops, CallFits, rows
    <2>2. ASSUME NEW t \in Trades, BeginClose(t) PROVE <1>3
        <3>1. credits[t]["service"] = 0
            BY <2>2 DEF CreditsFit, BeginClose, Processes
        <3> QED
            BY <2>2, <3>1, <1>1 DEF BeginClose, TypeOK, Ops, CallFits, rows
    <2>3. CASE FailCall \/ CrashCall
        BY <2>3, SizeTypes DEF FailCall, CrashCall, Idle, Ops, CallFits
    <2> QED
        BY <2>1, <2>2, <2>3
<1>4. lock' \in [Trades -> BOOLEAN]
    BY DEF TypeOK, BeginOrder, BeginClose, FailCall, CrashCall, env
<1>5. calls' \in 0..MaxCalls
    <2>1. calls \in 0..MaxCalls /\ MaxCalls \in Nat
        BY RacesAssumption DEF TypeOK
    <2>2. calls' = calls \/ (calls < MaxCalls /\ calls' = calls + 1)
        BY DEF BeginOrder, BeginClose, FailCall, CrashCall, env, Call
    <2> QED
        BY <2>1, <2>2
<1>6. TypeOK'
    BY <1>1, <1>3, <1>4, <1>5 DEF TypeOK, rows
<1> QED
    BY <1>2, <1>3, <1>6

\* The order of the call is one nobody had placed: it had opened nothing.
LEMMA MarketStep == ASSUME RacesInv, CommitMarketOrder PROVE RacesInv'
<1> USE DEF RacesInv
<1> DEFINE t == svc.trade
<1>1. t \in Trades /\ order[t] = "none" /\ opened[t] = 0 /\ position[t] = "none"
    BY DEF CommitMarketOrder, TypeOK, CallFits, OrdersFit
<1>2. \A p \in Processes : credits[t][p] = 0
    BY <1>1 DEF CreditsFit
<1>3. /\ order' = [order EXCEPT ![t] = "filled"]
      /\ position' = [position EXCEPT ![t] = "open"]
      /\ stop' = [stop EXCEPT ![t] = "set"]
      /\ opened' = [opened EXCEPT ![t] = opened[t] + 1]
      /\ cash' = Written(cash, svc.cash, svc.cash - Size[t]) /\ svc' = Idle
      /\ UNCHANGED <<reserved, alive, credits, env, mon, gen>>
    BY DEF CommitMarketOrder
<1> HIDE DEF t
<1>4. TypeOK'
    <2>1. svc' \in [op : Ops, trade : Trades, cash : Int, reserved : Int]
        BY <1>3, SizeTypes DEF Idle, Ops
    <2>2. cash' \in Int
        <3>1. cash \in Int /\ svc.cash \in Int /\ svc.cash - Size[t] \in Int
            BY <1>1, SizeTypes DEF TypeOK
        <3> QED
            BY <1>3, <3>1, WrittenType
    <2> QED
        BY <1>1, <1>3, <2>1, <2>2 DEF TypeOK, env
<1>5. \A u \in Trades : u # t => /\ order'[u] = order[u] /\ position'[u] = position[u]
                                 /\ opened'[u] = opened[u]
    BY <1>3 DEF TypeOK
<1>6. order'[t] = "filled" /\ position'[t] = "open" /\ opened'[t] = 1
    BY <1>1, <1>3 DEF TypeOK
<1>7. OrdersFit'
    BY <1>5, <1>6 DEF OrdersFit
<1>8. CreditsFit'
    BY <1>2, <1>3, <1>5, <1>6 DEF CreditsFit
<1>9. CallFits'
    BY <1>3 DEF CallFits, Idle
<1>10. CycleFits'
    BY <1>1, <1>3, <1>5, <1>6 DEF CycleFits, TypeOK
<1>11. BatchFits'
    BY <1>3, <1>5, <1>6 DEF BatchFits, TypeOK
<1> QED
    BY <1>4, <1>7, <1>8, <1>9, <1>10, <1>11

LEMMA LimitStep == ASSUME RacesInv, CommitLimitOrder PROVE RacesInv'
<1> USE DEF RacesInv
<1> DEFINE t == svc.trade
<1>1. t \in Trades /\ order[t] = "none" /\ opened[t] = 0
    BY DEF CommitLimitOrder, TypeOK, CallFits, OrdersFit
<1>3. /\ order' = [order EXCEPT ![t] = "pending"]
      /\ reserved' = Written(reserved, svc.reserved, svc.reserved + Size[t]) /\ svc' = Idle
      /\ UNCHANGED <<cash, alive, position, stop, opened, credits, env, mon, gen>>
    BY DEF CommitLimitOrder
<1> HIDE DEF t
<1>4. TypeOK'
    <2>1. svc' \in [op : Ops, trade : Trades, cash : Int, reserved : Int]
        BY <1>3, SizeTypes DEF Idle, Ops
    <2>2. reserved' \in Int
        <3>1. reserved \in Int /\ svc.reserved \in Int /\ svc.reserved + Size[t] \in Int
            BY <1>1, SizeTypes DEF TypeOK
        <3> QED
            BY <1>3, <3>1, WrittenType
    <2> QED
        BY <1>1, <1>3, <2>1, <2>2 DEF TypeOK, env
<1>5. \A u \in Trades : u # t => order'[u] = order[u]
    BY <1>3 DEF TypeOK
<1>6. order'[t] = "pending"
    BY <1>1, <1>3 DEF TypeOK
<1>7. OrdersFit' /\ CreditsFit'
    BY <1>1, <1>3, <1>5, <1>6 DEF OrdersFit, CreditsFit
<1>9. CallFits'
    BY <1>3 DEF CallFits, Idle
<1>10. CycleFits'
    BY <1>1, <1>3, <1>5, <1>6 DEF CycleFits, TypeOK
<1>11. BatchFits'
    BY <1>3, <1>5, <1>6 DEF BatchFits, TypeOK
<1> QED
    BY <1>4, <1>7, <1>9, <1>10, <1>11

\* The service credits a position it has not credited before.
LEMMA CloseStep == ASSUME RacesInv, CommitClose PROVE RacesInv'
<1> USE DEF RacesInv
<1> DEFINE t == svc.trade
<1>1. t \in Trades /\ credits[t]["service"] = 0 /\ position[t] # "none" /\ opened[t] # 0
    BY DEF CommitClose, TypeOK, CallFits, OrdersFit
<1>2. /\ position' = [position EXCEPT ![t] = "closed"]
      /\ credits' = [credits EXCEPT ![t]["service"] = @ + 1]
      /\ lock' = [lock EXCEPT ![t] = FALSE]
      /\ cash' = Written(cash, svc.cash, svc.cash + Size[t]) /\ svc' = Idle
      /\ UNCHANGED <<reserved, alive, order, stop, opened, calls, mon, gen>>
    BY DEF CommitClose, Paid
<1> HIDE DEF t
<1>3. /\ credits' \in [Trades -> [Processes -> Nat]]
      /\ credits'[t]["service"] = 1 /\ credits'[t]["monitor"] = credits[t]["monitor"]
      /\ \A u \in Trades : u # t => credits'[u] = credits[u]
    BY <1>1, <1>2 DEF TypeOK, Processes
<1>4. TypeOK'
    <2>1. svc' \in [op : Ops, trade : Trades, cash : Int, reserved : Int]
        BY <1>2, SizeTypes DEF Idle, Ops
    <2>2. cash' \in Int
        <3>1. cash \in Int /\ svc.cash \in Int /\ svc.cash + Size[t] \in Int
            BY <1>1, SizeTypes DEF TypeOK
        <3> QED
            BY <1>2, <3>1, WrittenType
    <2> QED
        BY <1>1, <1>2, <1>3, <2>1, <2>2 DEF TypeOK
<1>5. position'[t] = "closed" /\ \A u \in Trades : u # t => position'[u] = position[u]
    BY <1>1, <1>2 DEF TypeOK
<1>6. OrdersFit'
    BY <1>1, <1>2, <1>5 DEF OrdersFit
<1>7. CreditsFit'
    BY <1>3, <1>5 DEF CreditsFit, Processes
<1>8. CallFits'
    BY <1>2 DEF CallFits, Idle
<1>9. CycleFits'
    BY <1>1, <1>2, <1>3, <1>5 DEF CycleFits, TypeOK
<1>10. BatchFits'
    BY <1>2, <1>5 DEF BatchFits, TypeOK
<1> QED
    BY <1>4, <1>6, <1>7, <1>8, <1>9, <1>10

-------------------------------------------------------------------------------

\* A step of a monitor that stays in memory.
LEMMA CycleStep ==
    ASSUME RacesInv,
           \/ BeginStops \/ BeginLimits \/ DiscardCycle
           \/ \E t \in Trades : \/ CloseInMemory(t) \/ LeaveOpen(t) \/ SkipPosition(t)
                                \/ FillInMemory(t) \/ ExpireInMemory(t) \/ LeavePending(t)
    PROVE  RacesInv'
<1> USE DEF RacesInv
<1>1. UNCHANGED <<rows, env, svc, gen>>
    BY DEF BeginStops, BeginLimits, CloseInMemory, LeaveOpen, FillInMemory, ExpireInMemory,
           LeavePending, SkipPosition, DiscardCycle
<1>2. UNCHANGED <<cash, reserved, alive, order, position, lock, stop, svc, gen, calls, opened, credits>>
    BY <1>1 DEF rows, env
<1>3. mon \in Cycles
    BY DEF TypeOK, Cycles
<1>4. \A t \in Trades : Size[t] \in Int
    BY SizeTypes
<1>5. mon' \in Cycles /\ CycleFits'
    <2>1. CASE BeginStops
        <3>1. mon' = [IdleCycle EXCEPT !.op = "stops", !.todo = Open]
            BY <2>1 DEF BeginStops
        <3>2. Open \subseteq Trades /\ \A t \in Open : credits[t]["monitor"] = 0 /\ position[t] # "none"
            BY DEF Open, CreditsFit, TypeOK, Processes
        <3>3. /\ mon' \in Cycles
              /\ mon'.op = "stops" /\ mon'.todo = Open
              /\ mon'.filled = {} /\ mon'.expired = {} /\ mon'.closed = {}
            <4>1. mon' = [op |-> "stops", todo |-> Open, loaded |-> FALSE, cash0 |-> 0,
                          reserved0 |-> 0, cash |-> 0, reserved |-> 0, filled |-> {},
                          expired |-> {}, closed |-> {}]
                BY <3>1 DEF IdleCycle
            <4> QED
                BY <3>2, <4>1 DEF Cycles, Ops
        <3> QED
            BY <1>2, <3>2, <3>3 DEF CycleFits
    <2>2. CASE BeginLimits
        <3>1. mon' = [IdleCycle EXCEPT !.op = "limits", !.todo = Pending]
            BY <2>2 DEF BeginLimits
        <3>2. Pending \subseteq Trades /\ \A t \in Pending : order[t] # "none" /\ opened[t] = 0
            BY DEF Pending, OrdersFit
        <3>3. /\ mon' \in Cycles
              /\ mon'.op = "limits" /\ mon'.todo = Pending
              /\ mon'.filled = {} /\ mon'.expired = {} /\ mon'.closed = {}
            <4>1. mon' = [op |-> "limits", todo |-> Pending, loaded |-> FALSE, cash0 |-> 0,
                          reserved0 |-> 0, cash |-> 0, reserved |-> 0, filled |-> {},
                          expired |-> {}, closed |-> {}]
                BY <3>1 DEF IdleCycle
            <4> QED
                BY <3>2, <4>1 DEF Cycles, Ops
        <3> QED
            BY <1>2, <3>2, <3>3 DEF CycleFits
    <2>3. ASSUME NEW t \in Trades, CloseInMemory(t) PROVE <1>5
        <3>1. /\ mon.op = "stops" /\ t \in mon.todo
              /\ mon' = [Loaded EXCEPT !.todo = @ \ {t}, !.closed = @ \cup {t}, !.cash = @ + Size[t]]
            BY <2>3 DEF CloseInMemory
        <3>2. /\ mon' \in Cycles
              /\ mon'.op = mon.op /\ mon'.todo = mon.todo \ {t} /\ mon'.filled = mon.filled
              /\ mon'.expired = mon.expired /\ mon'.closed = mon.closed \cup {t}
            <4> DEFINE todo == mon.todo \ {t}
                       closed == mon.closed \cup {t}
                       c == Loaded.cash + Size[t]
            <4>1. Loaded \in Cycles
                BY LoadedKeeps
            <4>2. todo \in SUBSET Trades /\ closed \in SUBSET Trades /\ c \in Int
                BY <1>3, <1>4, <4>1 DEF Cycles
            <4>3. mon' = [Loaded EXCEPT !.todo = todo, !.closed = closed, !.cash = c]
                BY <3>1, <4>1, LoadedKeeps DEF Cycles
            <4>4. mon'.todo = todo /\ mon'.closed = closed
                BY <4>1, <4>3 DEF Cycles
            <4> HIDE DEF todo, closed, c
            <4>5. mon' \in Cycles
                BY <4>1, <4>2, <4>3 DEF Cycles
            <4>6. /\ mon'.op = Loaded.op /\ mon'.filled = Loaded.filled
                  /\ mon'.expired = Loaded.expired
                BY <4>1, <4>3 DEF Cycles
            <4> QED
                BY <4>4, <4>5, <4>6, LoadedKeeps DEF todo, closed
        <3> QED
            BY <1>2, <3>1, <3>2 DEF CycleFits
    <2>4. ASSUME NEW t \in Trades, LeaveOpen(t) \/ SkipPosition(t) \/ LeavePending(t) PROVE <1>5
        <3>1. mon' = [mon EXCEPT !.todo = @ \ {t}]
            BY <2>4 DEF LeaveOpen, SkipPosition, LeavePending
        <3>2. /\ mon' \in Cycles
              /\ mon'.op = mon.op /\ mon'.todo = mon.todo \ {t} /\ mon'.filled = mon.filled
              /\ mon'.expired = mon.expired /\ mon'.closed = mon.closed
            <4> DEFINE todo == mon.todo \ {t}
            <4>1. todo \in SUBSET Trades /\ mon' = [mon EXCEPT !.todo = todo]
                BY <1>3, <3>1 DEF Cycles
            <4>2. mon'.todo = todo
                BY <1>3, <4>1 DEF Cycles
            <4> HIDE DEF todo
            <4> QED
                BY <1>3, <4>1, <4>2 DEF Cycles, todo
        <3> QED
            BY <1>2, <3>2 DEF CycleFits
    <2>5. ASSUME NEW t \in Trades, FillInMemory(t) PROVE <1>5
        <3>1. /\ mon.op = "limits" /\ t \in mon.todo
              /\ mon' = [Loaded EXCEPT !.todo = @ \ {t}, !.filled = @ \cup {t},
                             !.reserved = Freed(@, t), !.cash = @ - Size[t]]
            BY <2>5 DEF FillInMemory
        <3>2. /\ mon' \in Cycles
              /\ mon'.op = mon.op /\ mon'.todo = mon.todo \ {t} /\ mon'.filled = mon.filled \cup {t}
              /\ mon'.expired = mon.expired /\ mon'.closed = mon.closed
            <4> DEFINE todo == mon.todo \ {t}
                       done == mon.filled \cup {t}
                       r == Freed(Loaded.reserved, t)
                       c == Loaded.cash - Size[t]
            <4>1. Loaded \in Cycles
                BY LoadedKeeps
            <4>2. todo \in SUBSET Trades /\ done \in SUBSET Trades /\ r \in Int /\ c \in Int
                BY <1>3, <1>4, <4>1 DEF Cycles, Freed, MaxZero
            <4>3. mon' = [Loaded EXCEPT !.todo = todo, !.filled = done, !.reserved = r, !.cash = c]
                BY <3>1, <4>1, LoadedKeeps DEF Cycles
            <4>4. mon'.todo = todo /\ mon'.filled = done
                BY <4>1, <4>3 DEF Cycles
            <4> HIDE DEF todo, done, r, c
            <4>5. mon' \in Cycles
                BY <4>1, <4>2, <4>3 DEF Cycles
            <4>6. mon'.op = Loaded.op /\ mon'.expired = Loaded.expired /\ mon'.closed = Loaded.closed
                BY <4>1, <4>3 DEF Cycles
            <4> QED
                BY <4>4, <4>5, <4>6, LoadedKeeps DEF todo, done
        <3> QED
            BY <1>2, <3>1, <3>2 DEF CycleFits
    <2>6. ASSUME NEW t \in Trades, ExpireInMemory(t) PROVE <1>5
        <3>1. /\ mon.op = "limits" /\ t \in mon.todo
              /\ mon' = [Loaded EXCEPT !.todo = @ \ {t}, !.expired = @ \cup {t},
                             !.reserved = Freed(@, t)]
            BY <2>6 DEF ExpireInMemory
        <3>2. /\ mon' \in Cycles
              /\ mon'.op = mon.op /\ mon'.todo = mon.todo \ {t} /\ mon'.filled = mon.filled
              /\ mon'.expired = mon.expired \cup {t} /\ mon'.closed = mon.closed
            <4> DEFINE todo == mon.todo \ {t}
                       done == mon.expired \cup {t}
                       r == Freed(Loaded.reserved, t)
            <4>1. Loaded \in Cycles
                BY LoadedKeeps
            <4>2. todo \in SUBSET Trades /\ done \in SUBSET Trades /\ r \in Int
                BY <1>3, <1>4, <4>1 DEF Cycles, Freed, MaxZero
            <4>3. mon' = [Loaded EXCEPT !.todo = todo, !.expired = done, !.reserved = r]
                BY <3>1, <4>1, LoadedKeeps DEF Cycles
            <4>4. mon'.todo = todo /\ mon'.expired = done
                BY <4>1, <4>3 DEF Cycles
            <4> HIDE DEF todo, done, r
            <4>5. mon' \in Cycles
                BY <4>1, <4>2, <4>3 DEF Cycles
            <4>6. mon'.op = Loaded.op /\ mon'.filled = Loaded.filled /\ mon'.closed = Loaded.closed
                BY <4>1, <4>3 DEF Cycles
            <4> QED
                BY <4>4, <4>5, <4>6, LoadedKeeps DEF todo, done
        <3> QED
            BY <1>2, <3>1, <3>2 DEF CycleFits
    <2>7. CASE DiscardCycle
        BY <2>7 DEF DiscardCycle, IdleCycle, Cycles, Ops, CycleFits
    <2> QED
        BY <2>1, <2>2, <2>3, <2>4, <2>5, <2>6, <2>7
<1>6. TypeOK'
    BY <1>2, <1>5 DEF TypeOK, Cycles
<1>7. OrdersFit' /\ CreditsFit' /\ CallFits' /\ BatchFits'
    BY <1>2 DEF OrdersFit, CreditsFit, CallFits, BatchFits
<1> QED
    BY <1>5, <1>6, <1>7

\* The commit of a cycle fills orders that had opened nothing and credits
\* positions that no monitor had credited.
LEMMA CommitCycleStep == ASSUME RacesInv, CommitCycle PROVE RacesInv'
<1> USE DEF RacesInv
<1>1. /\ mon.filled \subseteq Trades /\ mon.expired \subseteq Trades /\ mon.closed \subseteq Trades
      /\ mon.cash \in Int /\ mon.reserved \in Int /\ mon.cash0 \in Int /\ mon.reserved0 \in Int
    BY DEF TypeOK
<1>2. /\ cash' = Written(cash, mon.cash0, mon.cash)
      /\ reserved' = Written(reserved, mon.reserved0, mon.reserved)
      /\ mon' = IdleCycle
      /\ UNCHANGED <<alive, stop, lock, calls, svc, gen>>
    BY DEF CommitCycle, env
<1>3. /\ order' \in [Trades -> {"none", "pending", "filled", "cancelled", "expired"}]
      /\ \A t \in Trades : order'[t] = IF t \in mon.filled THEN "filled"
                                       ELSE IF t \in mon.expired THEN "expired" ELSE order[t]
    <2> DEFINE new(t) == CASE t \in mon.filled -> "filled"
                           [] t \in mon.expired -> "expired"
                           [] OTHER -> order[t]
    <2>1. order' = [t \in Trades |-> new(t)]
        BY DEF CommitCycle
    <2>2. ASSUME NEW t \in Trades
          PROVE  /\ new(t) \in {"none", "pending", "filled", "cancelled", "expired"}
                 /\ new(t) = IF t \in mon.filled THEN "filled"
                             ELSE IF t \in mon.expired THEN "expired" ELSE order[t]
        <3>1. order[t] \in {"none", "pending", "filled", "cancelled", "expired"}
            BY DEF TypeOK
        <3>2. ~(t \in mon.filled /\ t \in mon.expired)
            BY <1>1 DEF CycleFits
        <3> QED
            BY <3>1, <3>2
    <2> HIDE DEF new
    <2> QED
        BY <2>1, <2>2
<1>4. /\ position' \in [Trades -> {"none", "open", "closed"}]
      /\ \A t \in Trades : position'[t] = IF t \in mon.filled THEN "open"
                                          ELSE IF t \in mon.closed THEN "closed" ELSE position[t]
    <2> DEFINE new(t) == CASE t \in mon.filled -> "open"
                           [] t \in mon.closed -> "closed"
                           [] OTHER -> position[t]
    <2>1. position' = [t \in Trades |-> new(t)]
        BY DEF CommitCycle
    <2>2. ASSUME NEW t \in Trades
          PROVE  /\ new(t) \in {"none", "open", "closed"}
                 /\ new(t) = IF t \in mon.filled THEN "open"
                             ELSE IF t \in mon.closed THEN "closed" ELSE position[t]
        <3>1. position[t] \in {"none", "open", "closed"}
            BY DEF TypeOK
        <3>2. ~(t \in mon.filled /\ t \in mon.closed)
            BY DEF CycleFits
        <3> QED
            BY <3>1, <3>2
    <2> HIDE DEF new
    <2> QED
        BY <2>1, <2>2
<1>5. /\ opened' \in [Trades -> Nat]
      /\ \A t \in Trades : opened'[t] = IF t \in mon.filled THEN opened[t] + 1 ELSE opened[t]
    <2>1. \A t \in Trades : opened[t] \in Nat
        BY DEF TypeOK
    <2> QED
        BY <2>1 DEF CommitCycle
<1>6. /\ credits' \in [Trades -> [Processes -> Nat]]
      /\ \A t \in Trades : credits'[t]["service"] = credits[t]["service"]
      /\ \A t \in Trades : credits'[t]["monitor"] = IF t \in mon.closed THEN credits[t]["monitor"] + 1
                                                    ELSE credits[t]["monitor"]
    <2> DEFINE new(t) == IF t \in mon.closed THEN [credits[t] EXCEPT !["monitor"] = @ + 1] ELSE credits[t]
    <2>1. credits' = [t \in Trades |-> new(t)]
        BY DEF CommitCycle
    <2>2. ASSUME NEW t \in Trades
          PROVE  /\ new(t) \in [Processes -> Nat]
                 /\ new(t)["service"] = credits[t]["service"]
                 /\ new(t)["monitor"] = IF t \in mon.closed THEN credits[t]["monitor"] + 1
                                        ELSE credits[t]["monitor"]
        BY DEF TypeOK, Processes
    <2> HIDE DEF new
    <2> QED
        BY <2>1, <2>2
<1>7. mon' \in Cycles /\ mon'.op = "idle" /\ mon'.filled = {} /\ mon'.expired = {} /\ mon'.closed = {}
    BY <1>2 DEF IdleCycle, Cycles, Ops
<1>8. cash' \in Int /\ reserved' \in Int
    BY <1>1, <1>2, WrittenType DEF TypeOK
<1>9. TypeOK'
    BY <1>2, <1>3, <1>4, <1>5, <1>6, <1>7, <1>8 DEF TypeOK, Cycles
<1>10. \A t \in mon.filled : /\ order[t] # "none" /\ opened[t] = 0 /\ position[t] = "none"
                             /\ t \notin mon.closed
    BY <1>1 DEF CycleFits, OrdersFit
<1>11. \A t \in mon.expired : order[t] # "none" /\ opened[t] = 0
    BY <1>1 DEF CycleFits
<1>12. \A t \in mon.closed : credits[t]["monitor"] = 0 /\ position[t] # "none"
    BY DEF CycleFits
<1>13. OrdersFit'
    BY <1>3, <1>4, <1>5, <1>10, <1>11, <1>12 DEF OrdersFit, TypeOK
<1>14. CreditsFit'
    <2>1. ASSUME NEW t \in mon.filled PROVE credits[t]["service"] = 0 /\ credits[t]["monitor"] = 0
        BY <1>1, <1>10 DEF CreditsFit, Processes
    <2>2. ASSUME NEW t \in Trades
          PROVE  /\ credits'[t]["service"] <= 1 /\ credits'[t]["monitor"] <= 1
                 /\ credits'[t]["service"] # 0 \/ credits'[t]["monitor"] # 0 => position'[t] = "closed"
        <3>1. CASE t \in mon.filled
            BY <1>4, <1>6, <1>10, <2>1, <3>1
        <3>2. CASE t \in mon.closed /\ t \notin mon.filled
            BY <1>4, <1>6, <1>12, <3>2 DEF CreditsFit, Processes
        <3>3. CASE t \notin mon.closed /\ t \notin mon.filled
            BY <1>4, <1>6, <3>3 DEF CreditsFit, Processes
        <3> QED
            BY <3>1, <3>2, <3>3
    <2> QED
        BY <2>2 DEF CreditsFit, Processes
<1>15. CallFits'
    BY <1>2, <1>3, <1>4, <1>6, <1>10, <1>11, <1>12 DEF CallFits, TypeOK
<1>16. CycleFits'
    BY <1>7 DEF CycleFits
<1>17. BatchFits'
    BY <1>2, <1>3, <1>4 DEF BatchFits, TypeOK
<1> QED
    BY <1>9, <1>13, <1>14, <1>15, <1>16, <1>17

-------------------------------------------------------------------------------

\* Genesis reads, and abandons what it read.
LEMMA BatchStep ==
    ASSUME RacesInv, BeginBatch \/ ExecuteDeathProtocol \/ AbandonBatch
    PROVE  RacesInv'
<1> USE DEF RacesInv
<1>1. UNCHANGED <<cash, reserved, alive, order, position, lock, stop, svc, mon, calls, opened, credits>>
    BY DEF BeginBatch, ExecuteDeathProtocol, AbandonBatch, rows, env
<1>2. /\ gen' \in [op : Ops, reserved : Int, orders : SUBSET Trades, positions : SUBSET Trades]
      /\ BatchFits'
    <2>1. CASE BeginBatch
        BY <2>1, <1>1 DEF BeginBatch, IdleBatch, Ops, TypeOK, BatchFits
    <2>2. CASE ExecuteDeathProtocol
        <3>1. Pending \subseteq Trades /\ Open \subseteq Trades
            BY DEF Pending, Open
        <3> DEFINE n == SizeOf(Pending)
        <3>2. n \in Int
            BY <3>1, SizeOfType
        <3> DEFINE r == gen.reserved - n
        <3>3. /\ gen' = [gen EXCEPT !.op = "death", !.orders = Pending, !.positions = Open,
                                    !.reserved = r]
              /\ r \in Int
            BY <2>2, <3>2 DEF ExecuteDeathProtocol, TypeOK
        <3> HIDE DEF n, r
        <3>4. /\ gen' \in [op : Ops, reserved : Int, orders : SUBSET Trades, positions : SUBSET Trades]
              /\ gen'.orders = Pending /\ gen'.positions = Open
            BY <3>1, <3>2, <3>3 DEF TypeOK, Ops
        <3> QED
            BY <1>1, <3>4 DEF BatchFits, Pending, Open
    <2>3. CASE AbandonBatch
        BY <2>3 DEF AbandonBatch, IdleBatch, Ops, BatchFits
    <2> QED
        BY <2>1, <2>2, <2>3
<1>3. TypeOK'
    BY <1>1, <1>2 DEF TypeOK
<1>4. OrdersFit' /\ CreditsFit' /\ CallFits' /\ CycleFits'
    BY <1>1 DEF OrdersFit, CreditsFit, CallFits, CycleFits
<1> QED
    BY <1>2, <1>3, <1>4

\* The commit of a death cancels and closes; it opens and credits nothing.
LEMMA CommitBatchStep == ASSUME RacesInv, CommitBatch PROVE RacesInv'
<1> USE DEF RacesInv
<1>1. /\ gen.orders \subseteq Trades /\ gen.positions \subseteq Trades /\ gen.reserved \in Int
    BY DEF TypeOK
<1>0. reserved' \in Int
    <2>1. gen.reserved + SizeOf(gen.orders) \in Int /\ reserved \in Int
        BY <1>1, SizeOfType DEF TypeOK
    <2> QED
        BY <1>1, <2>1, WrittenType DEF CommitBatch
<1>2. /\ alive' = FALSE /\ reserved' \in Int
      /\ gen' = IdleBatch
      /\ UNCHANGED <<cash, stop, opened, credits, lock, calls, svc, mon>>
    BY <1>0 DEF CommitBatch, env
<1>3. /\ order' \in [Trades -> {"none", "pending", "filled", "cancelled", "expired"}]
      /\ \A t \in Trades : order'[t] = IF t \in gen.orders THEN "cancelled" ELSE order[t]
    BY DEF CommitBatch, TypeOK
<1>4. /\ position' \in [Trades -> {"none", "open", "closed"}]
      /\ \A t \in Trades : position'[t] = IF t \in gen.positions THEN "closed" ELSE position[t]
    BY DEF CommitBatch, TypeOK
<1>5. /\ gen' \in [op : Ops, reserved : Int, orders : SUBSET Trades, positions : SUBSET Trades]
      /\ BatchFits'
    BY <1>2 DEF IdleBatch, Ops, BatchFits
<1>6. TypeOK'
    BY <1>2, <1>3, <1>4, <1>5 DEF TypeOK
<1>7. OrdersFit'
    BY <1>1, <1>2, <1>3, <1>4 DEF OrdersFit, BatchFits
<1>8. CreditsFit'
    BY <1>2, <1>4 DEF CreditsFit
<1>9. CallFits'
    BY <1>2, <1>3, <1>4 DEF CallFits, BatchFits, TypeOK
<1>10. CycleFits'
    BY <1>2, <1>3, <1>4 DEF CycleFits, BatchFits, TypeOK
<1> QED
    BY <1>5, <1>6, <1>7, <1>8, <1>9, <1>10

\* A key expires, a price moves.
LEMMA EnvironmentStep == ASSUME RacesInv, Environment PROVE RacesInv'
<1> USE DEF RacesInv
<1>1. UNCHANGED <<cash, reserved, alive, order, position, svc, mon, gen, calls, opened, credits>>
    BY DEF Environment, ExpireLock, HitStop, rows, env
<1>2. /\ lock' \in [Trades -> BOOLEAN]
      /\ stop' \in [Trades -> {"none", "set", "hit"}]
    BY DEF Environment, ExpireLock, HitStop, rows, env, TypeOK
<1>3. TypeOK'
    BY <1>1, <1>2 DEF TypeOK
<1> QED
    BY <1>1, <1>3 DEF OrdersFit, CreditsFit, CallFits, CycleFits, BatchFits

-------------------------------------------------------------------------------

\* The invariant holds of everything the four processes can do to the rows.
THEOREM RacesInvariant == Spec => []RacesInv
<1>1. RacesInv /\ [Next]_vars => RacesInv'
    <2> SUFFICES ASSUME RacesInv, [Next]_vars PROVE RacesInv'
        OBVIOUS
    <2>1. CASE Service
        BY <2>1, CallStep, MarketStep, LimitStep, CloseStep DEF Service
    <2>2. CASE Monitors
        BY <2>2, CycleStep, CommitCycleStep DEF Monitors
    <2>3. CASE Genesis
        BY <2>3, BatchStep, CommitBatchStep DEF Genesis
    <2>4. CASE Environment
        BY <2>4, EnvironmentStep
    <2>5. CASE UNCHANGED vars
        BY <2>5 DEF vars, RacesInv, TypeOK, OrdersFit, CreditsFit, CallFits, CycleFits, BatchFits
    <2> QED
        BY <2>1, <2>2, <2>3, <2>4, <2>5 DEF Next
<1> QED
    BY RacesInit, <1>1, PTL DEF Spec

\* The rows and the copies of them that the processes hold keep their types.
THEOREM RacesTypesHold == Spec => []TypeOK
<1>1. RacesInv => TypeOK
    BY DEF RacesInv
<1> QED
    BY <1>1, RacesInvariant, PTL

\* An order opens one position, whatever the cycles and the batch that loaded it
\* commit afterwards, and in whatever order.
THEOREM OpensOnce == Spec => []OpenedOnce
<1>1. RacesInv => OpenedOnce
    BY DEF RacesInv, OrdersFit, OpenedOnce
<1> QED
    BY <1>1, RacesInvariant, PTL

\* No process credits the exit of a position twice, though the lock may expire
\* while it is held and the agents process may die with it.
THEOREM CreditsOnce == Spec => []CreditedOncePerProcess
<1>1. RacesInv => CreditedOncePerProcess
    BY DEF RacesInv, CreditsFit, CreditedOncePerProcess
<1> QED
    BY <1>1, RacesInvariant, PTL

-------------------------------------------------------------------------------
(* Pipeline *)

ThinkingCycles == [agent : Agents \union {Nobody},
                   step : {"idle", "consume", "mark", "think", "act"}, rows : SUBSET Results]
Cleanings == [step : {"idle", "expire", "prune"}, opps : SUBSET Opportunities,
              stale : SUBSET Results, old : SUBSET Results]
Statuses == {"none", "pending", "delivered", "failed", "deleted"}
ResultRows == [table : {"none", "archive", "consult"}, status : Statuses,
               owner : Agents \union {Nobody}, attempts : 0 .. MaxAttempts]

\* The cycle holds rows from the moment it rendered them until the model is
\* called.  They went into no prompt.  Until they are marked they may fail and be
\* deleted under it; once they are marked they wait no more.
HeldRows ==
    /\ cycle.step \notin {"mark", "think"} => cycle.rows = {}
    /\ \A r \in cycle.rows : shown[r] = 0
    /\ cycle.step = "mark" =>
           \A r \in cycle.rows : result[r].status \in {"pending", "failed", "deleted"}
    /\ cycle.step = "think" =>
           \A r \in cycle.rows : result[r].status \notin {"none", "pending"}

\* A row that does not exist was not shown.
Unshown == \A r \in Results : result[r].status = "none" => shown[r] = 0

\* The inductive invariant.
PipelineInv ==
    /\ PipelineTypes /\ cycle \in ThinkingCycles /\ cleaning \in Cleanings
    /\ HeldRows /\ Unshown /\ ShownOnce

LEMMA PipelineStart == PipelineInit => PipelineInv
<1> SUFFICES ASSUME PipelineInit PROVE PipelineInv
    OBVIOUS
<1>1. 0 \in 0 .. MaxAttempts /\ 0 \in 0 .. MaxFailures
    BY PipelineAssumption
<1>2. /\ cycle \in ThinkingCycles /\ cleaning \in Cleanings
      /\ cycle.rows = {} /\ cycle.step = "idle"
    BY DEF PipelineInit, NoCycle, NoCleaning, ThinkingCycles, Cleanings
<1>3. result \in [Results -> ResultRows]
      /\ \A r \in Results : result[r].status = "none"
    BY <1>1 DEF PipelineInit, ResultRows, Statuses
<1>4. plan \in [Plans -> [status : {"none", "draft", "submitted"} \union Verdicts,
                          critic : Agents \union {Nobody}, submittedAt : {Nobody}]]
    BY DEF PipelineInit, NoPlan
<1>5. shown \in [Results -> 0 .. 2] /\ \A r \in Results : shown[r] = 0
    BY DEF PipelineInit
<1>6. PipelineTypes
    BY <1>1, <1>2, <1>3, <1>4, <1>5 DEF PipelineInit, PipelineTypes, ResultRows, Statuses
<1> QED
    BY <1>2, <1>3, <1>5, <1>6 DEF PipelineInv, HeldRows, Unshown, ShownOnce

\* Setting the status of some rows: the deleted ones stay deleted.
LEMMA WithStatusRows ==
    ASSUME PipelineInv, NEW held \in SUBSET Results, NEW s \in Statuses
    PROVE  /\ WithStatus(held, s) \in [Results -> ResultRows]
           /\ \A r \in Results : WithStatus(held, s)[r].status =
                  IF r \in held /\ result[r].status # "deleted" THEN s ELSE result[r].status
<1> DEFINE new(r) == IF r \in held /\ result[r].status # "deleted"
                     THEN [result[r] EXCEPT !.status = s] ELSE result[r]
<1>1. ASSUME NEW r \in Results
      PROVE  /\ new(r) \in ResultRows
             /\ new(r).status = IF r \in held /\ result[r].status # "deleted" THEN s
                                ELSE result[r].status
    <2>1. result[r] \in ResultRows
        BY DEF PipelineInv, PipelineTypes, ResultRows, Statuses
    <2> QED
        BY <2>1 DEF ResultRows
<1>2. WithStatus(held, s) = [r \in Results |-> new(r)]
    BY DEF WithStatus
<1> HIDE DEF new
<1> QED
    BY <1>1, <1>2

\* Only waiting rows are consumed, whichever the limit lets through.
LEMMA ConsumableRows ==
    ASSUME NEW a, NEW r \in Consumable(a)
    PROVE  r \in Results /\ result[r].status = "pending" /\ result[r].attempts < MaxAttempts
BY DEF Consumable, Waiting, PendingOf

\* Counting an attempt keeps the statuses, and the count stays within its limit:
\* only what was tried less often is consumed.
LEMMA AttemptedRows ==
    ASSUME PipelineInv, NEW a, NEW rendered
    PROVE  /\ Attempted(Consumable(a), rendered) \in [Results -> ResultRows]
           /\ \A r \in Results : Attempted(Consumable(a), rendered)[r].status = result[r].status
<1> DEFINE held == Consumable(a)
           new(r) == IF r \in held THEN [result[r] EXCEPT !.attempts = @ + 1] ELSE result[r]
<1>1. ASSUME NEW r \in Results
      PROVE  new(r) \in ResultRows /\ new(r).status = result[r].status
    <2>1. result[r] \in ResultRows
        BY DEF PipelineInv, PipelineTypes, ResultRows, Statuses
    <2>2. CASE r \in held
        <3>1. result[r].attempts \in 0 .. MaxAttempts /\ result[r].attempts < MaxAttempts
            BY <2>1, <2>2, ConsumableRows DEF ResultRows
        <3>2. result[r].attempts + 1 \in 0 .. MaxAttempts
            BY <3>1, PipelineAssumption
        <3> DEFINE n == result[r].attempts + 1
        <3>3. new(r) = [result[r] EXCEPT !.attempts = n]
            BY <2>2
        <3> HIDE DEF n, new
        <3>4. n \in 0 .. MaxAttempts
            BY <3>2 DEF n
        <3> QED
            BY <2>1, <3>3, <3>4 DEF ResultRows
    <2>3. CASE r \notin held
        BY <2>1, <2>3
    <2> QED
        BY <2>2, <2>3
<1>2. Attempted(held, rendered) = [r \in Results |-> new(r)]
    BY DEF Attempted
<1> HIDE DEF new
<1> QED
    BY <1>1, <1>2

\* A transaction on the results that commits or fails.
LEMMA CommitsTypes ==
    ASSUME PipelineInv, NEW new \in [Results -> ResultRows], Commits(new)
    PROVE  /\ result' \in [Results -> ResultRows] /\ failures' \in 0 .. MaxFailures
           /\ failures' = failures => result' = new
           /\ failures' # failures => result' = result
<1>1. failures \in 0 .. MaxFailures /\ result \in [Results -> ResultRows]
    BY DEF PipelineInv, PipelineTypes, ResultRows, Statuses
<1> QED
    BY <1>1, PipelineAssumption DEF Commits

-------------------------------------------------------------------------------

\* Steps that change neither the rows nor what the cycle holds.
LEMMA QuietStep ==
    ASSUME PipelineInv, PipelineTypes', cycle' \in ThinkingCycles, cleaning' \in Cleanings,
           UNCHANGED <<shown, cut>>,
           \/ cycle' = cycle
           \/ cycle.rows = {} /\ cycle'.rows = {},
           \A r \in Results : result'[r].status = result[r].status
    PROVE  PipelineInv'
<1>1. HeldRows' /\ Unshown' /\ ShownOnce'
    BY DEF PipelineInv, PipelineTypes, HeldRows, Unshown, ShownOnce
<1> QED
    BY <1>1 DEF PipelineInv

LEMMA StartStep == ASSUME PipelineInv, NEW a \in Agents, StartCycle(a) PROVE PipelineInv'
<1> DEFINE held == {r \in PendingOf(a) : result[r].attempts >= MaxAttempts}
<1>1. held \in SUBSET Results /\ \A r \in held : result[r].status = "pending"
    BY DEF PendingOf
<1>2. /\ cycle = NoCycle
      /\ Commits(WithStatus(held, "failed"))
      /\ cycle' = [agent |-> a, step |-> IF Consumable(a) = {} THEN "think" ELSE "consume", rows |-> {}]
      /\ UNCHANGED <<opportunity, plan, newer, age, shown, cut, cleaning, away>>
    BY DEF StartCycle, CapAttempts
<1> HIDE DEF held
<1>3. /\ result' \in [Results -> ResultRows] /\ failures' \in 0 .. MaxFailures
      /\ \A r \in Results : result'[r].status =
             IF r \in held /\ failures' = failures THEN "failed" ELSE result[r].status
    <2>1. /\ WithStatus(held, "failed") \in [Results -> ResultRows]
          /\ \A r \in Results : WithStatus(held, "failed")[r].status =
                 IF r \in held /\ result[r].status # "deleted" THEN "failed" ELSE result[r].status
        BY <1>1, WithStatusRows DEF Statuses
    <2>2. /\ result' \in [Results -> ResultRows] /\ failures' \in 0 .. MaxFailures
          /\ failures' = failures => result' = WithStatus(held, "failed")
          /\ failures' # failures => result' = result
        BY <1>2, <2>1, CommitsTypes
    <2> QED
        BY <1>1, <2>1, <2>2
<1>4. cycle' \in ThinkingCycles /\ cycle'.rows = {} /\ cycle.rows = {}
    BY <1>2 DEF ThinkingCycles, NoCycle
<1>5. PipelineTypes'
    BY <1>2, <1>3, <1>4 DEF PipelineInv, PipelineTypes, ResultRows, Statuses
<1>6. HeldRows' /\ Unshown'
    BY <1>2, <1>3, <1>4 DEF PipelineInv, HeldRows, Unshown
<1>7. ShownOnce'
    BY <1>2, <1>3, <1>4 DEF PipelineInv, ShownOnce
<1> QED
    BY <1>2, <1>4, <1>5, <1>6, <1>7 DEF PipelineInv

LEMMA ConsumeStep == ASSUME PipelineInv, ConsumeResults PROVE PipelineInv'
<1> DEFINE a == cycle.agent
<1>1. PICK rendered \in SUBSET Consumable(a) :
          /\ Commits(Attempted(Consumable(a), rendered))
          /\ cycle' = IF failures' # failures \/ rendered = {}
                      THEN [cycle EXCEPT !.step = "think"]
                      ELSE [cycle EXCEPT !.step = "mark", !.rows = rendered]
    BY DEF ConsumeResults
<1>2. /\ cycle.step = "consume" /\ cycle.rows = {} /\ cycle \in ThinkingCycles
      /\ UNCHANGED <<opportunity, plan, newer, age, shown, cut, cleaning, away>>
    BY DEF ConsumeResults, PipelineInv, HeldRows
<1>3. /\ result' \in [Results -> ResultRows] /\ failures' \in 0 .. MaxFailures
      /\ \A r \in Results : result'[r].status = result[r].status
    <2>1. /\ Attempted(Consumable(a), rendered) \in [Results -> ResultRows]
          /\ \A r \in Results : Attempted(Consumable(a), rendered)[r].status = result[r].status
        BY AttemptedRows
    <2> QED
        BY <1>1, <2>1, CommitsTypes
<1>4. /\ rendered \subseteq Results
      /\ \A r \in rendered : result[r].status = "pending" /\ shown[r] = 0
    BY <1>1, ConsumableRows DEF PipelineInv, ShownOnce
<1>5. /\ cycle' \in ThinkingCycles
      /\ \/ cycle'.step = "think" /\ cycle'.rows = {}
         \/ cycle'.step = "mark" /\ cycle'.rows = rendered
    BY <1>1, <1>2, <1>4 DEF ThinkingCycles
<1>6. PipelineTypes'
    BY <1>2, <1>3, <1>5 DEF PipelineInv, PipelineTypes, ResultRows, Statuses, ThinkingCycles
<1>7. HeldRows'
    BY <1>2, <1>3, <1>4, <1>5 DEF HeldRows
<1>8. Unshown' /\ ShownOnce'
    BY <1>2, <1>3 DEF PipelineInv, Unshown, ShownOnce
<1> QED
    BY <1>2, <1>5, <1>6, <1>7, <1>8 DEF PipelineInv

\* Rows that are marked stay with the cycle; when the commit fails it lets go of
\* them, and none of them was delivered.
LEMMA MarkStep == ASSUME PipelineInv, MarkDelivered PROVE PipelineInv'
<1> DEFINE held == cycle.rows
<1>1. /\ cycle.step = "mark" /\ Commits(WithStatus(held, "delivered"))
      /\ cycle' = [cycle EXCEPT !.step = "think", !.rows = IF failures' # failures THEN {} ELSE @]
      /\ UNCHANGED <<opportunity, plan, newer, age, shown, cut, cleaning, away>>
    BY DEF MarkDelivered
<1>2. /\ cycle \in ThinkingCycles /\ held \in SUBSET Results
      /\ \A r \in held : shown[r] = 0 /\ result[r].status \in {"pending", "failed", "deleted"}
    BY <1>1 DEF PipelineInv, PipelineTypes, HeldRows
<1>3. /\ cycle' \in ThinkingCycles /\ cycle'.step = "think"
      /\ cycle'.rows = IF failures' = failures THEN held ELSE {}
    BY <1>1, <1>2 DEF ThinkingCycles
<1> HIDE DEF held
<1>4. /\ result' \in [Results -> ResultRows] /\ failures' \in 0 .. MaxFailures
      /\ \A r \in Results : result'[r].status =
             IF r \in held /\ result[r].status # "deleted" /\ failures' = failures
             THEN "delivered" ELSE result[r].status
    <2>1. /\ WithStatus(held, "delivered") \in [Results -> ResultRows]
          /\ \A r \in Results : WithStatus(held, "delivered")[r].status =
                 IF r \in held /\ result[r].status # "deleted" THEN "delivered" ELSE result[r].status
        BY <1>2, WithStatusRows DEF Statuses
    <2>2. /\ result' \in [Results -> ResultRows] /\ failures' \in 0 .. MaxFailures
          /\ failures' = failures => result' = WithStatus(held, "delivered")
          /\ failures' # failures => result' = result
        BY <1>1, <2>1, CommitsTypes
    <2> QED
        BY <2>1, <2>2
<1>5. PipelineTypes'
    BY <1>1, <1>3, <1>4 DEF PipelineInv, PipelineTypes, ResultRows, Statuses, ThinkingCycles
<1>6. HeldRows'
    BY <1>1, <1>2, <1>3, <1>4 DEF HeldRows
<1>7. Unshown'
    BY <1>1, <1>2, <1>4 DEF PipelineInv, Unshown
<1>8. ShownOnce'
    <2>1. \A r \in Results : result[r].status = "delivered" => r \notin held
        BY <1>2
    <2> QED
        BY <1>1, <1>2, <1>3, <1>4, <2>1 DEF PipelineInv, ShownOnce, held
<1> QED
    BY <1>1, <1>3, <1>5, <1>6, <1>7, <1>8 DEF PipelineInv

\* The prompt is the one prompt of the rows that survive its trimming.
LEMMA ModelStep == ASSUME PipelineInv, CallModel PROVE PipelineInv'
<1>1. PICK kept \in SUBSET cycle.rows :
          /\ shown' = [r \in Results |-> IF r \in kept /\ shown[r] < 2 THEN shown[r] + 1 ELSE shown[r]]
          /\ cut' = cut \union (cycle.rows \ kept)
    BY DEF CallModel
<1>2. /\ cycle.step = "think" /\ cycle' = [cycle EXCEPT !.step = "act", !.rows = {}]
      /\ UNCHANGED <<opportunity, plan, result, newer, age, cleaning, away, failures>>
    BY DEF CallModel
<1>3. /\ cycle \in ThinkingCycles /\ cycle.rows \subseteq Results
      /\ \A r \in cycle.rows : shown[r] = 0 /\ result[r].status \notin {"none", "pending"}
    BY <1>2 DEF PipelineInv, PipelineTypes, HeldRows
<1>4. cycle' \in ThinkingCycles /\ cycle'.step = "act" /\ cycle'.rows = {}
    BY <1>2, <1>3 DEF ThinkingCycles
<1>5. /\ shown' \in [Results -> 0 .. 2]
      /\ \A r \in Results : shown'[r] = IF r \in kept THEN 1 ELSE shown[r]
    <2>1. \A r \in Results : shown[r] \in 0 .. 2
        BY DEF PipelineInv, PipelineTypes
    <2> QED
        BY <1>1, <1>3, <2>1
<1>6. PipelineTypes'
    BY <1>1, <1>2, <1>3, <1>4, <1>5 DEF PipelineInv, PipelineTypes
<1>7. HeldRows' /\ Unshown'
    BY <1>1, <1>2, <1>3, <1>4, <1>5 DEF PipelineInv, HeldRows, Unshown
<1>8. ShownOnce'
    BY <1>1, <1>2, <1>3, <1>5 DEF PipelineInv, ShownOnce
<1> QED
    BY <1>2, <1>4, <1>6, <1>7, <1>8 DEF PipelineInv

\* What the model asks for: a new row was not shown.
LEMMA ActStep == ASSUME PipelineInv, Act PROVE PipelineInv'
<1>1. /\ cycle.step = "act" /\ cycle' = NoCycle
      /\ UNCHANGED <<age, shown, cut, cleaning, away, failures>>
    BY DEF Act, BroadcastOpportunity, ProposePlan, CriticVerdict, QueryArchive, ConsultTool, Ask,
           ActElsewhere, Acting, EndCycle
<1>2. /\ cycle \in ThinkingCycles /\ cycle.rows = {}
      /\ cycle' \in ThinkingCycles /\ cycle'.rows = {} /\ cycle'.step = "idle"
    BY <1>1 DEF PipelineInv, HeldRows, NoCycle, ThinkingCycles
<1>3. opportunity' \in [Opportunities -> {"none", "new", "lapsed", "converted", "expired"}]
    BY DEF Act, BroadcastOpportunity, ProposePlan, CriticVerdict, QueryArchive, ConsultTool, Ask,
           ActElsewhere, PipelineInv, PipelineTypes
<1>4. plan' \in [Plans -> [status : {"none", "draft", "submitted"} \union Verdicts,
                           critic : Agents \union {Nobody}, submittedAt : {Nobody}]]
    <2> DEFINE PlanRows == [status : {"none", "draft", "submitted"} \union Verdicts,
                            critic : Agents \union {Nobody}, submittedAt : {Nobody}]
    <2>1. plan \in [Plans -> PlanRows] /\ cycle.agent \in Agents \union {Nobody}
        BY <1>2 DEF PipelineInv, PipelineTypes, ThinkingCycles
    <2>2. ASSUME NEW p \in Plans, NEW o \in Opportunities \union {Nobody}, ProposePlan(p, o)
          PROVE  plan' \in [Plans -> PlanRows]
        BY <2>1, <2>2 DEF ProposePlan
    <2>3. ASSUME NEW p \in Plans, NEW v \in Verdicts, CriticVerdict(p, v)
          PROVE  plan' \in [Plans -> PlanRows]
        BY <2>1, <2>3 DEF CriticVerdict
    <2>4. CASE UNCHANGED plan
        BY <2>1, <2>4
    <2> QED
        BY <2>2, <2>3, <2>4 DEF Act, BroadcastOpportunity, QueryArchive, ConsultTool, Ask, ActElsewhere
<1>5. /\ result' \in [Results -> ResultRows]
      /\ \A r \in Results : \/ result'[r].status = result[r].status
                            \/ result[r].status = "none" /\ result'[r].status \in {"pending", "failed"}
    <2>1. result \in [Results -> ResultRows] /\ cycle.agent \in Agents \union {Nobody}
        BY <1>2 DEF PipelineInv, PipelineTypes, ResultRows, Statuses, ThinkingCycles
    <2>2. ASSUME NEW r \in Results, NEW t \in {"archive", "consult"}, NEW s \in {"pending", "failed"},
                 Ask(r, t, s)
          PROVE  <1>5
        <3> DEFINE row == [result[r] EXCEPT !.table = t, !.status = s, !.owner = cycle.agent]
        <3>1. row \in ResultRows /\ row.status = s
            BY <2>1 DEF ResultRows, Statuses
        <3>2. result' = [result EXCEPT ![r] = row] /\ result[r].status = "none"
            BY <2>1, <2>2 DEF Ask
        <3> HIDE DEF row
        <3> QED
            BY <2>1, <3>1, <3>2
    <2>3. CASE UNCHANGED result
        BY <2>1, <2>3
    <2> QED
        BY <2>2, <2>3 DEF Act, BroadcastOpportunity, ProposePlan, CriticVerdict, QueryArchive,
                          ConsultTool, ActElsewhere
<1>6. newer' \subseteq Results \X Results
    <2>1. newer \subseteq Results \X Results
        BY DEF PipelineInv, PipelineTypes
    <2>2. ASSUME NEW r \in Results, NEW t, NEW s, Ask(r, t, s)
          PROVE  newer' \subseteq Results \X Results
        BY <2>1, <2>2 DEF Ask, Waiting, PendingOf
    <2> QED
        BY <2>1, <2>2 DEF Act, BroadcastOpportunity, ProposePlan, CriticVerdict, QueryArchive,
                          ConsultTool, ActElsewhere
<1>7. PipelineTypes'
    BY <1>1, <1>2, <1>3, <1>4, <1>5, <1>6 DEF PipelineInv, PipelineTypes, ResultRows, Statuses
<1>8. HeldRows'
    BY <1>2 DEF HeldRows
<1>9. Unshown' /\ ShownOnce'
    BY <1>1, <1>2, <1>5 DEF PipelineInv, PipelineTypes, Unshown, ShownOnce
<1> QED
    BY <1>1, <1>2, <1>7, <1>8, <1>9 DEF PipelineInv

\* A row that is forgotten was shown in no prompt, as one that never existed.
LEMMA ForgetStep == ASSUME PipelineInv, NEW r \in Results, Forget(r) PROVE PipelineInv'
<1> DEFINE row == [table |-> "none", status |-> "none", owner |-> Nobody, attempts |-> 0]
<1> USE DEF PipelineInv
<1>1. /\ r \notin cycle.rows
      /\ result' = [result EXCEPT ![r] = row]
      /\ newer' \subseteq newer
      /\ age' = [age EXCEPT ![r] = "new"] /\ shown' = [shown EXCEPT ![r] = 0]
      /\ cut' = cut \ {r}
      /\ UNCHANGED <<opportunity, plan, cycle, cleaning, away, failures>>
    BY DEF Forget
<1>2. row \in ResultRows /\ row.status = "none"
    BY PipelineAssumption DEF ResultRows, Statuses
<1> HIDE DEF row
<1>3. result \in [Results -> ResultRows]
    BY DEF PipelineTypes, ResultRows, Statuses
<1>4. /\ result' \in [Results -> ResultRows]
      /\ result'[r].status = "none"
      /\ \A q \in Results \ {r} : result'[q] = result[q]
    BY <1>1, <1>2, <1>3
<1>5. /\ shown' \in [Results -> 0 .. 2] /\ shown'[r] = 0
      /\ \A q \in Results \ {r} : shown'[q] = shown[q]
    BY <1>1 DEF PipelineTypes
<1>6. PipelineTypes'
    BY <1>1, <1>4, <1>5 DEF PipelineTypes, ResultRows, Statuses
<1>7. HeldRows'
    BY <1>1, <1>4, <1>5 DEF HeldRows, PipelineTypes
<1>8. Unshown' /\ ShownOnce'
    BY <1>1, <1>4, <1>5 DEF Unshown, ShownOnce
<1> QED
    BY <1>1, <1>6, <1>7, <1>8

\* The maintenance fails and deletes rows, whatever the cycle holds.
LEMMA MaintainStep == ASSUME PipelineInv, Maintain PROVE PipelineInv'
<1> USE DEF PipelineInv
<1>1. CASE ExpireStaleOpportunities
    <2>1. cleaning' \in Cleanings
        BY <1>1 DEF ExpireStaleOpportunities, NoCleaning, Stale, Cleanings
    <2>2. UNCHANGED <<opportunity, plan, result, newer, age, shown, cut, cycle, away, failures>>
        BY <1>1 DEF ExpireStaleOpportunities
    <2> QED
        BY <2>1, <2>2, QuietStep DEF PipelineTypes
<1>2. CASE CommitExpired
    <2>1. cleaning' \in Cleanings
        BY <1>2 DEF CommitExpired, PruneConsultResults, Consults, Cleanings
    <2>2. /\ opportunity' = [o \in Opportunities |-> IF o \in cleaning.opps THEN "expired" ELSE opportunity[o]]
          /\ plan' = CleanupStalePlans
          /\ UNCHANGED <<result, newer, age, shown, cut, cycle, away, failures>>
        BY <1>2 DEF CommitExpired
    <2>3. plan' \in [Plans -> [status : {"none", "draft", "submitted"} \union Verdicts,
                               critic : Agents \union {Nobody}, submittedAt : {Nobody}]]
        BY <2>2 DEF CleanupStalePlans, PipelineTypes
    <2>4. PipelineTypes'
        BY <2>2, <2>3 DEF PipelineTypes
    <2> QED
        BY <2>1, <2>2, <2>4, QuietStep
<1>3. CASE CommitPruned
    <2> DEFINE failed == WithStatus(cleaning.stale, "failed")
               new(r) == IF r \in cleaning.old THEN [result[r] EXCEPT !.status = "deleted"] ELSE failed[r]
               rows2 == [r \in Results |-> new(r)]
    <2>1. /\ Commits(rows2) /\ cleaning' = NoCleaning
          /\ UNCHANGED <<opportunity, plan, newer, age, shown, cut, cycle, away>>
        BY <1>3 DEF CommitPruned
    <2>2. /\ failed \in [Results -> ResultRows]
          /\ \A r \in Results : failed[r].status \in {"failed", "deleted", result[r].status}
          /\ \A r \in Results : failed[r].status = "deleted" => result[r].status = "deleted"
        <3>1. cleaning.stale \in SUBSET Results
            BY DEF Cleanings
        <3> QED
            BY <3>1, WithStatusRows DEF Statuses
    <2> HIDE DEF failed
    <2>3. ASSUME NEW r \in Results
          PROVE  new(r) \in ResultRows /\ new(r).status \in {"failed", "deleted", result[r].status}
        <3>1. CASE r \in cleaning.old
            <4>1. result[r] \in ResultRows
                BY DEF PipelineTypes, ResultRows, Statuses
            <4>2. new(r) = [result[r] EXCEPT !.status = "deleted"]
                BY <3>1
            <4> HIDE DEF new
            <4> QED
                BY <4>1, <4>2 DEF ResultRows, Statuses
        <3>2. CASE r \notin cleaning.old
            BY <2>2, <3>2
        <3> QED
            BY <3>1, <3>2
    <2> HIDE DEF new
    <2>4. /\ rows2 \in [Results -> ResultRows]
          /\ \A r \in Results : rows2[r].status \in {"failed", "deleted", result[r].status}
        BY <2>3
    <2> HIDE DEF rows2
    <2>5. /\ result' \in [Results -> ResultRows] /\ failures' \in 0 .. MaxFailures
          /\ \A r \in Results : result'[r].status \in {"failed", "deleted", result[r].status}
        BY <2>1, <2>4, CommitsTypes
    <2>6. cleaning' \in Cleanings
        BY <2>1 DEF NoCleaning, Cleanings
    <2>7. PipelineTypes'
        BY <2>1, <2>5 DEF PipelineTypes, ResultRows, Statuses
    <2>8. HeldRows' /\ Unshown' /\ ShownOnce'
        BY <2>1, <2>5 DEF HeldRows, Unshown, ShownOnce, PipelineTypes
    <2> QED
        BY <2>1, <2>6, <2>7, <2>8
<1> QED
    BY <1>1, <1>2, <1>3 DEF Maintain

\* Time passes, agents leave and come back, a process dies: what a prompt would have
\* shown is cut.
LEMMA PassingStep ==
    ASSUME PipelineInv,
           \/ Passing \/ AgentsDie \/ GenesisDies
           \/ \E a \in Agents : Deactivate(a) \/ Activate(a)
    PROVE  PipelineInv'
<1> USE DEF PipelineInv
<1>1. CASE Passing
    <2>1. UNCHANGED <<plan, result, newer, shown, cut, cycle, cleaning, away, failures>>
        BY <1>1 DEF Passing, Lapse, Older
    <2>2. /\ opportunity' \in [Opportunities -> {"none", "new", "lapsed", "converted", "expired"}]
          /\ age' \in [Results -> {"new", "stale", "old"}]
        BY <1>1 DEF Passing, Lapse, Older, PipelineTypes
    <2>3. PipelineTypes'
        BY <2>1, <2>2 DEF PipelineTypes
    <2> QED
        BY <2>1, <2>3, QuietStep
<1>2. CASE \E a \in Agents : Deactivate(a) \/ Activate(a)
    <2>1. UNCHANGED <<opportunity, plan, result, newer, age, shown, cut, cycle, cleaning, failures>>
          /\ away' \subseteq Agents
        BY <1>2 DEF Deactivate, Activate, PipelineTypes
    <2>2. PipelineTypes'
        BY <2>1 DEF PipelineTypes
    <2> QED
        BY <2>1, <2>2, QuietStep
<1>3. CASE GenesisDies
    <2>1. /\ UNCHANGED <<opportunity, plan, result, newer, age, shown, cut, cycle, away>>
          /\ cleaning' \in Cleanings
        BY <1>3 DEF GenesisDies, NoCleaning, Cleanings
    <2>2. failures' \in 0 .. MaxFailures
        BY <1>3, PipelineAssumption DEF GenesisDies, PipelineTypes
    <2>3. PipelineTypes'
        BY <2>1, <2>2 DEF PipelineTypes
    <2> QED
        BY <2>1, <2>3, QuietStep
<1>4. CASE AgentsDie
    <2>1. /\ cut' = IF cycle.step = "think" THEN cut \union cycle.rows ELSE cut
          /\ UNCHANGED <<opportunity, plan, result, newer, age, shown, cleaning, away>>
          /\ cycle' \in ThinkingCycles /\ cycle'.rows = {} /\ cycle'.step = "idle"
        BY <1>4 DEF AgentsDie, NoCycle, ThinkingCycles
    <2>2. failures' \in 0 .. MaxFailures
        BY <1>4, PipelineAssumption DEF AgentsDie, PipelineTypes
    <2>3. PipelineTypes'
        BY <2>1, <2>2 DEF PipelineTypes
    <2>4. HeldRows' /\ Unshown'
        BY <2>1 DEF HeldRows, Unshown
    <2>5. ShownOnce'
        <3>1. \A r \in cycle.rows : result[r].status = "delivered" => cycle.step = "think"
            BY DEF HeldRows
        <3> QED
            BY <2>1, <3>1 DEF ShownOnce
    <2> QED
        BY <2>1, <2>3, <2>4, <2>5
<1> QED
    BY <1>1, <1>2, <1>3, <1>4

-------------------------------------------------------------------------------

\* The invariant holds of every interleaving of cycles and maintenance, with
\* failed commits and deaths of both processes.
THEOREM PipelineInvariant == PipelineSpec => []PipelineInv
<1>1. PipelineInv /\ [PipelineNext]_pipelineVars => PipelineInv'
    <2> SUFFICES ASSUME PipelineInv, [PipelineNext]_pipelineVars PROVE PipelineInv'
        OBVIOUS
    <2>1. ASSUME NEW a \in Agents, StartCycle(a) PROVE PipelineInv'
        BY <2>1, StartStep
    <2>2. CASE Proceed
        BY <2>2, ConsumeStep, MarkStep, ModelStep DEF Proceed
    <2>3. CASE Act
        BY <2>3, ActStep
    <2>4. CASE Maintain
        BY <2>4, MaintainStep
    <2>5. CASE \/ Passing \/ AgentsDie \/ GenesisDies
               \/ \E a \in Agents : Deactivate(a) \/ Activate(a)
        BY <2>5, PassingStep
    <2>6. ASSUME NEW r \in Results, Forget(r) PROVE PipelineInv'
        BY <2>6, ForgetStep
    <2>7. CASE UNCHANGED pipelineVars
        BY <2>7 DEF pipelineVars, PipelineInv, PipelineTypes, HeldRows, Unshown, ShownOnce
    <2> QED
        BY <2>1, <2>2, <2>3, <2>4, <2>5, <2>6, <2>7 DEF PipelineNext
<1> QED
    BY PipelineStart, <1>1, PTL DEF PipelineSpec

\* The rows keep their types; an attempt is never counted beyond the limit.
THEOREM PipelineTypesHold == PipelineSpec => []PipelineTypes
<1>1. PipelineInv => PipelineTypes
    BY DEF PipelineInv
<1> QED
    BY <1>1, PipelineInvariant, PTL

\* A waiting result goes into at most one prompt, and a delivered one is accounted
\* for, though it is marked before the model is called.
THEOREM PromptedOnce == PipelineSpec => []ShownOnce
<1>1. PipelineInv => ShownOnce
    BY DEF PipelineInv
<1> QED
    BY <1>1, PipelineInvariant, PTL

===============================================================================
