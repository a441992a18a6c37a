------------------------------ MODULE CashAccount ------------------------------
(***************************************************************************)
(* What the paper trading books promise, without orders' life cycles,      *)
(* prices or fees.  An agent's money is free, or held for one order.       *)
(* Money is only spent out of what is free or out of what the order being  *)
(* filled holds, and what an order holds is given up exactly once.         *)
(* The promise is made to each agent by itself and ends for an agent, and  *)
(* for no other, with its first negative amount.                           *)
(***************************************************************************)
EXTENDS Integers, Tally

CONSTANTS
    Agents,     \* the owners of accounts
    MaxOrders   \* orders are 1..MaxOrders

VARIABLES
    free,       \* free[a]: buying power
    hold,       \* hold[a][o]: what a has set aside for order o
    sound       \* sound[a]: no amount of a was negative so far

Orders == 1..MaxOrders

TypeOK ==
    /\ free \in [Agents -> Int]
    /\ hold \in [Agents -> [Orders -> Int]]
    /\ sound \in [Agents -> BOOLEAN]

Init ==
    /\ free \in [Agents -> Nat]
    /\ hold = [a \in Agents |-> [o \in Orders |-> 0]]
    /\ sound = [a \in Agents |-> TRUE]

Reserve(a, o) ==
    /\ hold[a][o] = 0
    /\ \E n \in 0..free[a] :
        /\ free' = [free EXCEPT ![a] = @ - n]
        /\ hold' = [hold EXCEPT ![a][o] = n]

\* Every order in S gives back all it holds.
Return(a, S) ==
    /\ free' = [free EXCEPT ![a] =
           @ + Tally([o \in Orders |-> IF o \in S THEN hold[a][o] ELSE 0], MaxOrders)]
    /\ hold' = [hold EXCEPT ![a] = [o \in Orders |-> IF o \in S THEN 0 ELSE @[o]]]

Spend(a) ==
    /\ \E n \in 0..free[a] : free' = [free EXCEPT ![a] = @ - n]
    /\ UNCHANGED hold

\* Order o is filled at no more than it holds; the rest is free again.
SpendHeld(a, o) ==
    /\ \E n \in 0..hold[a][o] : free' = [free EXCEPT ![a] = @ + hold[a][o] - n]
    /\ hold' = [hold EXCEPT ![a][o] = 0]

Earn(a) ==
    /\ free'[a] - free[a] \in Nat
    /\ free' = [free EXCEPT ![a] = free'[a]]
    /\ UNCHANGED hold

\* A negative amount of a, or anything after it: only the others are safe.
Breach(a) ==
    /\ sound' = [sound EXCEPT ![a] = FALSE]
    /\ \A b \in Agents \ {a} : free'[b] = free[b] /\ hold'[b] = hold[b]

Next ==
    \E a \in Agents :
        \/ /\ sound[a]
           /\ UNCHANGED sound
           /\ \/ \E o \in Orders : Reserve(a, o) \/ SpendHeld(a, o)
              \/ \E S \in SUBSET Orders : Return(a, S)
              \/ Spend(a)
              \/ Earn(a)
        \/ Breach(a)

Spec == Init /\ [][Next]_<<free, hold, sound>>

===============================================================================
