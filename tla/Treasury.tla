------------------------------- MODULE Treasury -------------------------------
(***************************************************************************)
(* The treasury is kept in CAD, the capital of agents in USDT.  A balance  *)
(* is what is left of the treasury after a reserve and after what agents   *)
(* were allocated, at the rate of the moment.  Founders and offspring      *)
(* receive their capital without looking at it; the round that follows     *)
(* evaluations hands out what is available, award by award, each checked   *)
(* against a balance of its own.                                           *)
(*                                                                         *)
(* Between a balance and the award it allows, and between two awards, the  *)
(* rate may be fetched anew, the Warden may freeze and agents fall asleep. *)
(***************************************************************************)
EXTENDS Integers, FiniteSets, FiniteSetsExt, Tally

CONSTANTS
    Holders,           \* rows of agents, numbered, that of Genesis included
    GenesisRow,
    Traders,           \* operators: the only ones with a Sharpe ratio, beside Genesis
    FirstHolders,      \* the five founders
    StartingTreasury,  \* CAD
    Rates,             \* CAD for four USDT
    FallbackRate,      \* the one of them taken when Kraken does not answer
    Scores,            \* composite scores above zero
    Birthright,        \* what a child starts with, by its parent's role
    MaxShifts,         \* bound: rates, freezes, risen agents, failed boots and cycles
    MaxRounds          \* bound: evaluations

ASSUME TreasuryAssumption ==
    /\ IsFiniteSet(Holders) /\ Holders = 1 .. Cardinality(Holders)
    /\ GenesisRow \in Holders \ FirstHolders /\ GenesisRow \notin Traders
    /\ Traders \union FirstHolders \subseteq Holders
    /\ {StartingTreasury, MaxShifts, MaxRounds} \subseteq Nat /\ Rates \union Scores \subseteq Nat \ {0}
    /\ FallbackRate \in Rates
    /\ Birthright \in [Holders -> Nat]

VARIABLES
    holder,     \* Agent.status
    allocated,  \* Agent.capital_allocated
    total,      \* SystemState.total_treasury
    rate,       \* what Genesis' currency service answers
    round,      \* the step of the Genesis cycle and the round in progress
    excess,     \* history: how much more was committed than could be, and why not by a round
    shifts, rounds

treasuryVars == <<holder, allocated, total, rate, round, excess, shifts, rounds>>

Statuses == {"none", "initializing", "active", "hibernating", "frozen", "terminated"}
Resting == [step |-> "idle", board |-> {}, awards |-> {}, grant |-> {}, stale |-> FALSE]
Awards == [to : Holders, amount : Nat, lot : {"rank", "random"}]

TreasuryTypes ==
    /\ holder \in [Holders -> Statuses] /\ allocated \in [Holders -> Nat]
    /\ total \in Nat /\ rate \in Rates
    /\ round.step \in {"idle", "boot", "cycle", "leaderboard", "balance", "award", "grant", "births"}
    /\ round.board \subseteq Holders /\ round.awards \union round.grant \subseteq Awards
    /\ round.stale \in BOOLEAN /\ excess \in Nat /\ shifts \in 0 .. MaxShifts
    /\ rounds \in 0 .. MaxRounds

TreasuryInit ==
    /\ holder = [h \in Holders |-> IF h = GenesisRow THEN "active" ELSE "none"]
    /\ allocated = [h \in Holders |-> 0]
    /\ total = StartingTreasury /\ rate = FallbackRate
    /\ round = Resting /\ excess = 0 /\ shifts = 0 /\ rounds = 0

Among(statuses) == {h \in Holders : holder[h] \in statuses}

------------------------------------------------------------------------------
(* Balance and conversion *)

CadToUsdt(cad, quote) == (4 * cad) \div quote
UsdtToCad(usdt, quote) == (usdt * quote) \div 4
Reserve(cad) == cad \div 5

Counted == {"active", "evaluating", "hibernating"}

Sum(of, who) ==
    Tally([h \in Holders |-> IF h \in who THEN of[h] ELSE 0], Cardinality(Holders))

\* get_treasury_balance
Available ==
    Max({0, total - Reserve(total) - UsdtToCad(Sum(allocated, Among(Counted)), rate)})

\* For the property: what agents who live hold, in CAD, beyond what may be held.
Excess(status, held, treasury, quote) ==
    LET living == {h \in Holders : status[h] \in {"active", "hibernating"}}
    IN  Max({0, UsdtToCad(Sum(held, living), quote) - (treasury - Reserve(treasury))})

Explained == excess' = Excess(holder', allocated', total', rate')
Unexplained == excess' = Min({excess, Excess(holder', allocated', total', rate')})

------------------------------------------------------------------------------
(* Births: capital without a look at the balance *)

\* Nobody but Genesis itself is active.
BeginTreasuryBoot ==
    /\ round.step = "idle" /\ Among({"active"}) \subseteq {GenesisRow}
    /\ round' = [Resting EXCEPT !.step = "boot"]
    /\ UNCHANGED <<holder, allocated, total, rate, excess, shifts, rounds>>

\* A fifth of what is above the reserve, at a rate fetched for it.
SpawnHolder(h) ==
    /\ round.step = "boot" /\ h \in FirstHolders /\ holder[h] = "none"
    /\ holder' = [holder EXCEPT ![h] = "initializing"]
    /\ \E quote \in Rates :
          allocated' = [allocated EXCEPT ![h] = CadToUsdt((total - Reserve(total)) \div 5, quote)]
    /\ UNCHANGED <<total, rate, round, shifts, rounds>>
    /\ Explained

OrientHolder(h) ==
    /\ round.step = "boot" /\ holder[h] = "initializing"
    /\ holder' = [holder EXCEPT ![h] = "active"]
    /\ UNCHANGED <<allocated, total, rate, round, shifts, rounds>>
    /\ Explained

\* All founders are there and oriented, or an orientation has failed.
EndTreasuryBoot ==
    /\ round.step = "boot"
    /\ IF \A h \in FirstHolders : holder[h] \notin {"none", "initializing"} THEN UNCHANGED shifts
       ELSE shifts < MaxShifts /\ shifts' = shifts + 1
    /\ round' = [round EXCEPT !.step = "cycle"]
    /\ UNCHANGED <<holder, allocated, total, rate, excess, rounds>>

\* What a child starts with is taken off the treasury and counts as allocated
\* as well; it is USDT or CAD as the place requires.
BearHolder(h) ==
    /\ h \notin FirstHolders /\ holder[h] = "none"
    /\ Birthright[h] <= total - Reserve(total)
    /\ holder' = [holder EXCEPT ![h] = "active"]
    /\ allocated' = [allocated EXCEPT ![h] = Birthright[h]]
    /\ total' = total - Birthright[h]
    /\ Explained

Reproduce ==
    /\ round.step = "births" /\ round' = Resting
    /\ UNCHANGED <<rate, shifts, rounds>>
    /\ \/ \E h \in Holders : BearHolder(h)
       \/ UNCHANGED <<holder, allocated, total, excess>>

------------------------------------------------------------------------------
(* The round *)

\* Genesis has no survival clock.  Without an evaluation there is no round.
EvaluateHolders ==
    /\ \/ round.step = "cycle"
       \/ round.step = "idle" /\ ~(Among({"active"}) \subseteq {GenesisRow})
    /\ \E evaluated \in SUBSET (Among({"active"}) \ {GenesisRow}) :
       \E dead \in SUBSET evaluated :
          /\ rounds' = (IF evaluated = {} THEN rounds ELSE rounds + 1) /\ rounds' <= MaxRounds
          /\ holder' = [h \in Holders |-> IF h \in dead THEN "terminated" ELSE holder[h]]
          /\ round' = [Resting EXCEPT !.step = IF evaluated = {} THEN "births" ELSE "leaderboard"]
    /\ UNCHANGED <<allocated, total, rate, shifts>>
    /\ Unexplained

\* calculate_composite_score adds to a Sharpe ratio that is None for all but
\* operators and Genesis: with anybody else awake the cycle ends here.
Scorable == Among({"active", "evaluating"}) \subseteq Traders \union {GenesisRow}

\* The board: whose score is above zero.
GenerateLeaderboard ==
    /\ round.step = "leaderboard"
    /\ IF Scorable
       THEN \E board \in SUBSET Among({"active", "evaluating"}) :
               round' = [round EXCEPT !.step = "balance", !.board = board]
       ELSE round' = Resting
    /\ UNCHANGED <<holder, allocated, total, rate, excess, shifts, rounds>>

\* Shares of nine tenths by score, whose multiplier is 1 for every title that
\* evaluations give; a tenth goes to a third of the board by lot.
RankAwards(available, score) ==
    {[to |-> h, amount |-> (score[h] * ((9 * available) \div 10)) \div Sum(score, DOMAIN score),
      lot |-> "rank"] : h \in DOMAIN score}
RandomAwards(available, lucky) ==
    {[to |-> h, amount |-> (available \div 10) \div Cardinality(lucky), lot |-> "random"] : h \in lucky}

PerformAllocationRound ==
    /\ round.step = "balance"
    /\ IF Available = 0 \/ round.board = {}
       THEN round' = [Resting EXCEPT !.step = "births"]
       ELSE \E score \in [round.board -> Scores],
               lucky \in kSubset(Max({1, Cardinality(round.board) \div 3}), round.board) :
               round' = [round EXCEPT !.step = "award",
                             !.awards = RankAwards(Available, score) \union RandomAwards(Available, lucky)]
    /\ UNCHANGED <<holder, allocated, total, rate, excess, shifts, rounds>>

\* By rank, then by lot.
NextAward ==
    LET ranked == {w \in round.awards : w.lot = "rank"}
        first == IF ranked # {} THEN ranked ELSE round.awards
    IN  {w \in first : \A v \in first : v.amount <= w.amount}

AllowedByReserve(w) == w.amount <= total - Reserve(total)   \* mutant: a balance without the others
Allowed(w) == w.amount <= Available

\* allocate_capital: an award beyond the balance of now is refused.
AllocateCapital ==
    /\ round.step = "award"
    /\ \/ /\ round.awards = {}
          /\ round' = [Resting EXCEPT !.step = "births"]
       \/ \E w \in NextAward :
          LET rest == [round EXCEPT !.awards = @ \ {w}] IN
          round' = IF Allowed(w) THEN [rest EXCEPT !.step = "grant", !.grant = {w}] ELSE rest
    /\ UNCHANGED <<holder, allocated, total, rate, excess, shifts, rounds>>

\* The amount is converted and the row written after the balance was checked:
\* it may not be true any more.
WriteAward ==
    /\ round.step = "grant"
    /\ \E w \in round.grant :
          allocated' = [allocated EXCEPT ![w.to] = @ + CadToUsdt(w.amount, rate)]
    /\ round' = [round EXCEPT !.step = "award", !.grant = {}, !.stale = FALSE]
    /\ UNCHANGED <<holder, total, rate, shifts, rounds>>
    /\ IF round.stale THEN Explained ELSE Unexplained

\* An exception ends the cycle, or Genesis is restarted.
TreasuryCycleFails ==
    /\ round.step # "idle" /\ shifts < MaxShifts /\ shifts' = shifts + 1
    /\ round' = Resting
    /\ UNCHANGED <<holder, allocated, total, rate, excess, rounds>>

------------------------------------------------------------------------------
(* Meanwhile *)

\* History: an award was checked against the balance of before.
Outdated == [round EXCEPT !.stale = round.step = "grant"]

\* The cached rate is too old: Kraken has another, or the fallback is taken.
GetUsdtCadRate ==
    /\ shifts < MaxShifts /\ shifts' = shifts + 1
    /\ rate' \in Rates \ {rate}
    /\ round' = Outdated
    /\ UNCHANGED <<holder, allocated, total, rounds>>
    /\ Explained

\* The row of Genesis is not spared; what frozen agents hold no longer counts.
FreezeHolders ==
    /\ Among({"active"}) # {} /\ shifts < MaxShifts /\ shifts' = shifts + 1
    /\ holder' = [h \in Holders |-> IF holder[h] = "active" THEN "frozen" ELSE holder[h]]
    /\ UNCHANGED <<allocated, total, rate, round, rounds>>
    /\ Unexplained

HibernateHolder(h) ==
    /\ h # GenesisRow /\ holder[h] = "active"
    /\ holder' = [holder EXCEPT ![h] = "hibernating"]
    /\ UNCHANGED <<allocated, total, rate, round, shifts, rounds>>
    /\ Unexplained

\* The cycle of an agent that died meanwhile ends with its hibernation: it is
\* back, with capital that others may have been given.
RaiseHolder(h) ==
    /\ holder[h] = "terminated" /\ shifts < MaxShifts /\ shifts' = shifts + 1
    /\ holder' = [holder EXCEPT ![h] = "hibernating"]
    /\ round' = Outdated
    /\ UNCHANGED <<allocated, total, rate, rounds>>
    /\ Explained

WakeHolders ==
    /\ round.step = "idle"
    /\ \E woken \in SUBSET Among({"hibernating"}) :
          woken # {} /\ holder' = [h \in Holders |-> IF h \in woken THEN "active" ELSE holder[h]]
    /\ UNCHANGED <<allocated, total, rate, round, shifts, rounds>>
    /\ Unexplained

TreasuryNext ==
    \/ BeginTreasuryBoot \/ (\E h \in Holders : SpawnHolder(h) \/ OrientHolder(h)) \/ EndTreasuryBoot
    \/ EvaluateHolders \/ GenerateLeaderboard \/ PerformAllocationRound
    \/ AllocateCapital \/ WriteAward \/ Reproduce \/ TreasuryCycleFails
    \/ GetUsdtCadRate \/ FreezeHolders \/ WakeHolders
    \/ \E h \in Holders : HibernateHolder(h) \/ RaiseHolder(h)

TreasurySpec == TreasuryInit /\ [][TreasuryNext]_treasuryVars

------------------------------------------------------------------------------
(* "Allocation should not dip into the 20% reserve" (tests/test_treasury.py):  *)
(* whatever happens between and within its awards, a round never commits more  *)
(* than the treasury may, nor adds to an excess that founders, offspring, the  *)
(* rate or agents risen from the dead have caused                              *)
(* (TreasuryManager.allocate_capital).                                         *)
ReserveKept == Excess(holder, allocated, total, rate) <= excess

===============================================================================
