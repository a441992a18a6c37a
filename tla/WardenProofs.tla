----------------------------- MODULE WardenProofs -----------------------------
(***************************************************************************)
(* Proofs about what guards the colony, for any values of the constants.   *)
(*   - Warden and the trade gate: the types, the one order that may be     *)
(*     late and the freezes.                                               *)
(*   - Treasury: the types, and the reserve that no round hands out.       *)
(*   - Arena: the types, the verification of a boot, and the verdicts of   *)
(*     the review queue, which it implements.                              *)
(* The three share no state.                                               *)
(***************************************************************************)
EXTENDS Warden, Treasury, Arena, TallyTheorems, FiniteSetTheorems

\* The order that is past the gate and not written yet.
PastGate == IF gate.call = "approved" THEN 1 ELSE 0

\* While the alert is not green, what was written late and what can still be
\* are one order together.
LateBounded == dbAlert # "green" => late + PastGate <= 1

\* Until a request is queued, the alert of the Warden process comes from its
\* own assessments only.
SeverityEarned ==
    pushed = 0 =>
        /\ requests = 0
        /\ {warden.alert, warden.old} \intersect Severe # {} => severe
        /\ (\E a \in Agents : status[a] = "frozen") => severe

\* The inductive invariant.
WardenInv == TypeOK /\ LateBounded /\ SeverityEarned

-------------------------------------------------------------------------------
(* Lemmas *)

\* The snapshots that are kept fit the window.
LEMMA WindowTypes ==
    ASSUME NEW snapshots \in Seq(Nat)
    PROVE  InWindow(snapshots) \in Seq(Nat) /\ Len(InWindow(snapshots)) <= Window
<1> DEFINE n == Len(snapshots) - Window + 1
           first == Max({1, n})
<1>1. n \in Int /\ Len(snapshots) \in Nat /\ Window \in Nat \ {0}
    BY WardenAssumption
<1>2. first \in {1, n} /\ first >= 1 /\ first >= n
    <2>1. \E x \in {1, n} : \A y \in {1, n} : x >= y
        BY <1>1
    <2> QED
        BY <2>1 DEF Max
<1>3. first \in Nat /\ InWindow(snapshots) = SubSeq(snapshots, first, Len(snapshots))
    BY <1>1, <1>2 DEF InWindow
<1> HIDE DEF first
<1>4. InWindow(snapshots) \in Seq(Nat)
    BY <1>1, <1>2, <1>3
<1>5. Len(InWindow(snapshots)) = IF first <= Len(snapshots) THEN Len(snapshots) - first + 1 ELSE 0
    BY <1>1, <1>2, <1>3
<1> QED
    BY <1>1, <1>2, <1>3, <1>4, <1>5

\* An assessment is one of the four alerts.
LEMMA AssessedTypes ==
    ASSUME NEW t, NEW p, NEW snapshots, NEW alert \in Alerts
    PROVE  Assessed(t, p, snapshots, alert) \in Alerts
BY DEF Assessed, Alerts

\* So is what the gate reads.
LEMMA RefreshedTypes == TypeOK => Refreshed \in Alerts
BY DEF TypeOK, Refreshed, Alerts

-------------------------------------------------------------------------------
(* The initial states and every step *)

LEMMA InitInv == Init => WardenInv
<1> SUFFICES ASSUME Init PROVE WardenInv
    OBVIOUS
<1>1. <<>> \in Seq(Nat) /\ Len(<<>>) <= Window /\ "green" \in Alerts
    BY WardenAssumption DEF Alerts
<1>2. TypeOK
    <2>1. /\ warden \in [pc : {"idle", "requests", "write"}, alert : Alerts, old : Alerts,
                         snapshots : Seq(Nat)]
          /\ Len(warden.snapshots) <= Window
        BY <1>1 DEF Init, NewWarden
    <2>2. /\ treasury \in Nat /\ peak \in Nat /\ late \in Nat
          /\ pushed \in 0..MaxRequests /\ requests \in 0..pushed /\ faults \in 0..MaxFaults
        BY WardenAssumption DEF Init
    <2> QED
        BY <1>1, <2>1, <2>2 DEF Init, TypeOK
<1>3. LateBounded /\ SeverityEarned
    BY DEF Init, LateBounded, SeverityEarned, PastGate, NewWarden, Severe
<1> QED
    BY <1>2, <1>3 DEF WardenInv

\* A fault is counted within its bound.
LEMMA FaultTypes == TypeOK /\ Fault => faults' \in 0..MaxFaults
BY WardenAssumption DEF TypeOK, Fault

LEMMA TypeStep == TypeOK /\ [Next]_vars => TypeOK'
<1> SUFFICES ASSUME TypeOK, [Next]_vars PROVE TypeOK'
    OBVIOUS
<1> USE DEF TypeOK, state, counts, history
<1>1. CASE Assess
    <2> DEFINE seen == InWindow(Append(warden.snapshots, treasury))
               alert == Assessed(treasury, peak, seen, warden.alert)
    <2>1. seen \in Seq(Nat) /\ Len(seen) <= Window
        <3>1. warden.snapshots \in Seq(Nat) /\ treasury \in Nat
            OBVIOUS
        <3>2. Append(warden.snapshots, treasury) \in Seq(Nat)
            BY <3>1
        <3> QED
            BY <3>2, WindowTypes
    <2>2. alert \in Alerts
        BY AssessedTypes
    <2>3. /\ warden' = [pc |-> "requests", alert |-> alert, old |-> warden.alert, snapshots |-> seen]
          /\ severe' \in BOOLEAN
          /\ UNCHANGED <<treasury, peak, status, dbAlert, dbUp, requests, pushed, faults, gate, late>>
        BY <1>1 DEF Assess
    <2> HIDE DEF seen, alert
    <2> QED
        BY <2>1, <2>2, <2>3
<1>2. CASE ProcessTradeRequest
    BY <1>2, RefreshedTypes, WardenAssumption DEF ProcessTradeRequest
<1>3. CASE EscalateAlert
    BY <1>3 DEF EscalateAlert, FreezeAllAgents
<1>4. CASE EscalateFails
    BY <1>4, FaultTypes DEF EscalateFails
<1>5. CASE AlertUnchanged
    BY <1>5 DEF AlertUnchanged
<1>6. CASE UpdateAlertStatus
    BY <1>6 DEF UpdateAlertStatus
<1>7. CASE UpdateFails
    BY <1>7 DEF UpdateFails
<1>8. CASE RestartWarden
    BY <1>8, FaultTypes, WardenAssumption DEF RestartWarden, NewWarden, Alerts
<1>9. CASE StartCycle
    BY <1>9 DEF StartCycle
<1>10. CASE EvaluateTrade
    BY <1>10, RefreshedTypes DEF EvaluateTrade
<1>11. CASE CommitTrade
    BY <1>11, SMTT(30) DEF CommitTrade
<1>12. CASE SetTreasury
    BY <1>12, WardenAssumption DEF SetTreasury
<1>13. CASE UpdatePeakTreasury
    BY <1>13 DEF UpdatePeakTreasury
<1>14. CASE PushRequest
    <2>1. pushed' \in 0..MaxRequests /\ requests' \in 0..pushed'
        BY <1>14, WardenAssumption DEF PushRequest
    <2> QED
        BY <1>14, <2>1, WardenAssumption DEF PushRequest
<1>15. CASE DatabaseDown
    BY <1>15, FaultTypes DEF DatabaseDown
<1>16. CASE DatabaseUp
    BY <1>16 DEF DatabaseUp
<1>17. CASE UNCHANGED vars
    BY <1>17 DEF vars
<1> QED
    BY <1>1, <1>2, <1>3, <1>4, <1>5, <1>6, <1>7, <1>8, <1>9, <1>10, <1>11, <1>12, <1>13,
       <1>14, <1>15, <1>16, <1>17 DEF Next, Cycle

\* Only a commit makes an order late, and the commit is the one that was past
\* the gate; the gate lets nothing past unless the row it can read is green;
\* only the write of the alert takes the row away from green, and then nothing
\* is late yet.
LEMMA LateStep == TypeOK /\ LateBounded /\ [Next]_vars => LateBounded'
<1> SUFFICES ASSUME TypeOK, LateBounded, [Next]_vars PROVE LateBounded'
    OBVIOUS
<1> USE DEF TypeOK, LateBounded, PastGate, state, counts, history
<1>1. CASE UpdateAlertStatus
    BY <1>1 DEF UpdateAlertStatus
<1>2. CASE EvaluateTrade
    <2>1. gate'.call = "approved" => dbAlert = "green"
        BY <1>2 DEF EvaluateTrade, Refreshed
    <2>2. gate.call = "cycle" /\ dbAlert' = dbAlert /\ late' = late
        BY <1>2 DEF EvaluateTrade
    <2> QED
        BY <2>1, <2>2
<1>3. CASE CommitTrade
    BY <1>3 DEF CommitTrade
<1>4. CASE StartCycle
    BY <1>4 DEF StartCycle
<1>5. ASSUME dbAlert' = dbAlert /\ late' = late /\ gate' = gate
      PROVE  LateBounded'
    BY <1>5
<1>6. CASE \/ Assess \/ ProcessTradeRequest \/ EscalateAlert \/ EscalateFails
           \/ AlertUnchanged \/ UpdateFails \/ RestartWarden \/ SetTreasury
           \/ UpdatePeakTreasury \/ PushRequest \/ DatabaseDown \/ DatabaseUp
           \/ UNCHANGED vars
    BY <1>5, <1>6 DEF Assess, ProcessTradeRequest, EscalateAlert, EscalateFails,
       AlertUnchanged, UpdateFails, RestartWarden, SetTreasury, UpdatePeakTreasury,
       PushRequest, DatabaseDown, DatabaseUp, vars
<1> QED
    BY <1>1, <1>2, <1>3, <1>4, <1>6 DEF Next, Cycle

\* Without requests the alert in memory is what Assess computed or green, and
\* the freeze obeys it.
LEMMA SeverityStep == TypeOK /\ SeverityEarned /\ [Next]_vars => SeverityEarned'
<1> SUFFICES ASSUME TypeOK, SeverityEarned, [Next]_vars, pushed' = 0
             PROVE  SeverityEarned'
    BY DEF SeverityEarned
<1> USE DEF TypeOK, state, counts, history
<1>0. pushed = 0
    BY DEF Next, Cycle, Assess, ProcessTradeRequest, EscalateAlert, EscalateFails,
       AlertUnchanged, UpdateAlertStatus, UpdateFails, RestartWarden, StartCycle, EvaluateTrade,
       CommitTrade, SetTreasury, UpdatePeakTreasury, PushRequest, DatabaseDown, DatabaseUp, vars
<1>s. /\ requests = 0
      /\ {warden.alert, warden.old} \intersect Severe # {} => severe
      /\ (\E a \in Agents : status[a] = "frozen") => severe
    BY <1>0 DEF SeverityEarned
<1>1. CASE Assess
    <2>1. /\ requests' = requests /\ status' = status
          /\ warden'.old = warden.alert
          /\ severe' = (severe \/ warden'.alert \in Severe)
        BY <1>1 DEF Assess
    <2> QED
        BY <1>s, <2>1 DEF SeverityEarned
<1>2. CASE ProcessTradeRequest
    BY <1>2, <1>s DEF ProcessTradeRequest
<1>3. CASE EscalateAlert
    <2>1. /\ requests' = requests /\ severe' = severe
          /\ warden'.alert = warden.alert /\ warden'.old = warden.old
          /\ FreezeAllAgents(warden.alert)
        BY <1>3 DEF EscalateAlert
    <2>2. (\E a \in Agents : status'[a] = "frozen") => severe
        BY <1>s, <2>1 DEF FreezeAllAgents
    <2> QED
        BY <1>s, <2>1, <2>2 DEF SeverityEarned
<1>4. CASE RestartWarden
    BY <1>4, <1>s DEF RestartWarden, NewWarden, Severe, SeverityEarned
<1>5. CASE PushRequest
    BY <1>0, <1>5 DEF PushRequest
<1>6. ASSUME requests' = requests, severe' = severe, status' = status,
             warden'.alert = warden.alert, warden'.old = warden.old
      PROVE  SeverityEarned'
    BY <1>6, <1>s DEF SeverityEarned
<1>7. CASE EscalateFails \/ AlertUnchanged \/ UpdateAlertStatus \/ UpdateFails
    BY <1>6, <1>7 DEF EscalateFails, AlertUnchanged, UpdateAlertStatus, UpdateFails
<1>8. CASE \/ StartCycle \/ EvaluateTrade \/ CommitTrade \/ SetTreasury
           \/ UpdatePeakTreasury \/ DatabaseDown \/ DatabaseUp \/ UNCHANGED vars
    BY <1>6, <1>8 DEF StartCycle, EvaluateTrade, CommitTrade, SetTreasury,
       UpdatePeakTreasury, DatabaseDown, DatabaseUp, vars
<1> QED
    BY <1>1, <1>2, <1>3, <1>4, <1>5, <1>7, <1>8 DEF Next, Cycle

-------------------------------------------------------------------------------
(* The theorems *)

\* The invariant holds in every state of every behaviour.
THEOREM WardenInvariant == Spec => []WardenInv
<1>1. WardenInv /\ [Next]_vars => WardenInv'
    BY TypeStep, LateStep, SeverityStep DEF WardenInv
<1> QED
    BY <1>1, InitInv, PTL DEF Spec

\* Type correctness of the Warden and the gate (warden.Warden, Agent.status).
THEOREM WardenTypes == Spec => []TypeOK
<1>1. WardenInv => TypeOK
    BY DEF WardenInv
<1> QED
    BY <1>1, WardenInvariant, PTL

\* Once alert_status has left green, at most one order is written late: the one
\* that evaluate_trade had let past (warden.py: evaluate_trade refreshes first).
THEOREM LateTradeOnce == Spec => []OneLateTrade
<1>1. WardenInv => OneLateTrade
    BY DEF WardenInv, TypeOK, LateBounded, PastGate, OneLateTrade
<1> QED
    BY <1>1, WardenInvariant, PTL

\* While no request was ever queued, agents are frozen only after a cycle that
\* found the treasury red or worse, outages and restarts included.
THEOREM FreezesEarned == Spec => []FreezesAreEarned
<1>1. WardenInv => FreezesAreEarned
    BY DEF WardenInv, SeverityEarned, FreezesAreEarned
<1> QED
    BY <1>1, WardenInvariant, PTL

-------------------------------------------------------------------------------
(* The treasury: sums over holders, and what a balance and an excess are *)

\* A sum over holders is a number, at least what any of them has.
LEMMA SumHolders ==
    ASSUME NEW who \in SUBSET Holders, NEW of, \A h \in who : of[h] \in Nat
    PROVE  Sum(of, who) \in Nat /\ \A h \in who : of[h] <= Sum(of, who)
<1> DEFINE n == Cardinality(Holders)
           f == [h \in Holders |-> IF h \in who THEN of[h] ELSE 0]
<1>1. n \in Nat /\ Holders = 1 .. n
    BY TreasuryAssumption, FS_CardinalityType
<1>2. f \in [1 .. n -> Nat] /\ \A h \in who : f[h] = of[h]
    <2> HIDE DEF n
    <2> QED
        BY <1>1
<1> HIDE DEF f, n
<1>3. Tally(f, n) \in Nat /\ \A o \in 1 .. n : f[o] <= Tally(f, n)
    BY <1>1, <1>2, TallyAtLeast
<1> QED
    BY <1>1, <1>2, <1>3 DEF Sum, f, n

\* Fewer holders hold no more.
LEMMA SumShrinks ==
    ASSUME NEW of \in [Holders -> Nat], NEW who \in SUBSET Holders, NEW some \in SUBSET who
    PROVE  Sum(of, some) <= Sum(of, who)
<1> DEFINE n == Cardinality(Holders)
           f == [h \in Holders |-> IF h \in some THEN of[h] ELSE 0]
           g == [h \in Holders |-> IF h \in who THEN of[h] ELSE 0]
<1>1. n \in Nat /\ Holders = 1 .. n
    BY TreasuryAssumption, FS_CardinalityType
<1>2. f \in [1 .. n -> Nat] /\ g \in [1 .. n -> Nat] /\ \A o \in 1 .. n : f[o] <= g[o]
    <2> HIDE DEF n
    <2> QED
        BY <1>1
<1> HIDE DEF f, g, n
<1>3. Tally(f, n) <= Tally(g, n)
    BY <1>1, <1>2, TallyMonotone
<1> QED
    BY <1>3 DEF Sum, f, g, n

\* What one holder gets, the sum over a set gets at most.
LEMMA SumGrows ==
    ASSUME NEW of \in [Holders -> Nat], NEW who \in SUBSET Holders, NEW o \in Holders, NEW d \in Nat
    PROVE  Sum([of EXCEPT ![o] = @ + d], who) <= Sum(of, who) + d
<1> DEFINE n == Cardinality(Holders)
           to == [of EXCEPT ![o] = @ + d]
           f == [h \in Holders |-> IF h \in who THEN of[h] ELSE 0]
           g == [h \in Holders |-> IF h \in who THEN to[h] ELSE 0]
<1>1. n \in Nat /\ Holders = 1 .. n
    BY TreasuryAssumption, FS_CardinalityType
<1>2. to \in [Holders -> Nat] /\ to[o] = of[o] + d /\ \A h \in Holders : h # o => to[h] = of[h]
    OBVIOUS
<1> HIDE DEF to
<1>3. /\ f \in [1 .. n -> Int] /\ g \in [1 .. n -> Int]
      /\ \A i \in 1 .. n : i # o => g[i] = f[i]
      /\ f[o] \in Int /\ g[o] \in Int /\ g[o] - f[o] <= d
    <2> HIDE DEF n
    <2> QED
        BY <1>1, <1>2
<1> HIDE DEF f, g, n
<1>4. Tally(g, n) = Tally(f, n) + (g[o] - f[o]) /\ Tally(f, n) \in Int
    BY <1>1, <1>3, TallyChange, TallyType
<1>5. Tally(g, n) <= Tally(f, n) + d
    BY <1>3, <1>4
<1> QED
    BY <1>5 DEF Sum, f, g, n, to

LEMMA MaxZero ==
    ASSUME NEW x \in Int
    PROVE  Max({0, x}) = (IF x > 0 THEN x ELSE 0) /\ Max({0, x}) \in Nat
<1>1. \E y \in {0, x} : \A z \in {0, x} : y >= z
    OBVIOUS
<1>2. Max({0, x}) \in {0, x} /\ \A z \in {0, x} : Max({0, x}) >= z
    BY <1>1 DEF Max
<1> QED
    BY <1>2

LEMMA MinTwo ==
    ASSUME NEW x \in Nat, NEW y \in Nat
    PROVE  Min({x, y}) \in Nat /\ (y <= x => y <= Min({x, y}))
<1>1. \E u \in {x, y} : \A z \in {x, y} : u =< z
    OBVIOUS
<1>2. Min({x, y}) \in {x, y}
    BY <1>1 DEF Min
<1> QED
    BY <1>2

\* More USDT are no fewer CAD.
LEMMA ConversionGrows ==
    ASSUME NEW a \in Nat, NEW b \in Nat, a <= b, NEW q \in Nat
    PROVE  UsdtToCad(a, q) \in Nat /\ UsdtToCad(a, q) <= UsdtToCad(b, q)
<1>1. PICK d \in Nat : b = a + d
    <2>1. b - a \in Nat /\ b = a + (b - a)
        OBVIOUS
    <2> QED
        BY <2>1
<1>2. a * q \in Nat /\ d * q \in Nat /\ b * q = a * q + d * q
    BY <1>1
<1> QED
    BY <1>2 DEF UsdtToCad

\* What an award becomes in USDT is worth no more than the award, on top of what
\* was held.
LEMMA ConversionRounds ==
    ASSUME NEW s \in Nat, NEW a \in Nat, NEW q \in Nat \ {0}
    PROVE  /\ CadToUsdt(a, q) \in Nat
           /\ UsdtToCad(s + CadToUsdt(a, q), q) <= UsdtToCad(s, q) + a
<1> DEFINE u == CadToUsdt(a, q)
<1>1. u \in Nat /\ u * q <= 4 * a
    BY DEF CadToUsdt
<1> HIDE DEF u
<1>2. s * q \in Nat /\ u * q \in Nat /\ (s + u) * q = s * q + u * q
    BY <1>1
<1>3. UsdtToCad(s + u, q) <= UsdtToCad(s, q) + a
    BY <1>1, <1>2 DEF UsdtToCad
<1> QED
    BY <1>1, <1>3 DEF u

-------------------------------------------------------------------------------
(* The treasury: the invariant *)

RoundRows == [step : {"idle", "boot", "cycle", "leaderboard", "balance", "award", "grant", "births"},
              board : SUBSET Holders, awards : SUBSET Awards, grant : SUBSET Awards,
              stale : BOOLEAN]

\* The award about to be written fits the balance, unless something has happened
\* since it was checked.
GrantFits ==
    round.step = "grant" /\ ~round.stale => \A w \in round.grant : w.amount <= Available

\* The inductive invariant.
TreasuryInv == TreasuryTypes /\ round \in RoundRows /\ GrantFits /\ ReserveKept

LivingAt(on) == {h \in Holders : on[h] \in {"active", "hibernating"}}
Held(on, held) == Sum(held, LivingAt(on))

\* An excess is a number.
LEMMA ExcessIs ==
    ASSUME NEW on, NEW held \in [Holders -> Nat], NEW cad \in Nat, NEW q \in Nat \ {0}
    PROVE  LET beyond == UsdtToCad(Held(on, held), q) - (cad - Reserve(cad)) IN
           /\ Held(on, held) \in Nat /\ Reserve(cad) \in Nat /\ Reserve(cad) <= cad
           /\ UsdtToCad(Held(on, held), q) \in Nat
           /\ Excess(on, held, cad, q) = (IF beyond > 0 THEN beyond ELSE 0)
           /\ Excess(on, held, cad, q) \in Nat
<1>1. Held(on, held) \in Nat
    <2>1. LivingAt(on) \in SUBSET Holders
        BY DEF LivingAt
    <2> QED
        BY <2>1, SumHolders DEF Held
<1>2. UsdtToCad(Held(on, held), q) \in Nat
    BY <1>1, ConversionGrows
<1>3. Reserve(cad) \in Nat /\ Reserve(cad) <= cad
    BY DEF Reserve
<1> DEFINE beyond == UsdtToCad(Held(on, held), q) - (cad - Reserve(cad))
<1>4. beyond \in Int
    BY <1>2, <1>3
<1>5. Excess(on, held, cad, q) = Max({0, beyond})
    BY DEF Excess, Held, LivingAt
<1> HIDE DEF beyond
<1>6. /\ Excess(on, held, cad, q) = (IF beyond > 0 THEN beyond ELSE 0)
      /\ Excess(on, held, cad, q) \in Nat
    BY <1>4, <1>5, MaxZero
<1> QED
    BY <1>1, <1>2, <1>3, <1>6 DEF beyond

\* Who holds less exceeds the limit by no more.
LEMMA ExcessFalls ==
    ASSUME NEW on, NEW held \in [Holders -> Nat], NEW on2, NEW held2 \in [Holders -> Nat],
           NEW cad \in Nat, NEW q \in Nat \ {0}, Held(on2, held2) <= Held(on, held)
    PROVE  Excess(on2, held2, cad, q) <= Excess(on, held, cad, q)
<1>1. Held(on, held) \in Nat /\ Held(on2, held2) \in Nat
    BY ExcessIs
<1>2. UsdtToCad(Held(on2, held2), q) <= UsdtToCad(Held(on, held), q)
    BY <1>1, ConversionGrows
<1>3. /\ UsdtToCad(Held(on2, held2), q) \in Nat /\ UsdtToCad(Held(on, held), q) \in Nat
      /\ Reserve(cad) \in Nat
    BY ExcessIs
<1> DEFINE a == UsdtToCad(Held(on2, held2), q) - (cad - Reserve(cad))
           b == UsdtToCad(Held(on, held), q) - (cad - Reserve(cad))
<1>4. a \in Int /\ b \in Int /\ a <= b
    BY <1>2, <1>3
<1>5. /\ Excess(on2, held2, cad, q) = (IF a > 0 THEN a ELSE 0)
      /\ Excess(on, held, cad, q) = (IF b > 0 THEN b ELSE 0)
    BY ExcessIs
<1> HIDE DEF a, b
<1> QED
    BY <1>4, <1>5

\* The balance in the terms of the excess.
Balance(on, held, cad, q) == Max({0, cad - Reserve(cad) - UsdtToCad(Held(on, held), q)})

LEMMA BalanceIs ==
    ASSUME NEW on, NEW held \in [Holders -> Nat], NEW cad \in Nat, NEW q \in Nat \ {0}
    PROVE  LET left == cad - Reserve(cad) - UsdtToCad(Held(on, held), q) IN
           /\ Balance(on, held, cad, q) = (IF left > 0 THEN left ELSE 0)
           /\ Balance(on, held, cad, q) \in Nat
<1> DEFINE left == cad - Reserve(cad) - UsdtToCad(Held(on, held), q)
<1>1. UsdtToCad(Held(on, held), q) \in Nat /\ Reserve(cad) \in Nat
    BY ExcessIs
<1>2. left \in Int
    BY <1>1
<1>3. Balance(on, held, cad, q) = Max({0, left})
    BY DEF Balance
<1> HIDE DEF left
<1>4. /\ Balance(on, held, cad, q) = (IF left > 0 THEN left ELSE 0)
      /\ Balance(on, held, cad, q) \in Nat
    BY <1>2, <1>3, MaxZero
<1> QED
    BY <1>4 DEF left

LEMMA BalanceRises ==
    ASSUME NEW on, NEW on2, NEW held \in [Holders -> Nat], NEW cad \in Nat, NEW q \in Nat \ {0},
           Held(on2, held) <= Held(on, held)
    PROVE  Balance(on, held, cad, q) <= Balance(on2, held, cad, q)
<1>1. Held(on, held) \in Nat /\ Held(on2, held) \in Nat
    BY ExcessIs
<1>2. UsdtToCad(Held(on2, held), q) <= UsdtToCad(Held(on, held), q)
    BY <1>1, ConversionGrows
<1>3. /\ UsdtToCad(Held(on2, held), q) \in Nat /\ UsdtToCad(Held(on, held), q) \in Nat
      /\ Reserve(cad) \in Nat
    BY ExcessIs
<1> DEFINE a == cad - Reserve(cad) - UsdtToCad(Held(on, held), q)
           b == cad - Reserve(cad) - UsdtToCad(Held(on2, held), q)
<1>4. a \in Int /\ b \in Int /\ a <= b
    BY <1>2, <1>3
<1>5. /\ Balance(on, held, cad, q) = (IF a > 0 THEN a ELSE 0)
      /\ Balance(on2, held, cad, q) = (IF b > 0 THEN b ELSE 0)
    BY BalanceIs
<1> HIDE DEF a, b
<1> QED
    BY <1>4, <1>5

\* Nobody is being evaluated when the balance is taken.
LEMMA AvailableIs ==
    ASSUME holder \in [Holders -> Statuses]
    PROVE  Available = Balance(holder, allocated, total, rate)
<1>1. Among(Counted) = LivingAt(holder)
    BY DEF Among, Counted, LivingAt, Statuses
<1> QED
    BY <1>1 DEF Available, Balance, Held

LEMMA AvailableIsNext ==
    ASSUME holder' \in [Holders -> Statuses]
    PROVE  Available' = Balance(holder', allocated', total', rate')
<1>1. Among(Counted)' = LivingAt(holder')
    BY DEF Among, Counted, LivingAt, Statuses
<1> QED
    BY <1>1 DEF Available, Balance, Held

-------------------------------------------------------------------------------
(* The treasury: what a step keeps *)

LEMMA RatesAre ==
    TreasuryTypes => rate \in Nat \ {0} /\ total \in Nat /\ allocated \in [Holders -> Nat]
BY TreasuryAssumption DEF TreasuryTypes

LEMMA RestingFits == Resting \in RoundRows
BY DEF Resting, RoundRows

\* No round is in progress, whatever the step.
LEMMA RestingIn ==
    /\ Resting \in RoundRows /\ Resting.step = "idle"
    /\ \A x \in {"idle", "boot", "leaderboard", "births"} :
          [Resting EXCEPT !.step = x] \in RoundRows /\ [Resting EXCEPT !.step = x].step = x
<1>1. Resting.step = "idle"
    BY DEF Resting
<1> QED
    BY <1>1, RestingFits DEF RoundRows

\* Any step of the cycle may follow a round, with any awards.
LEMMA RoundTypes ==
    ASSUME round \in RoundRows
    PROVE  /\ round.step \in {"idle", "boot", "cycle", "leaderboard", "balance", "award", "grant", "births"}
           /\ round.board \subseteq Holders /\ round.awards \union round.grant \subseteq Awards
           /\ round.stale \in BOOLEAN
BY DEF RoundRows

\* The balance after a step, in the terms of the state before it.
LEMMA AvailableStays ==
    ASSUME TreasuryTypes, UNCHANGED <<holder, allocated, total, rate>>
    PROVE  Available' = Available
BY AvailableIs, AvailableIsNext DEF TreasuryTypes

\* A step of the cycle that touches no book: what it is about to write, if
\* anything, fits the balance.
LEMMA BooksStay ==
    ASSUME TreasuryInv, UNCHANGED <<holder, allocated, total, rate, excess>>,
           round' \in RoundRows, shifts' \in 0 .. MaxShifts, rounds' \in 0 .. MaxRounds,
           round'.step = "grant" /\ ~round'.stale => \A w \in round'.grant : w.amount <= Available
    PROVE  TreasuryInv'
<1>1. TreasuryTypes'
    BY RoundTypes DEF TreasuryInv, TreasuryTypes, RoundRows
<1>2. GrantFits'
    BY AvailableStays DEF TreasuryInv, GrantFits
<1>3. ReserveKept'
    BY DEF TreasuryInv, ReserveKept
<1> QED
    BY <1>1, <1>2, <1>3 DEF TreasuryInv

\* A step that explains the excess it leaves.
LEMMA Excused ==
    ASSUME Explained,
           holder' \in [Holders -> Statuses], allocated' \in [Holders -> Nat], total' \in Nat,
           rate' \in Rates, round' \in RoundRows, shifts' \in 0 .. MaxShifts, rounds' \in 0 .. MaxRounds,
           round'.step = "grant" => round'.stale
    PROVE  TreasuryInv'
<1>1. rate' \in Nat \ {0}
    BY TreasuryAssumption
<1>2. excess' \in Nat /\ ReserveKept'
    <2> DEFINE left == Excess(holder', allocated', total', rate')
    <2>1. left \in Nat
        BY <1>1, ExcessIs
    <2>2. excess' = left /\ (ReserveKept' <=> left <= excess')
        BY DEF Explained, ReserveKept
    <2> HIDE DEF left
    <2> QED
        BY <2>1, <2>2
<1>3. TreasuryTypes'
    BY <1>2 DEF TreasuryTypes, RoundRows
<1>4. GrantFits'
    BY DEF GrantFits
<1> QED
    BY <1>2, <1>3, <1>4 DEF TreasuryInv

\* A step after which fewer live: nobody holds more, and the balance falls for
\* none of them.
LEMMA FewerLive ==
    ASSUME TreasuryInv, Unexplained, UNCHANGED <<allocated, total, rate>>,
           holder' \in [Holders -> Statuses], LivingAt(holder') \subseteq LivingAt(holder),
           round' \in RoundRows, shifts' \in 0 .. MaxShifts, rounds' \in 0 .. MaxRounds,
           round'.step # "grant" \/ round' = round
    PROVE  TreasuryInv'
<1>1. TreasuryTypes /\ rate \in Nat \ {0} /\ total \in Nat /\ allocated \in [Holders -> Nat]
      /\ holder \in [Holders -> Statuses] /\ excess \in Nat
    BY RatesAre DEF TreasuryInv, TreasuryTypes
<1>2. Held(holder', allocated) <= Held(holder, allocated)
    <2>1. LivingAt(holder) \in SUBSET Holders
        BY DEF LivingAt
    <2> QED
        BY <2>1, <1>1, SumShrinks DEF Held
<1>3. /\ Excess(holder', allocated, total, rate) <= Excess(holder, allocated, total, rate)
      /\ Excess(holder', allocated, total, rate) \in Nat
      /\ Excess(holder, allocated, total, rate) \in Nat
    BY <1>1, <1>2, ExcessFalls, ExcessIs
<1>4. Excess(holder', allocated, total, rate) <= excess
    BY <1>1, <1>3 DEF TreasuryInv, ReserveKept
<1>5. /\ excess' = Min({excess, Excess(holder', allocated, total, rate)})
      /\ excess' \in Nat /\ ReserveKept'
    BY <1>1, <1>3, <1>4, MinTwo DEF Unexplained, ReserveKept
<1>6. TreasuryTypes'
    BY <1>1, <1>5 DEF TreasuryTypes, RoundRows
<1>7. GrantFits'
    <2>1. Available <= Available' /\ Available \in Nat /\ Available' \in Nat
        BY <1>1, <1>2, AvailableIs, AvailableIsNext, BalanceRises, BalanceIs
    <2> SUFFICES ASSUME round'.step = "grant", ~round'.stale, NEW w \in round'.grant
                 PROVE  w.amount <= Available'
        BY DEF GrantFits
    <2>2. w.amount <= Available /\ w.amount \in Nat
        BY DEF TreasuryInv, GrantFits, RoundRows, Awards
    <2> QED
        BY <2>1, <2>2
<1> QED
    BY <1>5, <1>6, <1>7 DEF TreasuryInv

-------------------------------------------------------------------------------
(* The treasury: one lemma per group of actions *)

\* Nobody holds anything at the start.
LEMMA TreasuryStarts == TreasuryInit => TreasuryInv
<1> SUFFICES ASSUME TreasuryInit PROVE TreasuryInv
    OBVIOUS
<1>1. TreasuryTypes
    <2>1. StartingTreasury \in Nat /\ MaxShifts \in Nat /\ MaxRounds \in Nat /\ FallbackRate \in Rates
        BY TreasuryAssumption
    <2> QED
        BY <2>1 DEF TreasuryInit, TreasuryTypes, Statuses, Resting
<1>2. round \in RoundRows /\ GrantFits
    BY RestingFits DEF TreasuryInit, GrantFits, Resting
<1>3. ReserveKept
    <2>1. Held(holder, allocated) = 0
        <3> DEFINE n == Cardinality(Holders)
                   f == [h \in Holders |-> IF h \in LivingAt(holder) THEN allocated[h] ELSE 0]
        <3>1. n \in Nat /\ Holders = 1 .. n
            BY TreasuryAssumption, FS_CardinalityType
        <3>2. f \in [1 .. n -> Int] /\ \A o \in 1 .. n : f[o] = 0
            <4> HIDE DEF n
            <4> QED
                BY <3>1 DEF TreasuryInit
        <3> HIDE DEF f, n
        <3>3. Tally(f, n) = 0
            BY <3>1, <3>2, TallyZero
        <3> QED
            BY <3>3 DEF Held, Sum, f, n
    <2>2. rate \in Nat \ {0} /\ total \in Nat /\ allocated \in [Holders -> Nat]
        BY <1>1, RatesAre
    <2>3. UsdtToCad(0, rate) = 0
        BY <2>2 DEF UsdtToCad
    <2>4. Reserve(total) \in Nat /\ Reserve(total) <= total
        BY <2>2 DEF Reserve
    <2>5. ~(0 - (total - Reserve(total)) > 0)
        BY <2>2, <2>4
    <2>6. Excess(holder, allocated, total, rate) = 0
        BY <2>1, <2>2, <2>3, <2>5, ExcessIs
    <2> QED
        BY <2>6 DEF TreasuryInit, ReserveKept
<1> QED
    BY <1>1, <1>2, <1>3 DEF TreasuryInv

\* What the invariant says of the state before a step.
LEMMA TreasuryIs ==
    ASSUME TreasuryInv
    PROVE  /\ holder \in [Holders -> Statuses] /\ allocated \in [Holders -> Nat]
           /\ total \in Nat /\ rate \in Rates /\ rate \in Nat \ {0} /\ round \in RoundRows
           /\ excess \in Nat /\ shifts \in 0 .. MaxShifts /\ rounds \in 0 .. MaxRounds
           /\ MaxShifts \in Nat /\ MaxRounds \in Nat
BY TreasuryAssumption DEF TreasuryInv, TreasuryTypes

\* The steps of the cycle that only decide.
LEMMA CycleKeeps ==
    ASSUME TreasuryInv,
           BeginTreasuryBoot \/ EndTreasuryBoot \/ GenerateLeaderboard \/ TreasuryCycleFails
    PROVE  TreasuryInv'
<1>0. shifts \in Nat /\ MaxShifts \in Nat /\ MaxRounds \in Nat
    BY TreasuryIs
<1>1. /\ UNCHANGED <<holder, allocated, total, rate, excess, rounds>>
      /\ shifts' \in 0 .. MaxShifts /\ rounds' \in 0 .. MaxRounds
    <2>1. UNCHANGED shifts \/ (shifts < MaxShifts /\ shifts' = shifts + 1)
        BY DEF BeginTreasuryBoot, EndTreasuryBoot, GenerateLeaderboard, TreasuryCycleFails
    <2>2. UNCHANGED <<holder, allocated, total, rate, excess, rounds>>
        BY DEF BeginTreasuryBoot, EndTreasuryBoot, GenerateLeaderboard, TreasuryCycleFails
    <2> QED
        BY <1>0, <2>1, <2>2, TreasuryIs
<1>2. round' \in RoundRows /\ round'.step # "grant"
    <2>1. CASE BeginTreasuryBoot
        BY <2>1, RestingIn DEF BeginTreasuryBoot
    <2>2. CASE EndTreasuryBoot
        <3>1. round' = [round EXCEPT !.step = "cycle"]
            BY <2>2 DEF EndTreasuryBoot
        <3> QED
            BY <3>1, TreasuryIs DEF RoundRows
    <2>3. CASE GenerateLeaderboard
        <3>1. CASE Scorable
            <4>1. PICK board \in SUBSET Among({"active", "evaluating"}) :
                      round' = [round EXCEPT !.step = "balance", !.board = board]
                BY <2>3, <3>1 DEF GenerateLeaderboard
            <4>2. board \subseteq Holders
                BY DEF Among
            <4> QED
                BY <4>1, <4>2, TreasuryIs DEF RoundRows
        <3>2. CASE ~Scorable
            BY <2>3, <3>2, RestingIn DEF GenerateLeaderboard
        <3> QED
            BY <3>1, <3>2
    <2>4. CASE TreasuryCycleFails
        BY <2>4, RestingIn DEF TreasuryCycleFails
    <2> QED
        BY <2>1, <2>2, <2>3, <2>4
<1> QED
    BY <1>1, <1>2, BooksStay

\* A round hands out natural numbers.
LEMMA RankAwardsTyped ==
    ASSUME NEW n \in Nat, NEW board \in SUBSET Holders, NEW score \in [board -> Scores]
    PROVE  RankAwards(n, score) \subseteq Awards
<1>1. DOMAIN score = board /\ \A h \in board : score[h] \in Nat \ {0}
    BY TreasuryAssumption
<1>2. Sum(score, board) \in Nat /\ \A h \in board : score[h] <= Sum(score, board)
    BY <1>1, SumHolders
<1> DEFINE part == (9 * n) \div 10
<1>3. part \in Nat
    OBVIOUS
<1> HIDE DEF part
<1>4. ASSUME NEW h \in board
      PROVE  [to |-> h, amount |-> (score[h] * part) \div Sum(score, board), lot |-> "rank"] \in Awards
    <2> DEFINE s == Sum(score, board)
               x == score[h] * part
    <2>1. s \in Nat /\ s > 0
        BY <1>1, <1>2
    <2>2. x \in Nat
        BY <1>1, <1>3
    <2> HIDE DEF s, x
    <2>3. x \div s \in Nat
        BY <2>1, <2>2
    <2>4. h \in Holders
        OBVIOUS
    <2> QED
        BY <2>3, <2>4 DEF Awards, s, x
<1> QED
    BY <1>1, <1>4 DEF RankAwards, part

LEMMA RandomAwardsTyped ==
    ASSUME NEW n \in Nat, NEW lucky \in SUBSET Holders
    PROVE  RandomAwards(n, lucky) \subseteq Awards
<1> DEFINE part == n \div 10
<1>1. part \in Nat
    OBVIOUS
<1> HIDE DEF part
<1>2. ASSUME NEW h \in lucky
      PROVE  [to |-> h, amount |-> part \div Cardinality(lucky), lot |-> "random"] \in Awards
    <2>1. IsFiniteSet(lucky)
        BY TreasuryAssumption, FS_Subset
    <2>2. Cardinality(lucky) \in Nat /\ Cardinality(lucky) # 0
        BY <2>1, FS_CardinalityType, FS_EmptySet
    <2>3. part \div Cardinality(lucky) \in Nat
        BY <1>1, <2>2
    <2> QED
        BY <2>3 DEF Awards
<1> QED
    BY <1>2 DEF RandomAwards, part

LEMMA RoundKeeps == TreasuryInv /\ PerformAllocationRound => TreasuryInv'
<1> SUFFICES ASSUME TreasuryInv, PerformAllocationRound PROVE TreasuryInv'
    OBVIOUS
<1>1. UNCHANGED <<holder, allocated, total, rate, excess, shifts, rounds>>
    BY DEF PerformAllocationRound
<1>2. round' \in RoundRows /\ round'.step # "grant"
    <2>1. CASE Available = 0 \/ round.board = {}
        BY <2>1, RestingIn DEF PerformAllocationRound
    <2>2. CASE ~(Available = 0 \/ round.board = {})
        <3>1. PICK score \in [round.board -> Scores],
                   lucky \in kSubset(Max({1, Cardinality(round.board) \div 3}), round.board) :
                   round' = [round EXCEPT !.step = "award",
                                 !.awards = RankAwards(Available, score) \union RandomAwards(Available, lucky)]
            BY <2>2 DEF PerformAllocationRound
        <3>2. round.board \in SUBSET Holders /\ round \in RoundRows
            BY TreasuryIs DEF RoundRows
        <3>3. lucky \in SUBSET Holders
            BY <3>2 DEF kSubset
        <3>4. Available \in Nat
            BY TreasuryIs, AvailableIs, BalanceIs
        <3>5. RankAwards(Available, score) \union RandomAwards(Available, lucky) \subseteq Awards
            BY <3>2, <3>3, <3>4, RankAwardsTyped, RandomAwardsTyped
        <3> HIDE DEF Awards
        <3> QED
            BY <3>1, <3>2, <3>5 DEF RoundRows
    <2> QED
        BY <2>1, <2>2
<1> QED
    BY <1>1, <1>2, TreasuryIs, BooksStay

\* An award is checked against the balance before it is written.
LEMMA AwardKeeps == TreasuryInv /\ AllocateCapital => TreasuryInv'
<1> SUFFICES ASSUME TreasuryInv, AllocateCapital PROVE TreasuryInv'
    OBVIOUS
<1>1. UNCHANGED <<holder, allocated, total, rate, excess, shifts, rounds>> /\ round.step = "award"
    BY DEF AllocateCapital
<1>2. round \in RoundRows
    BY TreasuryIs
<1>3. /\ round' \in RoundRows
      /\ round'.step = "grant" => \A w \in round'.grant : w.amount <= Available
    <2>1. CASE round' = [Resting EXCEPT !.step = "births"]
        BY <2>1, RestingIn
    <2>2. ASSUME NEW w \in NextAward,
                 round' = LET rest == [round EXCEPT !.awards = @ \ {w}] IN
                          IF Allowed(w) THEN [rest EXCEPT !.step = "grant", !.grant = {w}] ELSE rest
          PROVE  /\ round' \in RoundRows
                 /\ round'.step = "grant" => \A v \in round'.grant : v.amount <= Available
        <3> DEFINE rest == [round EXCEPT !.awards = @ \ {w}]
        <3>1. rest \in RoundRows /\ rest.step = "award"
            BY <1>1, <1>2 DEF RoundRows
        <3>2. w \in Awards
            BY <1>2 DEF NextAward, RoundRows
        <3> HIDE DEF rest
        <3>3. CASE Allowed(w)
            <4>1. round' = [rest EXCEPT !.step = "grant", !.grant = {w}]
                BY <2>2, <3>3 DEF rest
            <4> HIDE DEF Awards
            <4>2. round' \in RoundRows /\ round'.grant = {w}
                BY <3>1, <3>2, <4>1 DEF RoundRows
            <4> QED
                BY <3>3, <4>2 DEF Allowed
        <3>4. CASE ~Allowed(w)
            <4>1. round' = rest
                BY <2>2, <3>4 DEF rest
            <4> QED
                BY <3>1, <4>1
        <3> QED
            BY <3>3, <3>4
    <2> QED
        BY <2>1, <2>2 DEF AllocateCapital
<1> QED
    BY <1>1, <1>3, TreasuryIs, BooksStay

\* An award within the balance adds nothing to the excess.
LEMMA AwardFits ==
    ASSUME NEW on, NEW held \in [Holders -> Nat], NEW cad \in Nat, NEW q \in Nat \ {0},
           NEW o \in Holders, NEW a \in Nat, a <= Balance(on, held, cad, q)
    PROVE  LET now == [held EXCEPT ![o] = @ + CadToUsdt(a, q)] IN
           now \in [Holders -> Nat] /\ Excess(on, now, cad, q) <= Excess(on, held, cad, q)
<1> DEFINE u == CadToUsdt(a, q)
           now == [held EXCEPT ![o] = @ + u]
<1>1. u \in Nat
    BY ConversionRounds
<1>2. now \in [Holders -> Nat]
    <2> HIDE DEF u
    <2> QED
        BY <1>1
<1>3. Held(on, now) <= Held(on, held) + u
    <2>1. LivingAt(on) \in SUBSET Holders
        BY DEF LivingAt
    <2> HIDE DEF u
    <2> QED
        BY <1>1, <2>1, SumGrows DEF Held
<1> HIDE DEF now
<1>4. Held(on, now) \in Nat /\ Held(on, held) \in Nat
    BY <1>2, ExcessIs
<1> DEFINE s == Held(on, held)
           t == Held(on, now)
<1>5. UsdtToCad(t, q) \in Nat /\ UsdtToCad(s, q) \in Nat /\ Reserve(cad) \in Nat
    BY <1>2, ExcessIs
<1>6. UsdtToCad(t, q) <= UsdtToCad(s + u, q) /\ UsdtToCad(s + u, q) \in Nat
    <2> HIDE DEF s, t, u
    <2>1. s + u \in Nat /\ t \in Nat /\ t <= s + u
        BY <1>1, <1>3, <1>4 DEF s, t
    <2> QED
        BY <2>1, ConversionGrows
<1>7. UsdtToCad(s + u, q) <= UsdtToCad(s, q) + a
    <2> HIDE DEF s
    <2> QED
        BY <1>4, ConversionRounds DEF s
<1>8. UsdtToCad(t, q) <= UsdtToCad(s, q) + a
    BY <1>5, <1>6, <1>7
<1> DEFINE x == UsdtToCad(s, q) - (cad - Reserve(cad))
           y == UsdtToCad(t, q) - (cad - Reserve(cad))
           left == cad - Reserve(cad) - UsdtToCad(s, q)
<1>9. x \in Int /\ y \in Int /\ y <= x + a /\ left = -x
    BY <1>5, <1>8
<1>10. /\ Excess(on, held, cad, q) = (IF x > 0 THEN x ELSE 0)
       /\ Excess(on, now, cad, q) = (IF y > 0 THEN y ELSE 0)
    BY <1>2, ExcessIs
<1>11. a <= (IF left > 0 THEN left ELSE 0)
    BY BalanceIs
<1> HIDE DEF x, y, left
<1>12. Excess(on, now, cad, q) <= Excess(on, held, cad, q)
    BY <1>9, <1>10, <1>11
<1> QED
    BY <1>2, <1>12 DEF now, u

LEMMA WriteKeeps == TreasuryInv /\ WriteAward => TreasuryInv'
<1> SUFFICES ASSUME TreasuryInv, WriteAward PROVE TreasuryInv'
    OBVIOUS
<1>1. UNCHANGED <<holder, total, rate, shifts, rounds>> /\ round.step = "grant"
    BY DEF WriteAward
<1>2. /\ round \in RoundRows /\ rate \in Nat \ {0} /\ total \in Nat /\ allocated \in [Holders -> Nat]
      /\ holder \in [Holders -> Statuses] /\ excess \in Nat
    BY TreasuryIs
<1>3. round' \in RoundRows /\ round'.step = "award"
    BY <1>2 DEF WriteAward, RoundRows
<1>4. PICK w \in round.grant : allocated' = [allocated EXCEPT ![w.to] = @ + CadToUsdt(w.amount, rate)]
    BY DEF WriteAward
<1>5. w.to \in Holders /\ w.amount \in Nat
    BY <1>2 DEF RoundRows, Awards
<1>6. allocated' \in [Holders -> Nat]
    <2>1. CadToUsdt(w.amount, rate) \in Nat
        BY <1>2, <1>5, ConversionRounds
    <2> QED
        BY <1>2, <1>4, <1>5, <2>1
<1>7. CASE round.stale
    <2>1. Explained
        BY <1>7 DEF WriteAward
    <2> QED
        BY <2>1, <1>1, <1>3, <1>6, TreasuryIs, Excused
<1>8. CASE ~round.stale
    <2>1. w.amount <= Balance(holder, allocated, total, rate)
        <3>1. w.amount <= Available
            BY <1>1, <1>8 DEF TreasuryInv, GrantFits
        <3> QED
            BY <3>1, <1>2, AvailableIs
    <2> DEFINE x == Excess(holder, allocated, total, rate)
               y == Excess(holder, allocated', total, rate)
    <2>2. y <= x
        BY <1>2, <1>4, <1>5, <2>1, AwardFits
    <2>3. x \in Nat /\ y \in Nat
        BY <1>2, <1>6, ExcessIs
    <2>4. x <= excess
        BY DEF TreasuryInv, ReserveKept
    <2>5. excess' = Min({excess, y}) /\ (ReserveKept' <=> y <= excess')
        BY <1>1, <1>8 DEF WriteAward, Unexplained, ReserveKept
    <2> HIDE DEF x, y
    <2>6. excess' \in Nat /\ ReserveKept'
        BY <1>2, <2>2, <2>3, <2>4, <2>5, MinTwo
    <2>7. TreasuryTypes'
        BY <1>1, <1>3, <1>6, <2>6, TreasuryIs, RoundTypes DEF TreasuryTypes, RoundRows
    <2>8. GrantFits'
        BY <1>3 DEF GrantFits
    <2> QED
        BY <1>3, <2>6, <2>7, <2>8 DEF TreasuryInv
<1> QED
    BY <1>7, <1>8

\* Deaths, freezes and the sleep of agents, where nobody is born.
LEMMA DepartureKeeps ==
    ASSUME TreasuryInv,
           EvaluateHolders \/ FreezeHolders \/ WakeHolders \/ (\E h \in Holders : HibernateHolder(h))
    PROVE  TreasuryInv'
<1>1. /\ holder \in [Holders -> Statuses] /\ round \in RoundRows
      /\ shifts \in 0 .. MaxShifts /\ rounds \in 0 .. MaxRounds /\ MaxShifts \in Nat /\ MaxRounds \in Nat
    BY TreasuryIs
<1>2. CASE EvaluateHolders
    <2>1. PICK evaluated \in SUBSET (Among({"active"}) \ {GenesisRow}) : \E dead \in SUBSET evaluated :
          /\ rounds' = (IF evaluated = {} THEN rounds ELSE rounds + 1) /\ rounds' <= MaxRounds
          /\ holder' = [h \in Holders |-> IF h \in dead THEN "terminated" ELSE holder[h]]
          /\ round' = [Resting EXCEPT !.step = IF evaluated = {} THEN "births" ELSE "leaderboard"]
        BY <1>2 DEF EvaluateHolders
    <2>2. holder' \in [Holders -> Statuses] /\ LivingAt(holder') \subseteq LivingAt(holder)
        BY <1>1, <2>1 DEF LivingAt, Statuses
    <2>3. round' \in RoundRows /\ round'.step # "grant"
        BY <2>1, RestingIn
    <2>4. rounds' \in 0 .. MaxRounds
        BY <1>1, <2>1
    <2>5. UNCHANGED <<allocated, total, rate, shifts>> /\ Unexplained
        BY <1>2 DEF EvaluateHolders
    <2> QED
        BY <1>1, <2>2, <2>3, <2>4, <2>5, FewerLive
<1>3. CASE FreezeHolders
    <2>1. holder' \in [Holders -> Statuses] /\ LivingAt(holder') \subseteq LivingAt(holder)
        BY <1>1, <1>3 DEF FreezeHolders, LivingAt, Statuses
    <2>2. shifts' \in 0 .. MaxShifts
        BY <1>1, <1>3 DEF FreezeHolders
    <2> QED
        BY <1>1, <1>3, <2>1, <2>2, FewerLive DEF FreezeHolders
<1>4. CASE WakeHolders
    <2>1. PICK woken \in SUBSET Among({"hibernating"}) :
              holder' = [h \in Holders |-> IF h \in woken THEN "active" ELSE holder[h]]
        BY <1>4 DEF WakeHolders
    <2>2. holder' \in [Holders -> Statuses] /\ LivingAt(holder') \subseteq LivingAt(holder)
        BY <1>1, <2>1 DEF LivingAt, Statuses, Among
    <2> QED
        BY <1>1, <1>4, <2>2, FewerLive DEF WakeHolders
<1>5. ASSUME NEW h \in Holders, HibernateHolder(h) PROVE TreasuryInv'
    <2>1. holder' \in [Holders -> Statuses] /\ LivingAt(holder') \subseteq LivingAt(holder)
        BY <1>1, <1>5 DEF HibernateHolder, LivingAt, Statuses
    <2> QED
        BY <1>1, <1>5, <2>1, FewerLive DEF HibernateHolder
<1> QED
    BY <1>2, <1>3, <1>4, <1>5

\* What is no round's doing explains itself: founders and offspring, another
\* rate, agents back from the dead.
LEMMA BirthKeeps ==
    ASSUME TreasuryInv, NEW h \in Holders, SpawnHolder(h) \/ OrientHolder(h)
    PROVE  TreasuryInv'
<1>1. /\ holder \in [Holders -> Statuses] /\ round \in RoundRows /\ total \in Nat
      /\ allocated \in [Holders -> Nat] /\ rate \in Rates
      /\ shifts \in 0 .. MaxShifts /\ rounds \in 0 .. MaxRounds
    BY TreasuryIs
<1>2. UNCHANGED <<total, rate, round, shifts, rounds>> /\ Explained /\ round.step = "boot"
    BY DEF SpawnHolder, OrientHolder
<1>3. holder' \in [Holders -> Statuses]
    BY <1>1 DEF SpawnHolder, OrientHolder, Statuses
<1>4. allocated' \in [Holders -> Nat]
    <2>1. CASE SpawnHolder(h)
        <3>1. PICK quote \in Rates :
                  allocated' = [allocated EXCEPT ![h] = CadToUsdt((total - Reserve(total)) \div 5, quote)]
            BY <2>1 DEF SpawnHolder
        <3> DEFINE a == (total - Reserve(total)) \div 5
        <3>2. a \in Nat
            BY <1>1 DEF Reserve
        <3>3. quote \in Nat \ {0}
            BY TreasuryAssumption
        <3> HIDE DEF a
        <3>4. CadToUsdt(a, quote) \in Nat
            BY <3>2, <3>3, ConversionRounds
        <3> QED
            BY <1>1, <3>1, <3>4 DEF a
    <2>2. CASE OrientHolder(h)
        BY <1>1, <2>2 DEF OrientHolder
    <2> QED
        BY <2>1, <2>2
<1> QED
    BY <1>1, <1>2, <1>3, <1>4, Excused

LEMMA OffspringKeeps == TreasuryInv /\ Reproduce => TreasuryInv'
<1> SUFFICES ASSUME TreasuryInv, Reproduce PROVE TreasuryInv'
    OBVIOUS
<1>1. /\ holder \in [Holders -> Statuses] /\ total \in Nat
      /\ allocated \in [Holders -> Nat] /\ rate \in Rates
      /\ shifts \in 0 .. MaxShifts /\ rounds \in 0 .. MaxRounds
    BY TreasuryIs
<1>2. UNCHANGED <<rate, shifts, rounds>> /\ round' \in RoundRows /\ round'.step # "grant"
    BY RestingIn DEF Reproduce
<1>3. CASE UNCHANGED <<holder, allocated, total, excess>>
    BY <1>1, <1>2, <1>3, BooksStay
<1>4. ASSUME NEW h \in Holders, BearHolder(h) PROVE TreasuryInv'
    <2>1. holder' \in [Holders -> Statuses]
        BY <1>1, <1>4 DEF BearHolder, Statuses
    <2>2. Birthright[h] \in Nat
        BY TreasuryAssumption
    <2>3. allocated' \in [Holders -> Nat]
        BY <1>1, <1>4, <2>2 DEF BearHolder
    <2>4. total' \in Nat
        <3>1. Reserve(total) \in Nat /\ Birthright[h] <= total - Reserve(total)
              /\ total' = total - Birthright[h]
            BY <1>1, <1>4 DEF BearHolder, Reserve
        <3> QED
            BY <1>1, <2>2, <3>1
    <2> QED
        BY <1>1, <1>2, <1>4, <2>1, <2>3, <2>4, Excused DEF BearHolder
<1> QED
    BY <1>3, <1>4 DEF Reproduce

LEMMA ShiftKeeps ==
    ASSUME TreasuryInv, GetUsdtCadRate \/ (\E h \in Holders : RaiseHolder(h))
    PROVE  TreasuryInv'
<1>1. /\ holder \in [Holders -> Statuses] /\ round \in RoundRows /\ total \in Nat
      /\ allocated \in [Holders -> Nat] /\ rate \in Rates
      /\ shifts \in 0 .. MaxShifts /\ rounds \in 0 .. MaxRounds /\ MaxShifts \in Nat
    BY TreasuryIs
<1>2. /\ UNCHANGED <<allocated, total, rounds>> /\ Explained
      /\ shifts < MaxShifts /\ shifts' = shifts + 1 /\ round' = Outdated
    BY DEF GetUsdtCadRate, RaiseHolder
<1>3. shifts' \in 0 .. MaxShifts
    BY <1>1, <1>2
<1>4. round' \in RoundRows /\ (round'.step = "grant" => round'.stale)
    <2> DEFINE overdue == round.step = "grant"
    <2>1. round' = [round EXCEPT !.stale = overdue] /\ overdue \in BOOLEAN
        BY <1>2 DEF Outdated
    <2>2. round' \in RoundRows /\ round'.step = round.step /\ round'.stale = overdue
        <3> HIDE DEF overdue
        <3> QED
            BY <1>1, <2>1 DEF RoundRows
    <2> QED
        BY <2>2
<1>5. holder' \in [Holders -> Statuses] /\ rate' \in Rates
    BY <1>1 DEF GetUsdtCadRate, RaiseHolder, Statuses
<1> QED
    BY <1>1, <1>2, <1>3, <1>4, <1>5, Excused

LEMMA TreasuryRests == TreasuryInv /\ UNCHANGED treasuryVars => TreasuryInv'
<1> SUFFICES ASSUME TreasuryInv, UNCHANGED treasuryVars PROVE TreasuryInv'
    OBVIOUS
<1>1. UNCHANGED <<holder, allocated, total, rate, excess, round, shifts, rounds>>
    BY DEF treasuryVars
<1>2. round.step = "grant" /\ ~round.stale => \A w \in round.grant : w.amount <= Available
    BY DEF TreasuryInv, GrantFits
<1> QED
    BY <1>1, <1>2, TreasuryIs, BooksStay

LEMMA TreasurySteps == TreasuryInv /\ [TreasuryNext]_treasuryVars => TreasuryInv'
<1> SUFFICES ASSUME TreasuryInv, [TreasuryNext]_treasuryVars PROVE TreasuryInv'
    OBVIOUS
<1>1. CASE BeginTreasuryBoot \/ EndTreasuryBoot \/ GenerateLeaderboard \/ TreasuryCycleFails
    BY <1>1, CycleKeeps
<1>2. ASSUME NEW h \in Holders, SpawnHolder(h) \/ OrientHolder(h) PROVE TreasuryInv'
    BY <1>2, BirthKeeps
<1>3. CASE PerformAllocationRound
    BY <1>3, RoundKeeps
<1>4. CASE AllocateCapital
    BY <1>4, AwardKeeps
<1>5. CASE WriteAward
    BY <1>5, WriteKeeps
<1>6. CASE Reproduce
    BY <1>6, OffspringKeeps
<1>7. CASE EvaluateHolders \/ FreezeHolders \/ WakeHolders \/ (\E h \in Holders : HibernateHolder(h))
    BY <1>7, DepartureKeeps
<1>8. CASE GetUsdtCadRate \/ (\E h \in Holders : RaiseHolder(h))
    BY <1>8, ShiftKeeps
<1>9. CASE UNCHANGED treasuryVars
    BY <1>9, TreasuryRests
<1> QED
    BY <1>1, <1>2, <1>3, <1>4, <1>5, <1>6, <1>7, <1>8, <1>9 DEF TreasuryNext

-------------------------------------------------------------------------------
(* The treasury: the theorems *)

\* In every state the treasury reaches the parts of the invariant hold together.
THEOREM TreasuryInvariant == TreasurySpec => []TreasuryInv
<1>1. TreasuryInit => TreasuryInv
    BY TreasuryStarts
<1>2. TreasuryInv /\ [TreasuryNext]_treasuryVars => TreasuryInv'
    BY TreasurySteps
<1> QED
    BY <1>1, <1>2, PTL DEF TreasurySpec

\* The books of the treasury and of its rounds have their types: no allocation
\* is ever negative, nor is the treasury (src/genesis/treasury.py).
THEOREM TreasuryTypesHold == TreasurySpec => []TreasuryTypes
<1>1. TreasuryInv => TreasuryTypes
    BY DEF TreasuryInv
<1> QED
    BY <1>1, TreasuryInvariant, PTL

\* "Allocation should not dip into the 20% reserve" (tests/test_treasury.py): for
\* any holders, rates, scores and birthrights a round of allocations never
\* commits more than the treasury may, nor adds to an excess that founders,
\* offspring, another rate or agents risen from the dead have caused.
THEOREM ReserveNeverDipped == TreasurySpec => []ReserveKept
<1>1. TreasuryInv => ReserveKept
    BY DEF TreasuryInv
<1> QED
    BY <1>1, TreasuryInvariant, PTL

-------------------------------------------------------------------------------
(* The Arena: the review queue inside it *)

\* What a cycle of Genesis has consumed is pending until it marks it.
HandedPending == cycle.ids \subseteq Pending

ReviewInv == ReviewTypes /\ HandedPending

\* Each step of the queue keeps its types and what the cycle holds, and turns no
\* verdict.
LEMMA ReviewKeeps ==
    ASSUME ReviewInv, [ReviewNext]_reviewVars
    PROVE  /\ ReviewInv'
           /\ \A e \in Events : regimeReview[e] \in {"reviewed", "failed"}
                                   => regimeReview'[e] = regimeReview[e]
<1> DEFINE Kept == \A e \in Events : regimeReview[e] \in {"reviewed", "failed"}
                                       => regimeReview'[e] = regimeReview[e]
           Cycles == [step : {"idle", "regime", "assessed", "unassessed"}, ids : SUBSET Events]
<1>0. /\ regimeReview \in [Events -> ReviewStatus] /\ attempts \in [Events -> Nat]
      /\ cycle \in Cycles /\ queryFailures \in 0 .. Threshold
      /\ \A e \in cycle.ids : e \in Events /\ regimeReview[e] = "pending"
      /\ MaxAttempts \in Nat /\ Threshold \in Nat
    BY ReviewAssumption DEF ReviewInv, ReviewTypes, HandedPending, Pending
<1> DEFINE Goal == /\ regimeReview' \in [Events -> ReviewStatus] /\ attempts' \in [Events -> Nat]
                   /\ cycle' \in Cycles /\ queryFailures' \in 0 .. Threshold
                   /\ \A e \in cycle'.ids : regimeReview'[e] = "pending"
                   /\ Kept
<1>1. SUFFICES Goal
    <2>1. cycle' \in Cycles => cycle'.ids \subseteq Events
        OBVIOUS
    <2> QED
        BY <1>1, <2>1 DEF ReviewInv, ReviewTypes, HandedPending, Pending
<1>2. NoCycle \in Cycles /\ NoCycle.ids = {}
    BY DEF NoCycle
<1>3. ASSUME NEW e \in Events, InsertEvent(e) PROVE Goal
    BY <1>0, <1>3 DEF InsertEvent, ReviewStatus
<1>4. CASE ConsumePending
    <2>1. PICK raised \in SUBSET Batch : cycle' = [step |-> "regime", ids |-> Batch \ raised]
        BY <1>4 DEF ConsumePending
    <2>2. \A e \in Batch : e \in Events /\ regimeReview[e] = "pending" /\ attempts[e] < MaxAttempts
        BY DEF Batch, Consumable, Pending
    <2>3. cycle' \in Cycles /\ cycle'.ids \subseteq Batch
        BY <2>1, <2>2
    <2>4. /\ regimeReview' = [e \in Events |-> IF e \in Exhausted THEN "failed" ELSE regimeReview[e]]
          /\ attempts' = [e \in Events |-> IF e \in Batch THEN attempts[e] + 1 ELSE attempts[e]]
          /\ queryFailures' = 0
        BY <1>4 DEF ConsumePending
    <2>5. \A e \in Exhausted : regimeReview[e] = "pending" /\ attempts[e] >= MaxAttempts
        BY DEF Exhausted, Pending
    <2>6. \A e \in Batch : e \notin Exhausted
        BY <1>0, <2>2, <2>5
    <2>7. regimeReview' \in [Events -> ReviewStatus] /\ Kept
        BY <1>0, <2>4, <2>5 DEF ReviewStatus
    <2>8. attempts' \in [Events -> Nat] /\ queryFailures' \in 0 .. Threshold
        BY <1>0, <2>4
    <2>9. \A e \in cycle'.ids : regimeReview'[e] = "pending"
        BY <2>2, <2>3, <2>4, <2>6
    <2> QED
        BY <2>3, <2>7, <2>8, <2>9
<1>5. CASE ConsumeFails
    BY <1>0, <1>5 DEF ConsumeFails
<1>6. CASE DetectRegime \/ DetectRegimeFails
    BY <1>0, <1>6 DEF DetectRegime, DetectRegimeFails
<1>7. CASE MarkReviewed
    <2>1. /\ regimeReview' = [e \in Events |-> IF e \in cycle.ids THEN "reviewed" ELSE regimeReview[e]]
          /\ cycle' = NoCycle /\ UNCHANGED <<attempts, queryFailures>>
        BY <1>7 DEF MarkReviewed
    <2> QED
        BY <1>0, <1>2, <2>1 DEF ReviewStatus
<1>8. CASE CycleFails \/ RestartGenesis
    BY <1>0, <1>2, <1>8 DEF CycleFails, RestartGenesis
<1>9. CASE UNCHANGED reviewVars
    BY <1>0, <1>9 DEF reviewVars
<1> QED
    BY <1>3, <1>4, <1>5, <1>6, <1>7, <1>8, <1>9 DEF ReviewNext, RunCycle

-------------------------------------------------------------------------------
(* The Arena: what its verification has seen *)

\* Unless the stamp of this boot failed, a fresh timestamp was written since it,
\* and whoever waits for the fetch has seen the heartbeat.
BootWatched ==
    /\ unstamped \/ fresh \subseteq since
    /\ phase = "verify_fetch" => "heartbeat" \in since \/ unstamped

\* The inductive invariant.
ArenaInv == ReviewInv /\ ArenaTypes /\ BootWatched /\ BootIsVerified

Verified == BootWatched /\ BootIsVerified

\* Every step of the Arena is a step of the queue or leaves it alone.
LEMMA ArenaStepsReview == [ArenaNext]_arenaVars => [ReviewNext]_reviewVars
<1> SUFFICES ASSUME [ArenaNext]_arenaVars PROVE [ReviewNext]_reviewVars
    OBVIOUS
<1> USE DEF ReviewNext
<1>1. ASSUME NEW stamp \in BOOLEAN, LaunchArena(stamp) PROVE UNCHANGED reviewVars
    BY <1>1 DEF LaunchArena
<1>2. CASE VerifyBeat \/ VerifyFetch \/ StopSignal \/ ExitArena \/ ArenaDies
    BY <1>2 DEF VerifyBeat, VerifyFetch, StopSignal, ExitArena, ArenaDies
<1>3. ASSUME NEW P, End(P) PROVE RestartGenesis \/ UNCHANGED reviewVars
    BY <1>3 DEF End, GenesisEnds
<1>4. CASE AbortBoot \/ TerminateChild \/ StopArena \/ (\E p \in Mortal : Die(p))
    BY <1>3, <1>4 DEF AbortBoot, TerminateChild, StopArena, Die
<1>5. ASSUME NEW p \in Processes, RestartChild(p) PROVE UNCHANGED reviewVars
    BY <1>5 DEF RestartChild
<1>6. CASE RedisFails \/ RedisReturns \/ Heart \/ GrowOld \/ WardenWrites
    BY <1>6 DEF RedisFails, RedisReturns, Heart, FirstBeat, Beat, CheckFails, GrowOld, WardenWrites
<1>7. CASE StartScheduler \/ AttemptFetch
    BY <1>7 DEF StartScheduler, AttemptFetch
<1>8. ASSUME NEW e \in Events, Digest(e) PROVE InsertEvent(e)
    BY <1>8 DEF Digest
<1>9. ASSUME NEW sent \in BOOLEAN, CheckHeartbeat(sent) PROVE UNCHANGED reviewVars
    BY <1>9 DEF CheckHeartbeat
<1>10. CASE ReviewStep
    BY <1>10 DEF ReviewStep
<1>11. CASE UNCHANGED arenaVars
    BY <1>11 DEF arenaVars
<1> QED
    BY <1>1, <1>2, <1>4, <1>5, <1>6, <1>7, <1>8, <1>9, <1>10, <1>11
       DEF ArenaNext, Supervise, Mishap, Genesis

\* What was verified stays so while nothing touches it.
LEMMA BootStays ==
    ASSUME Verified, UNCHANGED boot, phase' = phase \/ phase' = "off"
    PROVE  Verified'
BY DEF Verified, BootWatched, BootIsVerified, boot

\* Whatever a heartbeat or a fetch writes was written since the launch.
LEMMA WrittenStays ==
    ASSUME Verified, NEW p, Wrote(p), phase' = phase
    PROVE  Verified'
BY DEF Verified, BootWatched, BootIsVerified, Wrote

\* The supervisor passes only on what is fresh.
LEMMA VerifiedStep == Verified /\ [ArenaNext]_arenaVars => Verified'
<1> SUFFICES ASSUME Verified, [ArenaNext]_arenaVars PROVE Verified'
    OBVIOUS
<1>1. ASSUME NEW stamp \in BOOLEAN, LaunchArena(stamp) PROVE Verified'
    BY <1>1 DEF LaunchArena, Verified, BootWatched, BootIsVerified
<1>2. CASE VerifyBeat
    BY <1>2 DEF VerifyBeat, Verified, BootWatched, BootIsVerified, boot
<1>3. CASE VerifyFetch
    BY <1>3 DEF VerifyFetch, Verified, BootWatched, BootIsVerified, boot
<1>4. CASE StopSignal
    BY <1>4 DEF StopSignal, Verified, BootWatched, BootIsVerified, boot
<1>5. CASE AbortBoot \/ TerminateChild \/ StopArena \/ ExitArena \/ ArenaDies
    BY <1>5, BootStays DEF AbortBoot, TerminateChild, StopArena, ExitArena, ArenaDies
<1>6. ASSUME NEW p \in Processes, RestartChild(p) PROVE Verified'
    BY <1>6, BootStays DEF RestartChild
<1>7. ASSUME NEW p \in Mortal, Die(p) PROVE Verified'
    BY <1>7, BootStays DEF Die
<1>8. CASE RedisFails \/ RedisReturns \/ CheckFails \/ GrowOld \/ WardenWrites \/ StartScheduler
    BY <1>8, BootStays DEF RedisFails, RedisReturns, CheckFails, GrowOld, WardenWrites, StartScheduler
<1>9. CASE FirstBeat \/ Beat
    BY <1>9, WrittenStays DEF FirstBeat, Beat, Beaten
<1>10. CASE AttemptFetch
    BY <1>10, WrittenStays DEF AttemptFetch
<1>11. ASSUME NEW e \in Events, Digest(e) PROVE Verified'
    BY <1>11, BootStays DEF Digest
<1>12. ASSUME NEW sent \in BOOLEAN, CheckHeartbeat(sent) PROVE Verified'
    BY <1>12, BootStays DEF CheckHeartbeat
<1>13. CASE ReviewStep
    BY <1>13, BootStays DEF ReviewStep
<1>14. CASE UNCHANGED arenaVars
    BY <1>14, BootStays DEF arenaVars
<1> QED
    BY <1>1, <1>2, <1>3, <1>4, <1>5, <1>6, <1>7, <1>8, <1>9, <1>10, <1>11, <1>12, <1>13, <1>14
       DEF ArenaNext, Supervise, Mishap, Heart, Genesis

-------------------------------------------------------------------------------
(* The Arena: its types *)

Pulsing == {"heartbeat", "wire_scheduler"}

SupervisorTypes ==
    /\ phase \in {"off", "verify_beat", "verify_fetch", "watch", "stopping"}
    /\ child \subseteq Processes /\ stray \subseteq Processes
BootTypes ==
    /\ fresh \subseteq Pulsing /\ since \subseteq Pulsing
    /\ stamped \in BOOLEAN /\ unstamped \in BOOLEAN
SwitchTypes ==
    serving \subseteq Pulsing /\ failures \in 0 .. MaxFailures /\ alertStatus \in {"green", "red"}
MonitorTypes ==
    /\ old \in BOOLEAN /\ silent \in BOOLEAN /\ lost \in BOOLEAN /\ checked \in BOOLEAN
    /\ posted \in {"none", "silent", "recovered"}

\* The types, part by part.
LEMMA ArenaTypesParts ==
    ArenaTypes <=> /\ SupervisorTypes /\ BootTypes /\ SwitchTypes /\ MonitorTypes
                   /\ redisUp \in BOOLEAN /\ upsets \in 0 .. MaxUpsets
BY DEF ArenaTypes, SupervisorTypes, BootTypes, SwitchTypes, MonitorTypes, Pulsing

LEMMA ArenaTypesNext ==
    ASSUME SupervisorTypes', BootTypes', SwitchTypes', MonitorTypes',
           redisUp' \in BOOLEAN, upsets' \in 0 .. MaxUpsets
    PROVE  ArenaTypes'
BY DEF ArenaTypes, SupervisorTypes, BootTypes, SwitchTypes, MonitorTypes, Pulsing

LEMMA BootTypesStay == BootTypes /\ UNCHANGED boot => BootTypes'
BY DEF BootTypes, boot

LEMMA SwitchTypesStay == SwitchTypes /\ UNCHANGED switch => SwitchTypes'
BY DEF SwitchTypes, switch

LEMMA MonitorTypesStay == MonitorTypes /\ UNCHANGED monitor => MonitorTypes'
BY DEF MonitorTypes, monitor, alerts

\* An upset is counted up to its bound.
LEMMA UpsetTypes ==
    ASSUME upsets \in 0 .. MaxUpsets, Upset \/ UNCHANGED upsets
    PROVE  upsets' \in 0 .. MaxUpsets
<1>1. MaxUpsets \in Nat
    BY ArenaAssumption
<1> QED
    BY <1>1 DEF Upset

\* Processes end: their memory is gone.
LEMMA EndTypes ==
    ASSUME SwitchTypes, MonitorTypes, NEW P, End(P), UNCHANGED alertStatus
    PROVE  SwitchTypes' /\ MonitorTypes'
<1>1. MaxFailures \in Nat
    BY ArenaAssumption
<1>2. SwitchTypes'
    BY <1>1 DEF End, SwitchTypes
<1>3. MonitorTypes'
    <2>1. CASE "genesis" \in P
        BY <2>1 DEF End, GenesisEnds, MonitorTypes
    <2>2. CASE "genesis" \notin P
        BY <2>2, MonitorTypesStay DEF End
    <2> QED
        BY <2>1, <2>2
<1> QED
    BY <1>2, <1>3

\* The supervisor's own steps.
LEMMA SuperviseTypes ==
    ASSUME ArenaTypes, Supervise \/ StopArena \/ ArenaDies \/ (\E p \in Mortal : Die(p))
    PROVE  ArenaTypes'
<1>0. /\ SupervisorTypes /\ BootTypes /\ SwitchTypes /\ MonitorTypes
      /\ redisUp \in BOOLEAN /\ upsets \in 0 .. MaxUpsets
    BY ArenaTypesParts
<1>1. ASSUME NEW stamp \in BOOLEAN, LaunchArena(stamp) PROVE ArenaTypes'
    <2>1. SupervisorTypes'
        BY <1>0, <1>1 DEF LaunchArena, SupervisorTypes, Started
    <2>2. BootTypes'
        BY <1>0, <1>1 DEF LaunchArena, BootTypes
    <2>3. UNCHANGED <<switch, monitor, redisUp>> /\ (Upset \/ UNCHANGED upsets)
        BY <1>1 DEF LaunchArena
    <2> QED
        BY <1>0, <2>1, <2>2, <2>3, SwitchTypesStay, MonitorTypesStay, UpsetTypes, ArenaTypesNext
<1>2. CASE VerifyBeat \/ VerifyFetch \/ StopSignal \/ ExitArena \/ ArenaDies
    <2>1. SupervisorTypes'
        BY <1>0, <1>2
           DEF VerifyBeat, VerifyFetch, StopSignal, ExitArena, ArenaDies, SupervisorTypes
    <2>2. UNCHANGED <<boot, switch, monitor, redisUp, upsets>>
        BY <1>2 DEF VerifyBeat, VerifyFetch, StopSignal, ExitArena, ArenaDies
    <2> QED
        BY <1>0, <2>1, <2>2, BootTypesStay, SwitchTypesStay, MonitorTypesStay, ArenaTypesNext
<1>3. ASSUME NEW p \in Processes, RestartChild(p) PROVE ArenaTypes'
    <2>1. SupervisorTypes'
        BY <1>0, <1>3 DEF RestartChild, SupervisorTypes, Started
    <2>2. UNCHANGED <<boot, switch, monitor, redisUp, upsets>>
        BY <1>3 DEF RestartChild
    <2> QED
        BY <1>0, <2>1, <2>2, BootTypesStay, SwitchTypesStay, MonitorTypesStay, ArenaTypesNext
<1>4. CASE AbortBoot \/ TerminateChild \/ StopArena \/ (\E p \in Mortal : Die(p))
    <2>1. SupervisorTypes'
        BY <1>0, <1>4 DEF AbortBoot, TerminateChild, StopArena, Die, SupervisorTypes
    <2>2. UNCHANGED <<boot, alertStatus, redisUp>> /\ (Upset \/ UNCHANGED upsets)
        BY <1>4 DEF AbortBoot, TerminateChild, StopArena, Die
    <2>3. PICK P : End(P)
        BY <1>4 DEF AbortBoot, TerminateChild, StopArena, Die
    <2> QED
        BY <1>0, <2>1, <2>2, <2>3, BootTypesStay, EndTypes, UpsetTypes, ArenaTypesNext
<1> QED
    BY <1>1, <1>2, <1>3, <1>4 DEF Supervise

\* The steps of the processes and of Redis.
LEMMA LifeTypes ==
    ASSUME ArenaTypes,
           \/ RedisFails \/ RedisReturns \/ Heart \/ GrowOld \/ WardenWrites
           \/ StartScheduler \/ AttemptFetch \/ (\E e \in Events : Digest(e)) \/ Genesis
    PROVE  ArenaTypes'
<1>0. /\ SupervisorTypes /\ BootTypes /\ SwitchTypes /\ MonitorTypes
      /\ redisUp \in BOOLEAN /\ upsets \in 0 .. MaxUpsets /\ MaxFailures \in Nat
    BY ArenaTypesParts, ArenaAssumption
<1>1. CASE RedisFails \/ RedisReturns
    <2>1. UNCHANGED <<phase, child, stray, boot, switch, monitor>> /\ redisUp' \in BOOLEAN
        BY <1>1 DEF RedisFails, RedisReturns
    <2>2. Upset \/ UNCHANGED upsets
        BY <1>1 DEF RedisFails, RedisReturns
    <2>3. SupervisorTypes'
        BY <1>0, <2>1 DEF SupervisorTypes
    <2> QED
        BY <1>0, <2>1, <2>2, <2>3, BootTypesStay, SwitchTypesStay, MonitorTypesStay, UpsetTypes,
           ArenaTypesNext
<1>2. CASE FirstBeat \/ Beat
    <2>1. UNCHANGED <<phase, child, stray, alertStatus, alerts, checked, redisUp, upsets>>
        BY <1>2 DEF FirstBeat, Beat
    <2>2. Wrote("heartbeat") /\ old' = FALSE
        BY <1>2 DEF FirstBeat, Beat, Beaten
    <2>3. SupervisorTypes'
        BY <1>0, <2>1 DEF SupervisorTypes
    <2>4. BootTypes'
        BY <1>0, <2>2 DEF BootTypes, Wrote, Pulsing
    <2>5. SwitchTypes'
        <3>1. serving' \subseteq Pulsing /\ failures' \in 0 .. MaxFailures
            <4>1. CASE FirstBeat
                BY <1>0, <4>1 DEF FirstBeat, SwitchTypes, Pulsing
            <4>2. CASE Beat
                <5>1. UNCHANGED serving /\ failures' = 0
                    BY <4>2 DEF Beat
                <5> QED
                    BY <1>0, <5>1 DEF SwitchTypes
            <4> QED
                BY <1>2, <4>1, <4>2
        <3> QED
            BY <1>0, <2>1, <3>1 DEF SwitchTypes
    <2>6. MonitorTypes'
        BY <1>0, <2>1, <2>2 DEF MonitorTypes, alerts
    <2> QED
        BY <1>0, <2>1, <2>3, <2>4, <2>5, <2>6, ArenaTypesNext
<1>3. CASE CheckFails \/ WardenWrites
    <2>1. UNCHANGED <<phase, child, stray, serving, boot, monitor, redisUp, upsets>>
        BY <1>3 DEF CheckFails, WardenWrites
    <2>2. failures' \in 0 .. MaxFailures /\ alertStatus' \in {"green", "red"}
        BY <1>0, <1>3 DEF CheckFails, WardenWrites, SwitchTypes
    <2>3. SupervisorTypes' /\ SwitchTypes'
        BY <1>0, <2>1, <2>2 DEF SupervisorTypes, SwitchTypes
    <2> QED
        BY <1>0, <2>1, <2>3, BootTypesStay, MonitorTypesStay, ArenaTypesNext
<1>4. CASE GrowOld
    <2>1. /\ UNCHANGED <<phase, child, stray, boot, switch, alerts, checked, redisUp, upsets>>
          /\ old' = TRUE
        BY <1>4 DEF GrowOld
    <2>2. SupervisorTypes' /\ MonitorTypes'
        BY <1>0, <2>1 DEF SupervisorTypes, MonitorTypes, alerts
    <2> QED
        BY <1>0, <2>1, <2>2, BootTypesStay, SwitchTypesStay, ArenaTypesNext
<1>5. CASE StartScheduler
    <2>1. UNCHANGED <<phase, boot, failures, alertStatus, monitor, redisUp, upsets>>
        BY <1>5 DEF StartScheduler
    <2>2. SupervisorTypes' /\ SwitchTypes'
        BY <1>0, <1>5, <2>1 DEF StartScheduler, SupervisorTypes, SwitchTypes, Pulsing
    <2> QED
        BY <1>0, <2>1, <2>2, BootTypesStay, MonitorTypesStay, ArenaTypesNext
<1>6. CASE AttemptFetch
    <2>1. UNCHANGED <<phase, child, stray, switch, monitor, redisUp, upsets>> /\ Wrote("wire_scheduler")
        BY <1>6 DEF AttemptFetch
    <2>2. SupervisorTypes' /\ BootTypes'
        BY <1>0, <2>1 DEF SupervisorTypes, BootTypes, Wrote, Pulsing
    <2> QED
        BY <1>0, <2>1, <2>2, SwitchTypesStay, MonitorTypesStay, ArenaTypesNext
<1>7. ASSUME NEW e \in Events, Digest(e) PROVE ArenaTypes'
    <2>1. UNCHANGED <<phase, child, stray, boot, switch, monitor, redisUp, upsets>>
        BY <1>7 DEF Digest
    <2>2. SupervisorTypes'
        BY <1>0, <2>1 DEF SupervisorTypes
    <2> QED
        BY <1>0, <2>1, <2>2, BootTypesStay, SwitchTypesStay, MonitorTypesStay, ArenaTypesNext
<1>8. ASSUME NEW sent \in BOOLEAN, CheckHeartbeat(sent) PROVE ArenaTypes'
    <2>1. /\ UNCHANGED <<phase, child, stray, boot, switch, old, redisUp>>
          /\ checked' = TRUE /\ silent' = old /\ Report(sent)
        BY <1>8 DEF CheckHeartbeat
    <2>2. SupervisorTypes'
        BY <1>0, <2>1 DEF SupervisorTypes
    <2>3. /\ posted' \in {posted, "silent", "recovered"} /\ lost' \in {lost, TRUE, FALSE}
          /\ Upset \/ UNCHANGED upsets
        BY <2>1 DEF Report, Emit
    <2>4. MonitorTypes'
        BY <1>0, <2>1, <2>3 DEF MonitorTypes
    <2> QED
        BY <1>0, <2>1, <2>2, <2>3, <2>4, BootTypesStay, SwitchTypesStay, UpsetTypes, ArenaTypesNext
<1>9. CASE ReviewStep
    <2>1. /\ UNCHANGED <<phase, child, stray, boot, switch, old, alerts, redisUp, upsets>>
          /\ checked' = FALSE
        BY <1>9 DEF ReviewStep
    <2>2. SupervisorTypes' /\ MonitorTypes'
        BY <1>0, <2>1 DEF SupervisorTypes, MonitorTypes, alerts
    <2> QED
        BY <1>0, <2>1, <2>2, BootTypesStay, SwitchTypesStay, ArenaTypesNext
<1> QED
    BY <1>1, <1>2, <1>3, <1>4, <1>5, <1>6, <1>7, <1>8, <1>9 DEF Heart, Genesis

LEMMA ArenaTypeStep == ArenaTypes /\ [ArenaNext]_arenaVars => ArenaTypes'
<1>1. ASSUME ArenaTypes, ArenaNext PROVE ArenaTypes'
    BY <1>1, SuperviseTypes, LifeTypes DEF ArenaNext, Mishap
<1>2. ASSUME ArenaTypes, UNCHANGED arenaVars PROVE ArenaTypes'
    BY <1>2 DEF arenaVars, boot, switch, monitor, alerts, ArenaTypes
<1> QED
    BY <1>1, <1>2

-------------------------------------------------------------------------------
(* The Arena: the theorems *)

LEMMA ArenaStarts == ArenaInit => ArenaInv
<1> SUFFICES ASSUME ArenaInit PROVE ArenaInv
    OBVIOUS
<1>1. ReviewInv
    BY ReviewAssumption DEF ArenaInit, ReviewInit, ReviewInv, ReviewTypes, HandedPending, NoCycle,
       ReviewStatus
<1>2. ArenaTypes
    <2>1. MaxFailures \in Nat /\ MaxUpsets \in Nat
        BY ArenaAssumption
    <2>2. SupervisorTypes /\ BootTypes
        BY DEF ArenaInit, SupervisorTypes, BootTypes
    <2>3. SwitchTypes
        <3>1. serving = {} /\ failures = 0 /\ alertStatus = "green"
            BY DEF ArenaInit
        <3> QED
            BY <2>1, <3>1 DEF SwitchTypes
    <2>4. MonitorTypes
        BY DEF ArenaInit, MonitorTypes
    <2>5. redisUp \in BOOLEAN /\ upsets \in 0 .. MaxUpsets
        BY <2>1 DEF ArenaInit
    <2> QED
        BY <2>2, <2>3, <2>4, <2>5, ArenaTypesParts
<1>3. BootWatched /\ BootIsVerified
    BY DEF ArenaInit, BootWatched, BootIsVerified
<1> QED
    BY <1>1, <1>2, <1>3 DEF ArenaInv

LEMMA ArenaSteps == ArenaInv /\ [ArenaNext]_arenaVars => ArenaInv'
BY ArenaStepsReview, ReviewKeeps, ArenaTypeStep, VerifiedStep DEF ArenaInv, Verified

\* In every state of the colony under its supervisor the parts of the invariant
\* hold together.
THEOREM ArenaInvariant == ArenaSpec => []ArenaInv
<1>1. ArenaInit => ArenaInv
    BY ArenaStarts
<1>2. ArenaInv /\ [ArenaNext]_arenaVars => ArenaInv'
    BY ArenaSteps
<1> QED
    BY <1>1, <1>2, PTL DEF ArenaSpec

\* The state of the supervisor, of the dead man's switch, of its monitor and of
\* the review queue have their types (scripts/run_arena.py, risk/heartbeat.py).
THEOREM ArenaTypesHold == ArenaSpec => [](ArenaTypes /\ ReviewTypes)
<1>1. ArenaInv => ArenaTypes /\ ReviewTypes
    BY DEF ArenaInv, ReviewInv
<1> QED
    BY <1>1, ArenaInvariant, PTL

\* For any processes, mortal ones, shutdown order and number of mishaps: the
\* Arena never watches over a colony whose dead man's switch has not beaten, or
\* whose Wire has not tried to fetch, since it started them, unless its boot
\* stamp failed (_verify_dead_mans_switch_alive, _verify_wire_scheduler_alive).
THEOREM BootAlwaysVerified == ArenaSpec => []BootIsVerified
<1>1. ArenaInv => BootIsVerified
    BY DEF ArenaInv
<1> QED
    BY <1>1, ArenaInvariant, PTL

\* The colony under its supervisor implements the queue of reviews alone: the
\* deaths and restarts of Genesis are steps of the queue or leave it as it is.
THEOREM ArenaRunsReviews == ArenaSpec => ReviewInit /\ [][ReviewNext]_reviewVars
<1>1. ArenaInit => ReviewInit
    BY DEF ArenaInit
<1> QED
    BY <1>1, ArenaStepsReview, PTL DEF ArenaSpec

\* No review verdict is ever turned: the update by id alone revives no row that
\* the attempt cap has failed, whatever dies and is restarted meanwhile
\* (_mark_regime_reviews_reviewed, _consume_pending_regime_reviews).
THEOREM VerdictsStayFinal == ArenaSpec => VerdictsAreFinal
<1>1. ArenaInv /\ [ArenaNext]_arenaVars
         => [\A e \in Events : regimeReview[e] \in {"reviewed", "failed"}
                => regimeReview'[e] = regimeReview[e]]_reviewVars
    BY ArenaStepsReview, ReviewKeeps DEF ArenaInv
<1> QED
    BY <1>1, ArenaInvariant, PTL DEF ArenaSpec, VerdictsAreFinal

===============================================================================
