---------------------------- MODULE EconomyProofs ----------------------------
(***************************************************************************)
(* Proofs about the reputation economy: its types, the stakes that are     *)
(* given back once and the reviews that count only when paid, for any      *)
(* agents, signals, requests, amounts and number of crashes and calls.     *)
(***************************************************************************)
EXTENDS Economy, TLAPS

Settled == {"expired_no_endorsements", "settled_profitable", "settled_unprofitable"}

\* The cycle in progress holds active signals to take up, and the one it has
\* taken up is settled already; an endorsement is in hand exactly between the
\* scout's row and its own.
CycleSound ==
    /\ \A s \in gen.todo \cap Signals : signal[s] = "active"
    /\ \A s \in gen.on \cap Signals : signal[s] \in Settled
    /\ gen.on \cap Signals = {} => gen.rest = {}
    /\ IF gen.step = "none" THEN gen.who = {} ELSE \E a \in gen.rest : gen.who = {a}

\* A stake that was given back is that of a settled signal, and the cycle that
\* holds the signal is beyond giving this stake back.
StakesSound ==
    \A s \in Signals, a \in Agents :
        /\ released[<<s, a>>] <= 1
        /\ released[<<s, a>>] >= 1 =>
              /\ signal[s] \in Settled
              /\ gen.on = {s} /\ a \in gen.rest =>
                    gen.who = {a} /\ gen.step \in {"bonus", "mark"}

\* A critic whose review is about to count has been paid for it.
PaymentsSound ==
    \A r \in Requests, a \in Agents :
        assignment[<<r, a>>] = "completed" \/ InCall(a, "earned", r) => paid[<<r, a>>] >= 1

\* The inductive invariant.
EconomyInv == EconomyTypes /\ CycleSound /\ StakesSound /\ PaymentsSound

-------------------------------------------------------------------------------
(* Types *)

CallState == [op : {"none", "endorse", "staked", "ask", "asked", "accepted", "earned", "marked"},
              on : SUBSET (Signals \cup Requests), verdict : {"none", "approve", "reject"}]
Work == [op : {"none", "settle", "expire"}, todo : SUBSET (Signals \cup Requests),
         counted : SUBSET Signals, on : SUBSET (Signals \cup Requests),
         correct : BOOLEAN, rest : SUBSET Agents, who : SUBSET Agents,
         step : {"none", "release", "bonus", "mark"}, win : BOOLEAN]

LEMMA IdleTypes == NoCall \in CallState /\ NoWork \in Work
BY DEF NoCall, NoWork, CallState, Work

\* The amounts that are moved.
LEMMA AmountTypes ==
    /\ {Stake, Bonus, Budget, Stake \div 2, Budget \div 2, MinIntel} \subseteq Int
    /\ \A r \in Requests : Needed(r) * Budget \in Int /\ Payment(r) \in Int
<1>1. Stake \in Int /\ Bonus \in Int /\ Budget \in Int /\ MinIntel \in Int
    BY EconomyAssumption
<1>2. Stake \div 2 \in Int /\ Budget \div 2 \in Int /\ 2 * Budget \in Int /\ 1 * Budget \in Int
    BY <1>1
<1> QED
    BY <1>1, <1>2 DEF Needed, Payment

LEMMA MoveTypes ==
    ASSUME EconomyTypes, NEW a \in Agents, NEW amount \in Int, Reward(a, amount) \/ Penalize(a, amount)
    PROVE  reputation' \in [Agents -> Int]
BY DEF EconomyTypes, Reward, Penalize

LEMMA CallTypes ==
    ASSUME EconomyTypes, NEW a \in Agents,
           \/ \E x \in Signals \cup Requests, op \in {"endorse", "ask"} : Begin(a, op, x)
           \/ \E op \in {"staked", "asked", "earned", "marked"} : Advance(a, op)
           \/ End(a)
    PROVE  call' \in [Agents -> CallState]
<1>1. call \in [Agents -> CallState]
    BY DEF EconomyTypes, CallState
<1>2. ASSUME NEW x \in Signals \cup Requests, NEW op \in {"endorse", "ask"}, Begin(a, op, x)
      PROVE  call' \in [Agents -> CallState]
    <2>1. [NoCall EXCEPT !.op = op, !.on = {x}] \in CallState
        BY DEF NoCall, CallState
    <2> QED
        BY <1>1, <1>2, <2>1 DEF Begin
<1>3. ASSUME NEW op \in {"staked", "asked", "earned", "marked"}, Advance(a, op)
      PROVE  call' \in [Agents -> CallState]
    <2>1. [call[a] EXCEPT !.op = op] \in CallState
        BY <1>1 DEF CallState
    <2>2. call' = [call EXCEPT ![a] = [call[a] EXCEPT !.op = op]]
        BY <1>3 DEF Advance
    <2> QED
        BY <1>1, <2>1, <2>2
<1>4. CASE End(a)
    BY <1>1, <1>4, IdleTypes DEF End
<1> QED
    BY <1>2, <1>3, <1>4

\* The counters stay within their bounds.
LEMMA CountTypes ==
    ASSUME EconomyTypes
    PROVE  /\ calls < MaxCalls => calls + 1 \in 0..MaxCalls
           /\ crashes < MaxCrashes => crashes + 1 \in 0..MaxCrashes
BY EconomyAssumption DEF EconomyTypes

LEMMA InitTypes == EconomyInit => EconomyTypes
<1> SUFFICES ASSUME EconomyInit PROVE EconomyTypes
    OBVIOUS
<1>1. call \in [Agents -> CallState] /\ gen \in Work
    BY IdleTypes DEF EconomyInit
<1>2. /\ reputation \in [Agents -> Int] /\ crashes \in 0..MaxCrashes /\ calls \in 0..MaxCalls
    BY EconomyAssumption DEF EconomyInit
<1>3. critics \in [Agents -> CriticRow]
    BY DEF EconomyInit, CriticRow
<1>4. /\ signal \in [Signals -> SignalStatus]
      /\ endorsement \in [Endorsements -> EndorsementStatus]
      /\ request \in [Requests -> RequestStatus]
      /\ assignment \in [Requests \X Agents -> AssignmentStatus]
      /\ released \in [Endorsements -> Nat] /\ paid \in [Requests \X Agents -> Nat]
    BY DEF EconomyInit, SignalStatus, EndorsementStatus, RequestStatus, AssignmentStatus
<1> QED
    BY <1>1, <1>2, <1>3, <1>4 DEF EconomyInit, EconomyTypes, CallState, Work

LEMMA MarketTypes ==
    ASSUME EconomyTypes, NEW s \in Signals, Market(s)
    PROVE  EconomyTypes'
<1> USE DEF EconomyTypes, intel, reviews
<1>1. ASSUME NEW price \in BOOLEAN, CreateSignal(s, price)
      PROVE  EconomyTypes'
    BY <1>1, CountTypes DEF CreateSignal, Call, SignalStatus
<1>2. ASSUME NEW a \in Agents, BeginEndorse(s, a)
      PROVE  EconomyTypes'
    BY <1>2, CallTypes, CountTypes DEF BeginEndorse, Call, CallState
<1>3. ASSUME NEW a \in Agents, LinkTrade(s, a)
      PROVE  EconomyTypes'
    BY <1>3, CountTypes DEF LinkTrade, Call, Endorsements
<1> QED
    BY <1>1, <1>2, <1>3 DEF Market

LEMMA ReviewTypes ==
    ASSUME EconomyTypes, NEW r \in Requests, Review(r)
    PROVE  EconomyTypes'
<1> USE DEF EconomyTypes, intel, reviews
<1>1. CASE BeginRequest(r)
    BY <1>1, EconomyAssumption, CallTypes, CountTypes DEF BeginRequest, Call, CallState
<1>2. ASSUME NEW a \in Agents, NEW v \in {"approve", "reject"}, AcceptReview(r, a, v)
      PROVE  EconomyTypes'
    BY <1>2, CountTypes DEF AcceptReview, Call, RequestStatus, AssignmentStatus
<1> QED
    BY <1>1, <1>2 DEF Review

LEMMA ProceedTypes ==
    ASSUME EconomyTypes, NEW a \in Agents, Proceed(a)
    PROVE  EconomyTypes'
<1> USE DEF EconomyTypes, intel, reviews
<1>1. ASSUME NEW s \in Signals, StakeReputation(s, a)
      PROVE  EconomyTypes'
    BY <1>1, CallTypes, MoveTypes, AmountTypes DEF StakeReputation, Escrow, CallState
<1>2. ASSUME NEW s \in Signals, InsertEndorsement(s, a)
      PROVE  EconomyTypes'
    BY <1>2, CallTypes DEF InsertEndorsement, Endorsements, EndorsementStatus, CallState
<1>3. ASSUME NEW r \in Requests, Requester[r] = a, EscrowBudget(r)
      PROVE  EconomyTypes'
    BY <1>3, CallTypes, MoveTypes, AmountTypes DEF EscrowBudget, Escrow, CallState
<1>4. ASSUME NEW r \in Requests, Requester[r] = a, InsertRequest(r)
      PROVE  EconomyTypes'
    BY <1>4, CallTypes DEF InsertRequest, RequestStatus, CallState
<1>5. ASSUME NEW r \in Requests, PayCritic(r, a)
      PROVE  EconomyTypes'
    BY <1>5, CallTypes, MoveTypes, AmountTypes DEF PayCritic, CallState
<1>6. ASSUME NEW r \in Requests, MarkReview(r, a)
      PROVE  EconomyTypes'
    <2>1. critics' \in [Agents -> CriticRow]
        <3>1. ASSUME NEW row \in CriticRow, NEW v PROVE Scored(row, v) \in CriticRow
            <4> DEFINE n == row.reviews + 1
                       m == row.approvals + (IF v = "approve" THEN 1 ELSE 0)
            <4>1. n \in Nat /\ m \in Nat
                BY DEF CriticRow
            <4>2. Scored(row, v) = [row EXCEPT !.reviews = n, !.approvals = m]
                BY DEF Scored
            <4> QED
                <5> HIDE DEF n, m
                <5> QED
                    BY <4>1, <4>2 DEF CriticRow
        <3>2. critics' = [critics EXCEPT ![a] = Scored(critics[a], call[a].verdict)]
            BY <1>6 DEF MarkReview
        <3>3. critics[a] \in CriticRow /\ call[a].verdict \in {"none", "approve", "reject"}
            OBVIOUS
        <3>4. Scored(critics[a], call[a].verdict) \in CriticRow
            BY <3>1, <3>3
        <3> QED
            BY <3>2, <3>4
    <2> QED
        BY <1>6, <2>1, CallTypes DEF MarkReview, AssignmentStatus, CallState
<1>7. ASSUME NEW r \in Requests, CloseRequest(r, a)
      PROVE  EconomyTypes'
    BY <1>7, CallTypes DEF CloseRequest, RequestStatus, CallState
<1> QED
    BY <1>1, <1>2, <1>3, <1>4, <1>5, <1>6, <1>7 DEF Proceed

LEMMA SettlementTypes ==
    ASSUME EconomyTypes, NEW s \in Signals, Settle(s)
    PROVE  EconomyTypes'
<1> USE DEF EconomyTypes, intel, reviews
<1>a. Scout[s] \in Agents
    BY EconomyAssumption
<1>1. CASE ExpireUnendorsed(s)
    BY <1>1 DEF ExpireUnendorsed, SignalStatus
<1>2. CASE DeferSignal(s)
    BY <1>2 DEF DeferSignal
<1>3. CASE FailOnZeroPrice(s)
    BY <1>3 DEF FailOnZeroPrice
<1>4. ASSUME NEW c \in BOOLEAN, SettleSignal(s, c)
      PROVE  EconomyTypes'
    BY <1>4 DEF SettleSignal, SignalStatus, Endorsers
<1>5. ASSUME NEW a \in Agents, NEW win \in BOOLEAN, SettleScout(s, a, win)
      PROVE  EconomyTypes'
    <2>1. reputation' \in [Agents -> Int]
        BY <1>5, <1>a, MoveTypes, AmountTypes DEF SettleScout
    <2> QED
        BY <1>5, <2>1 DEF SettleScout
<1>6. ASSUME NEW a \in Agents, ReleaseStake(s, a)
      PROVE  EconomyTypes'
    <2>1. reputation' \in [Agents -> Int]
        BY <1>6, MoveTypes, AmountTypes DEF ReleaseStake, Release
    <2>2. released' \in [Endorsements -> Nat]
        BY <1>6 DEF ReleaseStake, Endorsements
    <2>3. gen' \in Work
        BY <1>6 DEF ReleaseStake, Work
    <2> QED
        BY <1>6, <2>1, <2>2, <2>3 DEF ReleaseStake, Work
<1>7. ASSUME NEW a \in Agents, PayBonus(s, a)
      PROVE  EconomyTypes'
    <2>1. reputation' \in [Agents -> Int]
        BY <1>7, MoveTypes, AmountTypes DEF PayBonus
    <2> QED
        BY <1>7, <2>1 DEF PayBonus
<1>8. ASSUME NEW a \in Agents, MarkEndorsement(s, a)
      PROVE  EconomyTypes'
    BY <1>8 DEF MarkEndorsement, Endorsements, EndorsementStatus
<1> QED
    BY <1>1, <1>2, <1>3, <1>4, <1>5, <1>6, <1>7, <1>8 DEF Settle

\* The detection writes rows of the table.
LEMMA FlagTypes ==
    /\ WashFlags \subseteq FlagRow /\ RubberStamps \subseteq FlagRow
    /\ IntelSpam \subseteq FlagRow
<1>1. ASSUME NEW type \in {"wash_trading", "rubber_stamp", "intel_spam"},
             NEW who \in SUBSET Agents, NEW severity \in {"warning", "penalty"}
      PROVE  Flag(type, who, severity) \in FlagRow
    BY DEF Flag, FlagRow
<1>2. WashFlags \subseteq FlagRow
    <2>1. \A p \in WashPairs : {p[1], p[2]} \in SUBSET Agents
        BY DEF WashPairs
    <2> QED
        BY <1>1, <2>1 DEF WashFlags
<1>3. RubberStamps \subseteq FlagRow
    BY <1>1 DEF RubberStamps
<1>4. IntelSpam \subseteq FlagRow
    BY <1>1 DEF IntelSpam
<1> QED
    BY <1>2, <1>3, <1>4

LEMMA TypeStep == EconomyTypes /\ [EconomyNext]_vars => EconomyTypes'
<1> SUFFICES ASSUME EconomyTypes, [EconomyNext]_vars PROVE EconomyTypes'
    OBVIOUS
<1>1. CASE \/ \E s \in Signals : Market(s)
           \/ \E r \in Requests : Review(r)
           \/ \E a \in Agents : Proceed(a)
    BY <1>1, MarketTypes, ReviewTypes, ProceedTypes
<1> USE DEF EconomyTypes, intel, reviews
<1>4. CASE CrashAgents
    BY <1>4, CountTypes, IdleTypes DEF CrashAgents, CallState
<1>5. CASE BeginSettlement
    BY <1>5 DEF BeginSettlement, NoWork, Ready
<1>6. CASE BeginExpiry
    BY <1>6 DEF BeginExpiry, NoWork
<1>7. ASSUME NEW s \in Signals, Settle(s)
      PROVE  EconomyTypes'
    BY <1>7, SettlementTypes
<1>8. CASE FinishSignal
    BY <1>8 DEF FinishSignal
<1>9. ASSUME NEW r \in Requests, RefundRequest(r)
      PROVE  EconomyTypes'
    <2>1. reputation' \in [Agents -> Int]
        BY <1>9, EconomyAssumption, MoveTypes, AmountTypes DEF RefundRequest, Release
    <2> QED
        BY <1>9, <2>1 DEF RefundRequest
<1>10. ASSUME NEW r \in Requests, ExpireRequest(r)
       PROVE  EconomyTypes'
    BY <1>10 DEF ExpireRequest, RequestStatus
<1>11. CASE EndWork
    BY <1>11 DEF EndWork, NoWork
<1>12. CASE Maintain
    BY <1>12 DEF Maintain, ReleaseAssignment, RequestStatus, AssignmentStatus
<1>13. CASE RunDetection
    BY <1>13, FlagTypes DEF RunDetection
<1>14. CASE AbandonSignal
    BY <1>14, CountTypes DEF AbandonSignal, NoWork
<1>15. CASE CrashGenesis
    BY <1>15, CountTypes DEF CrashGenesis, NoWork
<1>16. CASE TimePasses
    BY <1>16 DEF TimePasses, Ripen, GoStale
<1>17. CASE UNCHANGED vars
    BY <1>17 DEF vars
<1> QED
    BY <1>1, <1>4, <1>5, <1>6, <1>7, <1>8, <1>9, <1>10, <1>11, <1>12, <1>13, <1>14, <1>15,
       <1>16, <1>17 DEF EconomyNext, GenesisWork

-------------------------------------------------------------------------------
(* The stakes *)

\* Most steps touch neither the cycle, nor a signal, nor a stake.
LEMMA StakesUntouched ==
    ASSUME CycleSound, StakesSound, gen' = gen, signal' = signal, released' = released
    PROVE  CycleSound' /\ StakesSound'
BY DEF CycleSound, StakesSound

\* A signal that is created is new to the cycle and has no stakes.
LEMMA StakesCreate ==
    ASSUME EconomyTypes, CycleSound, StakesSound,
           NEW s \in Signals, NEW price \in BOOLEAN, CreateSignal(s, price)
    PROVE  CycleSound' /\ StakesSound'
<1>1. /\ signal[s] = "none" /\ signal' = [signal EXCEPT ![s] = "active"]
      /\ gen' = gen /\ released' = released /\ signal \in [Signals -> SignalStatus]
    BY DEF CreateSignal, EconomyTypes
<1>2. s \notin gen.todo /\ s \notin gen.on
    BY <1>1 DEF CycleSound, Settled
<1>3. CycleSound'
    BY <1>1, <1>2 DEF CycleSound
<1>4. \A a \in Agents : ~(released[<<s, a>>] >= 1)
    BY <1>1 DEF StakesSound, Settled
<1> QED
    BY <1>1, <1>3, <1>4 DEF StakesSound

\* Leaving a signal, or taking a list of active signals in hand, is safe.
LEMMA StakesIdle ==
    ASSUME EconomyTypes, CycleSound, StakesSound, signal' = signal, released' = released,
           gen' \in Work, gen'.on \cap Signals = {}, gen'.rest = {}, gen'.who = {}, gen'.step = "none",
           \A s \in gen'.todo \cap Signals : signal[s] = "active"
    PROVE  CycleSound' /\ StakesSound'
<1>1. CycleSound'
    BY DEF CycleSound
<1> QED
    BY <1>1 DEF StakesSound

\* The cycle takes up signals one by one and the endorsements of one, one by one.
LEMMA StakesSettlement ==
    ASSUME EconomyTypes, CycleSound, StakesSound, NEW s \in Signals, Settle(s)
    PROVE  CycleSound' /\ StakesSound'
<1>g. gen \in Work /\ signal \in [Signals -> SignalStatus] /\ released \in [Endorsements -> Nat]
    BY DEF EconomyTypes, Work
<1>r. \A t \in Signals, a \in Agents : <<t, a>> \in Endorsements /\ released[<<t, a>>] \in Nat
    BY <1>g DEF Endorsements
<1> USE <1>g, <1>r
<1>1. CASE ExpireUnendorsed(s)
    <2>1. /\ signal[s] = "active" /\ gen.on = {} /\ gen.rest = {} /\ gen.step = "none" /\ gen.who = {}
        BY <1>1 DEF ExpireUnendorsed, TakeUp, CycleSound
    <2>2. /\ signal' = [signal EXCEPT ![s] = "expired_no_endorsements"] /\ released' = released
          /\ gen' = [gen EXCEPT !.todo = @ \ {s}]
        BY <1>1 DEF ExpireUnendorsed
    <2>3. CycleSound'
        BY <2>1, <2>2 DEF CycleSound, Work
    <2> QED
        BY <2>1, <2>2, <2>3 DEF StakesSound, Settled, Work
<1>2. CASE DeferSignal(s) \/ FailOnZeroPrice(s)
    <2>1. /\ gen.on = {} /\ gen.rest = {} /\ gen.step = "none" /\ gen.who = {}
          /\ gen' = [gen EXCEPT !.todo = @ \ {s}] /\ signal' = signal /\ released' = released
        BY <1>2 DEF DeferSignal, FailOnZeroPrice, TakeUp, CycleSound, intel
    <2>2. gen' \in Work
        BY <2>1 DEF Work
    <2> QED
        BY <2>1, <2>2, StakesIdle DEF CycleSound, Work
<1>3. ASSUME NEW c \in BOOLEAN, SettleSignal(s, c)
      PROVE  CycleSound' /\ StakesSound'
    <2>1. signal[s] = "active" /\ gen.step = "none" /\ gen.who = {}
        BY <1>3 DEF SettleSignal, TakeUp, CycleSound
    <2>2. PICK verdict \in Settled : signal' = [signal EXCEPT ![s] = verdict]
        BY <1>3 DEF SettleSignal, Settled
    <2>3. /\ gen'.todo = gen.todo \ {s} /\ gen'.on = {s} /\ gen'.step = "none" /\ gen'.who = {}
          /\ released' = released
        BY <1>3, <2>1 DEF SettleSignal, Work
    <2>4. CycleSound'
        BY <2>2, <2>3 DEF CycleSound
    <2>5. \A a \in Agents : ~(released[<<s, a>>] >= 1)
        BY <2>1 DEF StakesSound, Settled
    <2> QED
        BY <2>2, <2>3, <2>4, <2>5 DEF StakesSound
<1>4. ASSUME NEW a \in Agents, NEW win \in BOOLEAN, SettleScout(s, a, win)
      PROVE  CycleSound' /\ StakesSound'
    <2>1. /\ gen.on = {s} /\ gen.step = "none" /\ a \in gen.rest
          /\ gen'.todo = gen.todo /\ gen'.on = {s} /\ gen'.rest = gen.rest
          /\ gen'.who = {a} /\ gen'.step \in {"release", "mark"}
          /\ signal' = signal /\ released' = released
        BY <1>4 DEF SettleScout, intel, Work
    <2>2. \A b \in gen.rest : ~(released[<<s, b>>] >= 1)
        BY <2>1 DEF StakesSound, Work
    <2>3. CycleSound'
        BY <2>1 DEF CycleSound
    <2> QED
        BY <2>1, <2>2, <2>3 DEF StakesSound
<1>5. ASSUME NEW a \in Agents, ReleaseStake(s, a)
      PROVE  CycleSound' /\ StakesSound'
    <2>1. /\ gen.on = {s} /\ gen.step = "release" /\ gen.who = {a}
          /\ gen'.todo = gen.todo /\ gen'.on = {s} /\ gen'.rest = gen.rest
          /\ gen'.who = {a} /\ gen'.step \in {"bonus", "mark"}
          /\ signal' = signal /\ released' = [released EXCEPT ![<<s, a>>] = @ + 1]
        BY <1>5 DEF ReleaseStake, Work
    <2>2. a \in gen.rest /\ signal[s] \in Settled
        BY <2>1 DEF CycleSound
    <2>3. released[<<s, a>>] = 0
        BY <2>1, <2>2 DEF StakesSound
    <2>4. CycleSound'
        BY <2>1, <2>2 DEF CycleSound
    <2>5. \A t \in Signals, b \in Agents :
              released'[<<t, b>>] = IF t = s /\ b = a THEN 1 ELSE released[<<t, b>>]
        <3> SUFFICES ASSUME NEW t \in Signals, NEW b \in Agents
                     PROVE  released'[<<t, b>>] = IF t = s /\ b = a THEN 1 ELSE released[<<t, b>>]
            OBVIOUS
        <3>1. <<s, a>> \in DOMAIN released /\ <<t, b>> \in DOMAIN released
            OBVIOUS
        <3>2. <<t, b>> = <<s, a>> <=> t = s /\ b = a
            OBVIOUS
        <3> QED
            BY <2>1, <2>3, <3>1, <3>2
    <2> QED
        BY <2>1, <2>2, <2>4, <2>5 DEF StakesSound
<1>6. ASSUME NEW a \in Agents, PayBonus(s, a)
      PROVE  CycleSound' /\ StakesSound'
    <2>1. /\ gen.on = {s} /\ gen.step = "bonus" /\ gen.who = {a}
          /\ gen'.todo = gen.todo /\ gen'.on = {s} /\ gen'.rest = gen.rest
          /\ gen'.who = {a} /\ gen'.step = "mark" /\ signal' = signal /\ released' = released
        BY <1>6 DEF PayBonus, intel, Work
    <2>2. CycleSound'
        BY <2>1 DEF CycleSound
    <2> QED
        BY <2>1, <2>2 DEF StakesSound
<1>7. ASSUME NEW a \in Agents, MarkEndorsement(s, a)
      PROVE  CycleSound' /\ StakesSound'
    <2>1. /\ gen.on = {s} /\ gen.step = "mark" /\ gen.who = {a}
          /\ gen'.todo = gen.todo /\ gen'.on = {s} /\ gen'.rest = gen.rest \ {a}
          /\ gen'.who = {} /\ gen'.step = "none" /\ signal' = signal /\ released' = released
        BY <1>7 DEF MarkEndorsement, Work
    <2>2. CycleSound'
        BY <2>1 DEF CycleSound
    <2> QED
        BY <2>1, <2>2 DEF StakesSound
<1> QED
    BY <1>1, <1>2, <1>3, <1>4, <1>5, <1>6, <1>7 DEF Settle

LEMMA StakesStep ==
    EconomyTypes /\ CycleSound /\ StakesSound /\ [EconomyNext]_vars => CycleSound' /\ StakesSound'
<1> SUFFICES ASSUME EconomyTypes, CycleSound, StakesSound, [EconomyNext]_vars
             PROVE  CycleSound' /\ StakesSound'
    OBVIOUS
<1>0. EconomyTypes'
    BY TypeStep
<1>g. gen \in Work /\ gen' \in Work
    BY <1>0 DEF EconomyTypes, Work
<1>1. ASSUME NEW s \in Signals, Market(s)
      PROVE  CycleSound' /\ StakesSound'
    BY <1>1, StakesCreate, StakesUntouched DEF Market, BeginEndorse, LinkTrade, intel
<1>2. ASSUME NEW r \in Requests, Review(r)
      PROVE  CycleSound' /\ StakesSound'
    BY <1>2, StakesUntouched DEF Review, BeginRequest, AcceptReview, intel
<1>3. ASSUME NEW a \in Agents, Proceed(a)
      PROVE  CycleSound' /\ StakesSound'
    BY <1>3, StakesUntouched DEF Proceed, StakeReputation, InsertEndorsement, EscrowBudget,
       InsertRequest, PayCritic, MarkReview, CloseRequest, intel
<1>4. CASE CrashAgents \/ Maintain \/ RunDetection \/ TimePasses \/ UNCHANGED vars
    BY <1>4, StakesUntouched DEF CrashAgents, Maintain, ReleaseAssignment, RunDetection,
       TimePasses, Ripen, GoStale, intel, vars
<1>5. CASE BeginSettlement
    BY <1>5, <1>g, StakesIdle DEF BeginSettlement, NoWork, Ready
<1>6. CASE BeginExpiry
    <2>1. \A r \in gen'.todo : r \notin Signals
        BY <1>6, EconomyAssumption DEF BeginExpiry, NoWork, EconomyTypes
    <2> QED
        BY <1>6, <1>g, <2>1, StakesIdle DEF BeginExpiry, NoWork, intel
<1>7. ASSUME NEW s \in Signals, Settle(s)
      PROVE  CycleSound' /\ StakesSound'
    BY <1>7, StakesSettlement
<1>8. CASE FinishSignal
    <2>1. gen.step = "none" /\ gen.who = {}
        BY <1>8 DEF FinishSignal, CycleSound
    <2> QED
        BY <1>8, <1>g, <2>1, StakesIdle DEF FinishSignal, intel, Work, CycleSound
<1>9. CASE EndWork \/ AbandonSignal \/ CrashGenesis
    <2>1. /\ gen'.on = {} /\ gen'.rest = {} /\ gen'.who = {} /\ gen'.step = "none"
          /\ gen'.todo \subseteq gen.todo /\ signal' = signal /\ released' = released
        <3>1. CASE EndWork \/ CrashGenesis
            BY <3>1 DEF EndWork, CrashGenesis, NoWork, intel
        <3>2. CASE AbandonSignal
            BY <3>2 DEF AbandonSignal, NoWork, intel
        <3> QED
            BY <1>9, <3>1, <3>2
    <2> QED
        BY <1>g, <2>1, StakesIdle DEF CycleSound
<1>10. ASSUME NEW r \in Requests, RefundRequest(r) \/ ExpireRequest(r)
       PROVE  CycleSound' /\ StakesSound'
    <2>1. r \notin Signals
        BY EconomyAssumption
    <2>2. /\ gen.on \cap Signals = {} /\ gen'.on \cap Signals = {} /\ gen'.todo \subseteq gen.todo
          /\ gen'.rest = gen.rest /\ gen'.who = gen.who /\ gen'.step = gen.step
          /\ signal' = signal /\ released' = released
        <3>1. CASE RefundRequest(r)
            <4>1. gen' = [gen EXCEPT !.on = {r}, !.todo = @ \ {r}] /\ gen.on = {} /\ UNCHANGED intel
                BY <3>1 DEF RefundRequest
            <4>2. /\ gen'.on = {r} /\ gen'.todo = gen.todo \ {r} /\ gen'.rest = gen.rest
                  /\ gen'.who = gen.who /\ gen'.step = gen.step
                BY <1>g, <4>1 DEF Work
            <4> QED
                BY <2>1, <4>1, <4>2 DEF intel
        <3>2. CASE ExpireRequest(r)
            <4>1. gen' = [gen EXCEPT !.on = {}] /\ gen.on = {r} /\ UNCHANGED intel
                BY <3>2 DEF ExpireRequest, intel
            <4>2. /\ gen'.on = {} /\ gen'.todo = gen.todo /\ gen'.rest = gen.rest
                  /\ gen'.who = gen.who /\ gen'.step = gen.step
                BY <1>g, <4>1 DEF Work
            <4> QED
                BY <2>1, <4>1, <4>2 DEF intel
        <3> QED
            BY <1>10, <3>1, <3>2
    <2> QED
        BY <2>2, <1>g DEF CycleSound, StakesSound
<1> QED
    BY <1>1, <1>2, <1>3, <1>4, <1>5, <1>6, <1>7, <1>8, <1>9, <1>10 DEF EconomyNext, GenesisWork

-------------------------------------------------------------------------------
(* The reviews *)

\* Most steps complete no review, bring no critic to the mark and take no payment.
LEMMA PaymentsUntouched ==
    ASSUME PaymentsSound, paid' = paid,
           \A r \in Requests, a \in Agents :
              /\ assignment'[<<r, a>>] = "completed" => assignment[<<r, a>>] = "completed"
              /\ InCall(a, "earned", r)' => InCall(a, "earned", r)
    PROVE  PaymentsSound'
BY DEF PaymentsSound

\* The calls of agents, but for the payment and the mark.
LEMMA PaymentsCalls ==
    ASSUME EconomyTypes, PaymentsSound, NEW a \in Agents, paid' = paid, assignment' = assignment,
           \/ \E op \in {"endorse", "ask"}, x \in Signals \cup Requests : Begin(a, op, x)
           \/ \E op \in {"staked", "asked", "marked"} : Advance(a, op)
           \/ End(a)
    PROVE  PaymentsSound'
<1>1. call \in [Agents -> CallState]
    BY DEF EconomyTypes, CallState
<1>2. \A b \in Agents : b # a => call'[b] = call[b]
    BY <1>1 DEF Begin, Advance, End
<1>3. call'[a].op # "earned"
    <2>1. ASSUME NEW op \in {"endorse", "ask"}, NEW x, Begin(a, op, x)
          PROVE  call'[a].op # "earned"
        BY <1>1, <2>1 DEF Begin, NoCall
    <2>2. ASSUME NEW op \in {"staked", "asked", "marked"}, Advance(a, op)
          PROVE  call'[a].op # "earned"
        BY <1>1, <2>2 DEF Advance, CallState
    <2>3. CASE End(a)
        BY <1>1, <2>3 DEF End, NoCall
    <2> QED
        BY <2>1, <2>2, <2>3
<1> QED
    BY <1>2, <1>3, PaymentsUntouched DEF InCall

LEMMA PaymentsStep == EconomyTypes /\ PaymentsSound /\ [EconomyNext]_vars => PaymentsSound'
<1> SUFFICES ASSUME EconomyTypes, PaymentsSound, [EconomyNext]_vars PROVE PaymentsSound'
    OBVIOUS
<1>t. /\ assignment \in [Requests \X Agents -> AssignmentStatus]
      /\ paid \in [Requests \X Agents -> Nat] /\ call \in [Agents -> CallState]
      /\ \A s \in Signals : Scout[s] \in Agents
      /\ \A r \in Requests : Requester[r] \in Agents
    BY EconomyAssumption DEF EconomyTypes, CallState
<1> USE <1>t
<1>1. ASSUME paid' = paid, assignment' = assignment, call' = call
      PROVE  PaymentsSound'
    BY <1>1, PaymentsUntouched DEF InCall
<1>2. ASSUME NEW s \in Signals, Market(s)
      PROVE  PaymentsSound'
    BY <1>1, <1>2, PaymentsCalls DEF Market, CreateSignal, BeginEndorse, LinkTrade, reviews
<1>3. ASSUME NEW r \in Requests, BeginRequest(r)
      PROVE  PaymentsSound'
    BY <1>3, PaymentsCalls DEF BeginRequest, reviews
<1>4. ASSUME NEW r \in Requests, NEW a \in Agents, NEW v \in {"approve", "reject"},
             AcceptReview(r, a, v)
      PROVE  PaymentsSound'
    <2>1. /\ paid' = paid /\ assignment' = [assignment EXCEPT ![<<r, a>>] = "accepted"]
          /\ call' = [call EXCEPT ![a] = [op |-> "accepted", on |-> {r}, verdict |-> v]]
        BY <1>4 DEF AcceptReview
    <2>2. \A q \in Requests, b \in Agents :
              assignment'[<<q, b>>] \in {"accepted", assignment[<<q, b>>]}
        BY <2>1
    <2>3. \A b \in Agents : call'[b].op = "earned" => call'[b] = call[b]
        BY <2>1
    <2> QED
        BY <2>1, <2>2, <2>3, PaymentsUntouched DEF InCall
<1>5. ASSUME NEW a \in Agents, NEW s \in Signals, StakeReputation(s, a) \/ InsertEndorsement(s, a)
      PROVE  PaymentsSound'
    BY <1>5, PaymentsCalls DEF StakeReputation, InsertEndorsement, reviews
<1>6. ASSUME NEW r \in Requests, EscrowBudget(r) \/ InsertRequest(r)
      PROVE  PaymentsSound'
    BY <1>6, PaymentsCalls DEF EscrowBudget, InsertRequest, reviews
<1>7. ASSUME NEW a \in Agents, NEW r \in Requests, PayCritic(r, a)
      PROVE  PaymentsSound'
    <2>1. /\ paid' = [paid EXCEPT ![<<r, a>>] = @ + 1] /\ assignment' = assignment
          /\ call' = [call EXCEPT ![a].op = "earned"] /\ call[a].on = {r}
        BY <1>7 DEF PayCritic, Advance, InCall, reviews
    <2>2. paid'[<<r, a>>] >= 1
        <3>1. <<r, a>> \in DOMAIN paid /\ paid[<<r, a>>] \in Nat
            OBVIOUS
        <3> QED
            BY <2>1, <3>1
    <2>3. ASSUME NEW q \in Requests, NEW b \in Agents, <<q, b>> # <<r, a>>
          PROVE  paid'[<<q, b>>] = paid[<<q, b>>] /\ (InCall(b, "earned", q)' => InCall(b, "earned", q))
        BY <2>1, <2>3 DEF InCall, CallState
    <2>4. ASSUME NEW q \in Requests, NEW b \in Agents,
                 assignment'[<<q, b>>] = "completed" \/ InCall(b, "earned", q)'
          PROVE  paid'[<<q, b>>] >= 1
        BY <2>1, <2>2, <2>3, <2>4 DEF PaymentsSound
    <2> QED
        BY <2>4 DEF PaymentsSound
<1>8. ASSUME NEW a \in Agents, NEW r \in Requests, MarkReview(r, a)
      PROVE  PaymentsSound'
    <2>1. /\ paid' = paid /\ assignment' = [assignment EXCEPT ![<<r, a>>] = "completed"]
          /\ call' = [call EXCEPT ![a].op = "marked"] /\ InCall(a, "earned", r)
        BY <1>8 DEF MarkReview, Advance, reviews
    <2>2. ASSUME NEW q \in Requests, NEW b \in Agents, InCall(b, "earned", q)'
          PROVE  InCall(b, "earned", q)
        BY <2>1, <2>2 DEF InCall, CallState
    <2>3. ASSUME NEW q \in Requests, NEW b \in Agents, assignment'[<<q, b>>] = "completed"
          PROVE  assignment[<<q, b>>] = "completed" \/ InCall(b, "earned", q)
        BY <2>1, <2>3
    <2> QED
        BY <2>1, <2>2, <2>3 DEF PaymentsSound
<1>9. ASSUME NEW a \in Agents, NEW r \in Requests, CloseRequest(r, a)
      PROVE  PaymentsSound'
    BY <1>9, PaymentsCalls DEF CloseRequest, reviews
<1>10. CASE CrashAgents
    BY <1>10, PaymentsUntouched DEF CrashAgents, InCall, NoCall, reviews
<1>11. ASSUME NEW r \in Requests, NEW a \in Agents, ReleaseAssignment(r, a)
       PROVE  PaymentsSound'
    <2>1. /\ paid' = paid /\ call' = call
          /\ assignment' = [assignment EXCEPT ![<<r, a>>] = "none"]
        BY <1>11 DEF ReleaseAssignment
    <2>2. \A q \in Requests, b \in Agents : assignment'[<<q, b>>] \in {"none", assignment[<<q, b>>]}
        BY <2>1
    <2> QED
        BY <2>1, <2>2, PaymentsUntouched DEF InCall
<1>12. ASSUME NEW s \in Signals, Settle(s)
       PROVE  PaymentsSound'
    BY <1>1, <1>12 DEF Settle, ExpireUnendorsed, DeferSignal, FailOnZeroPrice, SettleSignal,
       SettleScout, ReleaseStake, PayBonus, MarkEndorsement, reviews
<1>13. CASE \/ BeginSettlement \/ BeginExpiry \/ FinishSignal \/ EndWork \/ RunDetection
            \/ AbandonSignal \/ CrashGenesis \/ TimePasses \/ UNCHANGED vars
    BY <1>1, <1>13 DEF BeginSettlement, BeginExpiry, FinishSignal, EndWork, RunDetection,
       AbandonSignal, CrashGenesis, TimePasses, Ripen, GoStale, reviews, vars
<1>14. ASSUME NEW r \in Requests, RefundRequest(r) \/ ExpireRequest(r)
       PROVE  PaymentsSound'
    BY <1>1, <1>14 DEF RefundRequest, ExpireRequest, reviews
<1> QED
    BY <1>2, <1>3, <1>4, <1>5, <1>6, <1>7, <1>8, <1>9, <1>10, <1>11, <1>12, <1>13, <1>14
       DEF EconomyNext, Review, Proceed, GenesisWork, Maintain

-------------------------------------------------------------------------------
(* The theorems *)

LEMMA InitInv == EconomyInit => EconomyInv
<1> SUFFICES ASSUME EconomyInit PROVE EconomyInv
    OBVIOUS
<1>1. EconomyTypes
    BY InitTypes
<1>2. CycleSound
    BY DEF EconomyInit, CycleSound, NoWork
<1>3. StakesSound
    BY DEF EconomyInit, StakesSound, Endorsements
<1>4. PaymentsSound
    BY DEF EconomyInit, PaymentsSound, InCall, NoCall
<1> QED
    BY <1>1, <1>2, <1>3, <1>4 DEF EconomyInv

\* The invariant holds in every state of every behaviour, whatever dies in
\* between two transactions.
THEOREM EconomyInvariant == EconomySpec => []EconomyInv
<1>1. EconomyInv /\ [EconomyNext]_vars => EconomyInv'
    BY TypeStep, StakesStep, PaymentsStep DEF EconomyInv
<1> QED
    BY <1>1, InitInv, PTL DEF EconomySpec

\* Type correctness of the reputation economy: balances, rows of signals,
\* endorsements, requests and assignments, and the calls in progress.
THEOREM EconomyTypesHold == EconomySpec => []EconomyTypes
<1>1. EconomyInv => EconomyTypes
    BY DEF EconomyInv
<1> QED
    BY <1>1, EconomyInvariant, PTL

\* A stake is given back at most once, wherever the settlement of its signal
\* fails or Genesis dies (SettlementEngine._settle_signal commits the verdict first).
THEOREM StakesOnce == EconomySpec => []StakesReleasedOnce
<1>1. EconomyInv => StakesReleasedOnce
    BY DEF EconomyInv, StakesSound, StakesReleasedOnce, Endorsements
<1> QED
    BY <1>1, EconomyInvariant, PTL

\* A completed review has been paid for, wherever the agents process died
\* (ReviewMarket.submit_review pays before it sets completed_at).
THEOREM ReviewsPaid == EconomySpec => []ReviewsArePaid
<1>1. EconomyInv => ReviewsArePaid
    BY DEF EconomyInv, PaymentsSound, ReviewsArePaid
<1> QED
    BY <1>1, EconomyInvariant, PTL

===============================================================================
