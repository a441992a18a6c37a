------------------------------- MODULE Economy -------------------------------
(***************************************************************************)
(* The reputation economy (src/src/economy): agents stake reputation on    *)
(* each other's signals and buy reviews of their plans; Genesis settles    *)
(* signals, expires requests and looks for gaming.                         *)
(*                                                                         *)
(* Every operation of the economy is a row of small transactions, and      *)
(* whatever is between two of them can be lost: a stake is escrowed before *)
(* its endorsement exists, a signal is settled before its endorsements, a  *)
(* critic is paid before its review counts.  Here each transaction is one  *)
(* step.  Calls of agents run in the agents process, one per agent, and    *)
(* Genesis does one thing at a time; either process may die between two    *)
(* steps.  A balance is the sum of the agent's rows in                     *)
(* reputation_transactions.                                                *)
(***************************************************************************)
EXTENDS Integers, FiniteSets

CONSTANTS
    Agents, Signals, Requests,
    Scout,       \* Scout[s]: who posts signal s
    Requester,   \* Requester[r]: who asks for review r
    Two,         \* requests for more than 20% of the capital: two reviews
    Start, MinIntel, MinEndorse, Stake, Bonus, Budget,  \* in halves of a unit
    WashMin, SpamMin, StampMin,  \* what gaming detection lets pass
    MaxCrashes,  \* bound: processes that die
    MaxCalls     \* bound: calls the agents make

ASSUME EconomyAssumption ==
    /\ Scout \in [Signals -> Agents] /\ Requester \in [Requests -> Agents]
    /\ Two \subseteq Requests
    /\ {Start, MinIntel, MinEndorse, Stake, Bonus, Budget, WashMin, SpamMin, StampMin,
        MaxCrashes, MaxCalls} \subseteq Nat
    /\ Signals \cap Requests = {}

VARIABLES
    reputation,   \* Agent.reputation_score
    signal,       \* IntelSignal.status
    priced,       \* signals created with the price of their asset; the others have 0.0
    ripe,         \* signals beyond their expires_at
    endorsement,  \* IntelEndorsement.settlement_status
    linked,       \* endorsements that have a linked_trade_id
    request,      \* ReviewRequest.status
    stale,        \* requests beyond their expires_at
    assignment,   \* ReviewAssignment: accepted, or completed_at is set
    critics,      \* CriticAccuracy: reviews and approvals
    flags,        \* unresolved GamingFlag rows
    call,         \* the call each agent makes
    gen,          \* what Genesis does
    released,     \* released[s][a]: how often a's stake was given back
    paid,         \* paid[r][a]: how often a was paid for reviewing r
    late,         \* endorsements in the making when Genesis took up their signal
    broken,       \* signals whose settlement, requests whose closing was cut short
    crashes, calls

vars == <<reputation, signal, priced, ripe, endorsement, linked, request, stale, assignment,
          critics, flags, call, gen, released, paid, late, broken, crashes, calls>>
intel == <<signal, priced, ripe, endorsement, linked, released, late>>
reviews == <<request, stale, assignment, critics, paid>>

SignalStatus == {"none", "active", "expired_no_endorsements",
                 "settled_profitable", "settled_unprofitable"}
EndorsementStatus == {"none", "pending", "settled_win", "settled_loss"}
RequestStatus == {"none", "open", "assigned", "completed", "expired"}
AssignmentStatus == {"none", "accepted", "completed"}
CriticRow == [reviews : Nat, approvals : Nat]
FlagRow == [type : {"wash_trading", "rubber_stamp", "intel_spam"},
            agents : SUBSET Agents, severity : {"warning", "penalty"}]

Endorsements == Signals \X Agents

NoCall == [op |-> "none", on |-> {}, verdict |-> "none"]
NoWork == [op |-> "none", todo |-> {}, counted |-> {}, on |-> {}, correct |-> FALSE,
           rest |-> {}, who |-> {}, step |-> "none", win |-> FALSE]

EconomyTypes ==
    /\ reputation \in [Agents -> Int]
    /\ signal \in [Signals -> SignalStatus]
    /\ priced \subseteq Signals /\ ripe \subseteq Signals
    /\ endorsement \in [Endorsements -> EndorsementStatus]
    /\ linked \subseteq Endorsements
    /\ request \in [Requests -> RequestStatus]
    /\ stale \subseteq Requests
    /\ assignment \in [Requests \X Agents -> AssignmentStatus]
    /\ critics \in [Agents -> CriticRow]
    /\ flags \subseteq FlagRow
    /\ call \in [Agents -> [op : {"none", "endorse", "staked", "ask", "asked",
                                  "accepted", "earned", "marked"},
                            on : SUBSET (Signals \cup Requests),
                            verdict : {"none", "approve", "reject"}]]
    /\ gen \in [op : {"none", "settle", "expire"}, todo : SUBSET (Signals \cup Requests),
                counted : SUBSET Signals, on : SUBSET (Signals \cup Requests),
                correct : BOOLEAN, rest : SUBSET Agents, who : SUBSET Agents,
                step : {"none", "release", "bonus", "mark"}, win : BOOLEAN]
    /\ released \in [Endorsements -> Nat] /\ paid \in [Requests \X Agents -> Nat]
    /\ late \subseteq Endorsements
    /\ broken \subseteq Signals \cup Requests
    /\ crashes \in 0..MaxCrashes /\ calls \in 0..MaxCalls

EconomyInit ==
    /\ reputation = [a \in Agents |-> Start]
    /\ signal = [s \in Signals |-> "none"] /\ priced = {} /\ ripe = {}
    /\ endorsement = [e \in Endorsements |-> "none"] /\ linked = {}
    /\ request = [r \in Requests |-> "none"] /\ stale = {}
    /\ assignment = [e \in Requests \X Agents |-> "none"]
    /\ critics = [a \in Agents |-> [reviews |-> 0, approvals |-> 0]]
    /\ flags = {}
    /\ call = [a \in Agents |-> NoCall] /\ gen = NoWork
    /\ released = [e \in Endorsements |-> 0]
    /\ paid = [e \in Requests \X Agents |-> 0]
    /\ late = {} /\ broken = {} /\ crashes = 0 /\ calls = 0

-------------------------------------------------------------------------------
(* EconomyService: one transaction each *)

\* apply_reward.
Reward(a, amount) == reputation' = [reputation EXCEPT ![a] = @ + amount]

\* release_escrow.
Release(a, amount) == Reward(a, amount)

\* apply_penalty: the balance may become negative.
Penalize(a, amount) == reputation' = [reputation EXCEPT ![a] = @ - amount]

\* escrow_reputation: refused when the balance does not cover it.
Covers(a, amount) == reputation[a] >= amount
Escrow(a, amount) == Penalize(a, amount)

Free(a) == call[a].op = "none"
Call(a) == Free(a) /\ calls < MaxCalls /\ calls' = calls + 1
Begin(a, op, x) == call' = [call EXCEPT ![a] = [NoCall EXCEPT !.op = op, !.on = {x}]]
Advance(a, op) == call' = [call EXCEPT ![a].op = op]
End(a) == call' = [call EXCEPT ![a] = NoCall]
InCall(a, op, x) == call[a].op = op /\ call[a].on = {x}

-------------------------------------------------------------------------------
(* IntelMarket, in the agents process *)

Endorsers(s) == {a \in Agents : endorsement[<<s, a>>] # "none"}

CreateSignal(s, price) ==
    /\ signal[s] = "none" /\ Call(Scout[s])
    /\ Covers(Scout[s], MinIntel)
    /\ signal' = [signal EXCEPT ![s] = "active"]
    /\ priced' = IF price THEN priced \cup {s} ELSE priced
    /\ UNCHANGED <<reputation, ripe, endorsement, linked, released, late, reviews, flags,
                   call, gen, broken, crashes>>

\* What endorse_signal checks, in three transactions, before it stakes.
Endorsable(s, a) ==
    /\ signal[s] = "active" /\ s \notin ripe
    /\ Scout[s] # a
    /\ a \notin Endorsers(s)
    /\ Covers(a, MinEndorse) /\ Covers(a, Stake)

BeginEndorse(s, a) ==
    /\ Call(a) /\ Endorsable(s, a)
    /\ Begin(a, "endorse", s)
    /\ UNCHANGED <<reputation, intel, reviews, flags, gen, broken, crashes>>

StakeReputation(s, a) ==
    /\ InCall(a, "endorse", s)
    /\ IF Covers(a, Stake)
         THEN Escrow(a, Stake) /\ Advance(a, "staked")
         ELSE End(a) /\ UNCHANGED reputation
    /\ UNCHANGED <<intel, reviews, flags, gen, broken, crashes, calls>>

\* The endorsement, with its signal's counters; the signal is not looked at again.
InsertEndorsement(s, a) ==
    /\ InCall(a, "staked", s)
    /\ endorsement' = [endorsement EXCEPT ![<<s, a>>] = "pending"]
    /\ End(a)
    /\ UNCHANGED <<priced, reputation, signal, ripe, linked, released, late, reviews, flags, gen,
                   broken, crashes, calls>>

LinkTrade(s, a) ==
    /\ Call(a) /\ endorsement[<<s, a>>] = "pending"
    /\ linked' = linked \cup {<<s, a>>}
    /\ UNCHANGED <<priced, reputation, signal, ripe, endorsement, released, late, reviews, flags,
                   call, gen, broken, crashes>>

-------------------------------------------------------------------------------
(* SettlementEngine, in Genesis *)

Ready == {s \in Signals : signal[s] = "active" /\ s \in ripe}

Making(s) == {a \in Agents : call[a].op \in {"endorse", "staked"} /\ s \in call[a].on}

\* run_settlement_cycle reads the signals that are ripe and whether they were
\* endorsed.
BeginSettlement ==
    /\ gen.op = "none" /\ Ready # {}
    /\ gen' = [NoWork EXCEPT !.op = "settle", !.todo = Ready,
                             !.counted = {s \in Ready : Endorsers(s) # {}}]
    /\ late' = late \cup {e \in Endorsements : e[1] \in Ready /\ e[2] \in Making(e[1])}
    /\ UNCHANGED <<priced, reputation, signal, ripe, endorsement, linked, released, reviews, flags,
                   call, broken, crashes, calls>>

TakeUp(s) == gen.op = "settle" /\ gen.on = {} /\ s \in gen.todo

ExpireUnendorsed(s) ==
    /\ TakeUp(s) /\ s \notin gen.counted
    /\ signal' = [signal EXCEPT ![s] = "expired_no_endorsements"]
    /\ gen' = [gen EXCEPT !.todo = @ \ {s}]
    /\ UNCHANGED <<priced, reputation, ripe, endorsement, linked, released, late, reviews, flags,
                   call, broken, crashes, calls>>

\* No price: expires_at moves by an hour, which may still be in the past.
DeferSignal(s) ==
    /\ TakeUp(s) /\ s \in gen.counted
    /\ \E r \in BOOLEAN : ripe' = IF r THEN ripe ELSE ripe \ {s}
    /\ gen' = [gen EXCEPT !.todo = @ \ {s}]
    /\ UNCHANGED <<priced, reputation, signal, endorsement, linked, released, late, reviews, flags,
                   call, broken, crashes, calls>>

\* A price of 0.0 divides the change of the price: the handler of the cycle
\* counts an error and the signal stays as it is.
FailOnZeroPrice(s) ==
    /\ TakeUp(s) /\ s \in gen.counted \ priced
    /\ gen' = [gen EXCEPT !.todo = @ \ {s}]
    /\ UNCHANGED <<reputation, intel, reviews, flags, call, broken, crashes, calls>>

\* Mutant: the endorsements are settled before their signal is.
SettleEndorsementsFirst(s, correct) ==
    /\ TakeUp(s) /\ s \in gen.counted \cap priced
    /\ gen' = [gen EXCEPT !.todo = @ \ {s}, !.on = {s}, !.correct = correct,
                          !.rest = Endorsers(s)]
    /\ UNCHANGED <<reputation, intel, reviews, flags, call, broken, crashes, calls>>

\* Mutant: only the endorsements with a trade are read.
SettleLinkedOnly(s, correct) ==
    /\ TakeUp(s) /\ s \in gen.counted \cap priced
    /\ signal' = [signal EXCEPT ![s] = IF correct THEN "settled_profitable"
                                       ELSE "settled_unprofitable"]
    /\ gen' = [gen EXCEPT !.todo = @ \ {s}, !.on = {s}, !.correct = correct,
                          !.rest = {a \in Endorsers(s) : <<s, a>> \in linked}]
    /\ UNCHANGED <<priced, reputation, ripe, endorsement, linked, released, late, reviews, flags,
                   call, broken, crashes, calls>>

\* The verdict is committed, then the endorsements are read, of any status.
SettleSignal(s, correct) ==
    /\ TakeUp(s) /\ s \in gen.counted \cap priced
    /\ signal' = [signal EXCEPT ![s] = IF correct THEN "settled_profitable"
                                       ELSE "settled_unprofitable"]
    /\ gen' = [gen EXCEPT !.todo = @ \ {s}, !.on = {s}, !.correct = correct,
                          !.rest = Endorsers(s)]
    /\ UNCHANGED <<priced, reputation, ripe, endorsement, linked, released, late, reviews, flags,
                   call, broken, crashes, calls>>

\* _settle_endorsement, one transaction after the other: the scout's reward or
\* penalty, the stake given back, the bonus, the endorsement.  With a linked
\* trade its profit decides, without one the signal's verdict does, and the stake
\* is given back whatever the verdict.
SettleScout(s, a, win) ==
    /\ gen.on = {s} /\ gen.step = "none" /\ a \in gen.rest
    /\ <<s, a>> \notin linked => win = gen.correct
    /\ LET amount == IF <<s, a>> \in linked THEN Stake ELSE Stake \div 2
       IN  IF win THEN Reward(Scout[s], amount) ELSE Penalize(Scout[s], amount)
    /\ gen' = [gen EXCEPT !.who = {a}, !.win = win,
                          !.step = IF win \/ <<s, a>> \notin linked THEN "release" ELSE "mark"]
    /\ UNCHANGED <<intel, reviews, flags, call, broken, crashes, calls>>

ReleaseStake(s, a) ==
    /\ gen.on = {s} /\ gen.step = "release" /\ gen.who = {a}
    /\ Release(a, Stake)
    /\ released' = [released EXCEPT ![<<s, a>>] = @ + 1]
    /\ gen' = [gen EXCEPT !.step = IF <<s, a>> \in linked THEN "bonus" ELSE "mark"]
    /\ UNCHANGED <<priced, signal, ripe, endorsement, linked, late, reviews, flags, call, broken, crashes, calls>>

PayBonus(s, a) ==
    /\ gen.on = {s} /\ gen.step = "bonus" /\ gen.who = {a}
    /\ Reward(a, Bonus)
    /\ gen' = [gen EXCEPT !.step = "mark"]
    /\ UNCHANGED <<intel, reviews, flags, call, broken, crashes, calls>>

MarkEndorsement(s, a) ==
    /\ gen.on = {s} /\ gen.step = "mark" /\ gen.who = {a}
    /\ endorsement' = [endorsement EXCEPT ![<<s, a>>] = IF gen.win THEN "settled_win"
                                                    ELSE "settled_loss"]
    /\ gen' = [gen EXCEPT !.step = "none", !.who = {}, !.rest = @ \ {a}]
    /\ UNCHANGED <<priced, reputation, signal, ripe, linked, released, late, reviews, flags, call,
                   broken, crashes, calls>>

FinishSignal ==
    /\ gen.op = "settle" /\ gen.on # {} /\ gen.rest = {}
    /\ gen' = [gen EXCEPT !.on = {}, !.correct = FALSE, !.win = FALSE]
    /\ UNCHANGED <<reputation, intel, reviews, flags, call, broken, crashes, calls>>

\* A transaction raises: the cycle counts an error and takes the next signal.
AbandonSignal ==
    /\ gen.op = "settle" /\ gen.on # {} /\ gen.rest # {}
    /\ crashes < MaxCrashes /\ crashes' = crashes + 1
    /\ broken' = broken \cup gen.on
    /\ gen' = [NoWork EXCEPT !.op = "settle", !.todo = gen.todo, !.counted = gen.counted]
    /\ UNCHANGED <<reputation, intel, reviews, flags, call, calls>>

EndWork ==
    /\ gen.op # "none" /\ gen.todo = {} /\ gen.on = {}
    /\ gen' = NoWork
    /\ UNCHANGED <<reputation, intel, reviews, flags, call, broken, crashes, calls>>

-------------------------------------------------------------------------------
(* ReviewMarket: requests, acceptances and reviews in the agents process *)

Reviewers(r) == {a \in Agents : assignment[<<r, a>>] # "none"}
Reviewed(r) == {a \in Agents : assignment[<<r, a>>] = "completed"}
Needed(r) == IF r \in Two THEN 2 ELSE 1
Payment(r) == IF r \in Two THEN Budget \div 2 ELSE Budget

BeginRequest(r) ==
    /\ request[r] = "none" /\ Call(Requester[r])
    /\ Covers(Requester[r], Needed(r) * Budget)
    /\ Begin(Requester[r], "ask", r)
    /\ UNCHANGED <<reputation, intel, reviews, flags, gen, broken, crashes>>

EscrowBudget(r) ==
    LET a == Requester[r]
    IN  /\ InCall(a, "ask", r)
        /\ IF Covers(a, Needed(r) * Budget)
             THEN Escrow(a, Needed(r) * Budget) /\ Advance(a, "asked")
             ELSE End(a) /\ UNCHANGED reputation
        /\ UNCHANGED <<intel, reviews, flags, gen, broken, crashes, calls>>

InsertRequest(r) ==
    /\ InCall(Requester[r], "asked", r)
    /\ request' = [request EXCEPT ![r] = "open"]
    /\ End(Requester[r])
    /\ UNCHANGED <<reputation, intel, stale, assignment, critics, paid, flags, gen, broken,
                   crashes, calls>>

\* accept_review asks how many critics there are, never for the request's status.
AcceptReview(r, a, verdict) ==
    /\ request[r] # "none" /\ Call(a)
    /\ Requester[r] # a
    /\ Cardinality(Reviewers(r)) < Needed(r)
    /\ a \notin Reviewers(r)
    /\ assignment' = [assignment EXCEPT ![<<r, a>>] = "accepted"]
    /\ request' = IF Cardinality(Reviewers(r)) + 1 >= Needed(r)
                  THEN [request EXCEPT ![r] = "assigned"] ELSE request
    /\ call' = [call EXCEPT ![a] = [op |-> "accepted", on |-> {r}, verdict |-> verdict]]
    /\ UNCHANGED <<reputation, intel, stale, critics, paid, flags, gen, broken, crashes>>

\* Mutant: the review counts before its critic is paid.
MarkUnpaidReview(r, a) ==
    /\ InCall(a, "accepted", r) /\ assignment[<<r, a>>] = "accepted"
    /\ assignment' = [assignment EXCEPT ![<<r, a>>] = "completed"]
    /\ Advance(a, "marked")
    /\ UNCHANGED <<reputation, intel, request, stale, critics, paid, flags, gen, broken, crashes, calls>>

\* submit_review: the payment, the review, the critic's statistics with it, and
\* the request once it has all its reviews.
PayCritic(r, a) ==
    /\ InCall(a, "accepted", r) /\ assignment[<<r, a>>] = "accepted"
    /\ Reward(a, Payment(r))
    /\ paid' = [paid EXCEPT ![<<r, a>>] = @ + 1]
    /\ Advance(a, "earned")
    /\ UNCHANGED <<intel, request, stale, assignment, critics, flags, gen, broken, crashes, calls>>

\* _update_critic_stats.
Scored(row, verdict) ==
    [row EXCEPT !.reviews = @ + 1, !.approvals = @ + (IF verdict = "approve" THEN 1 ELSE 0)]

MarkReview(r, a) ==
    /\ InCall(a, "earned", r)
    /\ assignment' = [assignment EXCEPT ![<<r, a>>] = "completed"]
    /\ critics' = [critics EXCEPT ![a] = Scored(@, call[a].verdict)]
    /\ Advance(a, "marked")
    /\ UNCHANGED <<reputation, intel, request, stale, paid, flags, gen, broken, crashes, calls>>

CloseRequest(r, a) ==
    /\ InCall(a, "marked", r)
    /\ request' = IF Cardinality(Reviewed(r)) >= Needed(r)
                  THEN [request EXCEPT ![r] = "completed"] ELSE request
    /\ End(a)
    /\ UNCHANGED <<reputation, intel, stale, assignment, critics, paid, flags, gen, broken,
                   crashes, calls>>

\* The agents process dies: what its calls had committed stays.
CrashAgents ==
    /\ crashes < MaxCrashes /\ crashes' = crashes + 1
    /\ \E a \in Agents : ~Free(a)
    /\ broken' = broken \cup UNION {call[a].on : a \in {x \in Agents : call[x].op = "marked"}}
    /\ call' = [a \in Agents |-> NoCall]
    /\ UNCHANGED <<reputation, intel, reviews, flags, gen, calls>>

-------------------------------------------------------------------------------
(* ReviewMarket: Genesis's hourly maintenance *)

BeginExpiry ==
    LET due == {r \in stale : request[r] = "open"}
    IN  /\ gen.op = "none" /\ due # {}
        /\ gen' = [NoWork EXCEPT !.op = "expire", !.todo = due]
        /\ UNCHANGED <<reputation, intel, reviews, flags, call, broken, crashes, calls>>

\* expire_stale_requests gives the whole budget back, and then writes the status
\* over the one the request has by now.
RefundRequest(r) ==
    /\ gen.op = "expire" /\ gen.on = {} /\ r \in gen.todo
    /\ Release(Requester[r], Needed(r) * Budget)
    /\ gen' = [gen EXCEPT !.on = {r}, !.todo = @ \ {r}]
    /\ UNCHANGED <<intel, reviews, flags, call, broken, crashes, calls>>

ExpireRequest(r) ==
    /\ gen.op = "expire" /\ gen.on = {r}
    /\ request' = [request EXCEPT ![r] = "expired"]
    /\ gen' = [gen EXCEPT !.on = {}]
    /\ UNCHANGED <<reputation, intel, stale, assignment, critics, paid, flags, call, broken,
                   crashes, calls>>

\* check_overdue_assignments: three days after the acceptance.  A critic submits
\* in the same call, within seconds, or never.
ReleaseAssignment(r, a) ==
    /\ gen.op = "none" /\ r \in stale
    /\ assignment[<<r, a>>] = "accepted" /\ r \notin call[a].on
    /\ assignment' = [assignment EXCEPT ![<<r, a>>] = "none"]
    /\ request' = IF request[r] = "assigned" THEN [request EXCEPT ![r] = "open"] ELSE request
    /\ UNCHANGED <<reputation, intel, stale, critics, paid, flags, call, gen, broken, crashes, calls>>

-------------------------------------------------------------------------------
(* GamingDetector: the daily report of Genesis *)

Flag(type, agents, severity) == [type |-> type, agents |-> agents, severity |-> severity]

Endorsed(a, b) == {s \in Signals : Scout[s] = a /\ b \in Endorsers(s)}

\* Most of the one's endorsements, or of the other's signals, are between the two.
WashPairs ==
    {p \in Agents \X Agents :
        LET between == Cardinality(Endorsed(p[1], p[2]))
            made == Cardinality(UNION {Endorsed(a, p[2]) : a \in Agents})
            got == Cardinality({e \in Endorsements : Scout[e[1]] = p[1] /\ e[2] \in Endorsers(e[1])})
        IN  between > WashMin /\ (2 * between > made \/ 2 * between > got)}

WashFlags ==
    {LET pair == {p[1], p[2]}
         again == \E f \in flags : f.type = "wash_trading" /\ f.agents = pair
     IN  Flag("wash_trading", pair, IF again THEN "penalty" ELSE "warning") : p \in WashPairs}

RubberStamps ==
    {Flag("rubber_stamp", {a}, "warning") :
        a \in {x \in Agents : critics[x].reviews >= StampMin
                              /\ 10 * critics[x].approvals > 9 * critics[x].reviews}}

IntelSpam ==
    {Flag("intel_spam", {a}, "warning") :
        a \in {x \in Agents :
            LET mine == {s \in Signals : Scout[s] = x /\ signal[s] # "none"}
            IN  Cardinality(mine) >= SpamMin
                /\ 5 * Cardinality({s \in mine : Endorsers(s) # {}}) < Cardinality(mine)}}

RunDetection ==
    /\ gen.op = "none"
    /\ flags' = flags \cup WashFlags \cup RubberStamps \cup IntelSpam
    /\ flags' # flags
    /\ UNCHANGED <<reputation, intel, reviews, call, gen, broken, crashes, calls>>

CrashGenesis ==
    /\ gen.op # "none"
    /\ crashes < MaxCrashes /\ crashes' = crashes + 1
    /\ broken' = broken \cup gen.on
    /\ gen' = NoWork
    /\ UNCHANGED <<reputation, intel, reviews, flags, call, calls>>

-------------------------------------------------------------------------------

Ripen(s) ==
    /\ signal[s] = "active" /\ s \notin ripe
    /\ ripe' = ripe \cup {s}
    /\ UNCHANGED <<priced, reputation, signal, endorsement, linked, released, late, reviews, flags,
                   call, gen, broken, crashes, calls>>

GoStale(r) ==
    /\ request[r] # "none" /\ r \notin stale
    /\ stale' = stale \cup {r}
    /\ UNCHANGED <<reputation, intel, request, assignment, critics, paid, flags, call, gen,
                   broken, crashes, calls>>

Market(s) ==
    \/ \E price \in BOOLEAN : CreateSignal(s, price)
    \/ \E a \in Agents : BeginEndorse(s, a) \/ LinkTrade(s, a)

Review(r) == BeginRequest(r) \/ \E a \in Agents, v \in {"approve", "reject"} : AcceptReview(r, a, v)

\* The next transaction of the call that a makes.
Proceed(a) ==
    \/ \E s \in Signals : StakeReputation(s, a) \/ InsertEndorsement(s, a)
    \/ \E r \in Requests :
        \/ Requester[r] = a /\ (EscrowBudget(r) \/ InsertRequest(r))
        \/ PayCritic(r, a) \/ MarkReview(r, a) \/ CloseRequest(r, a)

Settle(s) ==
    \/ ExpireUnendorsed(s) \/ DeferSignal(s) \/ FailOnZeroPrice(s)
    \/ \E c \in BOOLEAN : SettleSignal(s, c)
    \/ \E a \in Agents :
        \/ \E win \in BOOLEAN : SettleScout(s, a, win)
        \/ ReleaseStake(s, a) \/ PayBonus(s, a) \/ MarkEndorsement(s, a)

GenesisWork ==
    \/ (\E s \in Signals : Settle(s)) \/ FinishSignal
    \/ (\E r \in Requests : RefundRequest(r) \/ ExpireRequest(r)) \/ EndWork

Maintain == \E r \in Requests, a \in Agents : ReleaseAssignment(r, a)

TimePasses == (\E s \in Signals : Ripen(s)) \/ (\E r \in Requests : GoStale(r))

EconomyNext ==
    \/ (\E s \in Signals : Market(s)) \/ (\E r \in Requests : Review(r))
    \/ (\E a \in Agents : Proceed(a)) \/ CrashAgents
    \/ BeginSettlement \/ BeginExpiry \/ GenesisWork \/ Maintain \/ RunDetection
    \/ AbandonSignal \/ CrashGenesis \/ TimePasses

\* Time passes, a call of an agent ends, Genesis comes round to its settlement
\* and its maintenance every time, and some time a price is to be had.
EconomyFairness ==
    /\ WF_vars(TimePasses)
    /\ \A a \in Agents : WF_vars(Proceed(a))
    /\ SF_vars(BeginSettlement) /\ SF_vars(BeginExpiry) /\ SF_vars(Maintain)
    /\ WF_vars(GenesisWork)
    /\ \A s \in Signals : SF_vars(\E c \in BOOLEAN : SettleSignal(s, c))

EconomySpec == EconomyInit /\ [][EconomyNext]_vars /\ EconomyFairness

-------------------------------------------------------------------------------
(* Properties *)

\* A stake is given back at most once, though settling it takes four
\* transactions and Genesis may die or fail after each of them.
StakesReleasedOnce == \A e \in Endorsements : released[e] <= 1

\* A completed review has been paid for, whatever died in between.
ReviewsArePaid ==
    \A r \in Requests, a \in Agents : assignment[<<r, a>>] = "completed" => paid[<<r, a>>] >= 1

\* A stake on a signal with a price is settled in the end. Only a failure in the
\* middle of its settlement, or an endorsement that was in the making when its
\* signal was taken up, leaves one with a signal that is never settled again.
StakesSettle ==
    \A s \in Signals, a \in Agents :
        (s \in priced /\ endorsement[<<s, a>>] = "pending") ~>
            endorsement[<<s, a>>] # "pending" \/ <<s, a>> \in late \/ s \in broken

===============================================================================
