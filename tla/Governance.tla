------------------------------ MODULE Governance ------------------------------
(***************************************************************************)
(* System improvement proposals (src/src/governance): agents propose to    *)
(* change a parameter, debate and vote; Genesis advances every proposal    *)
(* once per cycle, in one transaction that holds the whole pass and the    *)
(* calls of the API by which it ratifies; the owner decides on the command *)
(* line; the next pass applies what was accepted.                          *)
(*                                                                         *)
(* Agents commit a vote when their cycle ends, Genesis commits when its    *)
(* pass ends, and an exception in a pass undoes all of it.                 *)
(***************************************************************************)
EXTENDS Integers, FiniteSets, FiniteSetsExt, Tally

CONSTANTS
    Sips,
    Voters,       \* ids of agents
    Weight,       \* Weight[v]: vote weight of an agent's prestige title, in halves
    Parameters,   \* the registry
    Seed,         \* Seed[p]: [value, min, max, tier, evaluation, weight]
    Proposals,    \* Proposals[s]: what s may propose, as [key, value]
    None,         \* a proposed_value, an owner_decision or a target that is NULL
    PassAt, StructuralAt,  \* thresholds in percent, by stage
    SipsFor,      \* SipsFor[n]: implemented proposals that stage n takes
    MaxCalls,     \* bound: calls of the agents
    MaxFailures   \* bound: API calls and passes that fail

Stages == 1 .. 4   \* nascent, developing, established, mature

ASSUME GovernanceAssumption ==
    /\ IsFiniteSet(Voters) /\ Voters = 1 .. Cardinality(Voters)
    /\ Weight \in [Voters -> Nat \ {0}]
    /\ Seed \in [Parameters -> [value : Nat, min : Nat, max : Nat, tier : 1 .. 3,
                                evaluation : BOOLEAN, weight : BOOLEAN]]
    /\ \A p \in Parameters : /\ Seed[p].weight => Seed[p].evaluation
                             /\ Seed[p].value \in Seed[p].min .. Seed[p].max
    /\ PassAt \in [Stages -> 1 .. 100] /\ StructuralAt \in [Stages -> 1 .. 100]
    /\ \A n \in Stages : PassAt[n] >= PassAt[1] /\ StructuralAt[n] >= StructuralAt[1]
    /\ SipsFor \in [Stages -> Nat] /\ SipsFor[1] = 0
    /\ None \notin {"accepted", "rejected", "deferred"}
    /\ MaxCalls \in Nat /\ MaxFailures \in Nat

VARIABLES
    sip,       \* SystemImprovementProposal, what initiate_sip and Genesis write
    due,       \* proposals whose debate_ends_at or voting_ends_at has passed
    vote,      \* SIPVote: vote[s][v]
    owner,     \* owner_decision
    value,     \* ParameterRegistryEntry.current_value
    stage,     \* ColonyMaturity.stage
    cycle,     \* the vote an agent's cycle has yet to commit
    work,      \* the pass of Genesis: what its session holds
    accepted,  \* history: proposals the owner has accepted
    calls, failures

vars == <<sip, due, vote, owner, value, stage, cycle, work, accepted,
          calls, failures>>

LifecycleStatus == {"none", "debate", "voting", "tallied", "owner_review", "implementing",
                    "implemented", "expired", "rejected_by_vote", "vetoed_by_genesis",
                    "rejected_by_owner"}
Resolved == {"implemented", "expired", "rejected_by_vote", "vetoed_by_genesis",
             "rejected_by_owner"}

NoSip == [status |-> "none", key |-> None, value |-> None, tier |-> 0,
          support |-> 0, oppose |-> 0, approved |-> FALSE]
Votes == {"none", "support", "oppose"}
Bounds(p) == Seed[p].min .. Seed[p].max
NoWork == [phase |-> "idle"]
NoVote == [on |-> None, by |-> None, as |-> "none"]

GovernanceTypes ==
    /\ \A s \in Sips : sip[s].status \in LifecycleStatus \ {"implementing"}
    /\ due \subseteq Sips
    /\ vote \in [Sips -> [Voters -> Votes]]
    /\ owner \in [Sips -> {None, "accepted", "rejected", "deferred"}]
    /\ \A p \in Parameters : value[p] \in Bounds(p)
    /\ stage \in Stages
    /\ calls \in 0 .. MaxCalls /\ failures \in 0 .. MaxFailures

GovernanceInit ==
    /\ sip = [s \in Sips |-> NoSip]
    /\ due = {}
    /\ vote = [s \in Sips |-> [v \in Voters |-> "none"]]
    /\ owner = [s \in Sips |-> None]
    /\ value = [p \in Parameters |-> Seed[p].value]
    /\ stage = 1
    /\ cycle = NoVote /\ work = NoWork
    /\ accepted = {} /\ calls = 0 /\ failures = 0

-----------------------------------------------------------------------------
(* The registry. *)

Valid(key, x, values) ==
    /\ key \in Parameters
    /\ Seed[key].tier # 3
    /\ x \in Bounds(key)
    /\ x # values[key]

Weights == {p \in Parameters : Seed[p].weight}

Total(values) == FoldSet(LAMBDA p, sum : values[p] + sum, 0, Weights)

(* _validate_eval_weights runs for every evaluation.* key, weight or not. *)
WeightsHold(key, x, values) ==
    Seed[key].evaluation => Total([values EXCEPT ![key] = x]) \in 99 .. 101

-----------------------------------------------------------------------------
(* Agents. *)

Call == calls < MaxCalls /\ calls' = calls + 1

(* initiate_sip: a missing value is checked as 0.0 and stays missing; what the *)
(* registry refuses is rejected without a debate.                              *)
Initiated(p) ==
    LET checked == IF p.value = None THEN 0 ELSE p.value
        opens == p.key = None \/ Valid(p.key, checked, value)
    IN  [NoSip EXCEPT !.status = IF opens THEN "debate" ELSE "rejected_by_vote",
                      !.key = p.key, !.value = p.value,
                      !.tier = IF opens /\ p.key # None THEN Seed[p.key].tier ELSE 0]

ProposeSip(s, p) ==
    /\ Call /\ cycle = NoVote
    /\ sip[s].status = "none"
    /\ \A t \in Sips : sip[t].status = "none" => s = CHOOSE u \in Sips : sip[u].status = "none"
    /\ sip' = [sip EXCEPT ![s] = Initiated(p)]
    /\ UNCHANGED <<due, vote, owner, value, stage, cycle, work, accepted,
                   failures>>

(* An abstention is in neither sum: it is a vote that is not cast. *)
VoteOnSip(s, v, as) ==
    /\ Call /\ cycle = NoVote
    /\ sip[s].status = "voting" /\ vote[s][v] = "none"
    /\ cycle' = [on |-> s, by |-> v, as |-> as]
    /\ UNCHANGED <<sip, due, vote, owner, value, stage, work, accepted,
                   failures>>

(* The end of the cycle: nothing looks at the status of the proposal again. *)
CommitVote ==
    /\ cycle # NoVote
    /\ vote' = [vote EXCEPT ![cycle.on][cycle.by] = cycle.as]
    /\ cycle' = NoVote
    /\ UNCHANGED <<sip, due, owner, value, stage, work, accepted, calls,
                   failures>>

(* A deadline passes. *)
Elapse(s) ==
    /\ sip[s].status \in {"debate", "voting"} /\ s \notin due
    /\ due' = due \union {s}
    /\ UNCHANGED <<sip, vote, owner, value, stage, cycle, work, accepted,
                   calls, failures>>

(* The owner may answer again, until a pass reads the answer; a later one is *)
(* written too, and nothing reads it.                                        *)
OwnerDecides(s, decision) ==
    /\ sip[s].status = "owner_review" /\ owner[s] # decision
    /\ owner' = [owner EXCEPT ![s] = decision]
    /\ accepted' = IF decision = "accepted" THEN accepted \union {s} ELSE accepted
    /\ UNCHANGED <<sip, due, vote, value, stage, cycle, work, calls, failures>>

-----------------------------------------------------------------------------
(* Genesis. *)

Implemented(sips) == Cardinality({s \in Sips : sips[s].status = "implemented"})

(* The age and the generations of the colony allow any stage, the implemented *)
(* proposals some; a stage that was reached is kept.                           *)
Reachable == {n \in stage .. 4 : n = stage \/ Implemented(sip) >= SipsFor[n]}

Sum(s, as) ==
    Tally([v \in Voters |-> IF vote[s][v] = as THEN Weight[v] ELSE 0], Cardinality(Voters))

Threshold(tier, n) == IF tier = 2 THEN StructuralAt[n] ELSE PassAt[n]

Passes(support, oppose, tier, n) ==
    100 * support >= Threshold(tier, n) * (support + oppose)

TallyVotedOnly(s, n) ==
    LET support == Sum(s, "support")  oppose == Sum(s, "oppose")
    IN [sip[s] EXCEPT !.support = support, !.oppose = oppose,
            !.status = IF support + oppose = 0 THEN "voting"
                       ELSE IF Passes(support, oppose, sip[s].tier, n) THEN "tallied"
                       ELSE "rejected_by_vote"]

TallyVotes(s, n) ==
    LET support == Sum(s, "support")  oppose == Sum(s, "oppose")
    IN [sip[s] EXCEPT !.support = support, !.oppose = oppose,
            !.status = IF support + oppose = 0 THEN "expired"
                       ELSE IF Passes(support, oppose, sip[s].tier, n) THEN "tallied"
                       ELSE "rejected_by_vote"]

OwnerSilenceAccepts(s) ==
    IF owner[s] = "rejected" THEN [sip[s] EXCEPT !.status = "rejected_by_owner"]
    ELSE [sip[s] EXCEPT !.status = "implementing"]

OwnerDecision(s) ==
    CASE owner[s] = "accepted" -> [sip[s] EXCEPT !.status = "implementing"]
      [] owner[s] = "rejected" -> [sip[s] EXCEPT !.status = "rejected_by_owner"]
      [] OTHER -> sip[s]

Advanced(s, n) ==
    CASE sip[s].status = "debate" /\ s \in due -> [sip[s] EXCEPT !.status = "voting"]
      [] sip[s].status = "voting" /\ s \in due -> TallyVotes(s, n)
      [] sip[s].status = "owner_review" -> OwnerDecision(s)
      [] OTHER -> sip[s]

(* Maturity first, then every proposal by its status; the implementations and *)
(* the ratifications of the same pass follow one by one.  A pass that finds   *)
(* nothing to do is left out.                                                 *)
BeginPass ==
    /\ work = NoWork
    /\ \E s \in Sips : Advanced(s, stage) # sip[s] \/ sip[s].status = "tallied"
    /\ \E n \in Reachable :
       LET sips == [s \in Sips |-> Advanced(s, n)]
       IN work' = [phase |-> "implement", sips |-> sips, values |-> value, stage |-> n,
                   read |-> {s \in Sips : sip[s].status # "none"},
                   todo |-> {s \in Sips : sips[s].status = "implementing"}]
    /\ UNCHANGED <<sip, due, vote, owner, value, stage, cycle, accepted,
                   calls, failures>>

Jams(s) ==
    /\ sip[s].key \in Parameters /\ Seed[sip[s].key].tier # 3
    /\ sip[s].value = None /\ sip[s].status = "owner_review" /\ owner[s] = "accepted"

(* Comparing a missing value with the bounds raises TypeError: nobody catches *)
(* it before the transaction is undone.                                       *)
ImplementFails(s) ==
    /\ work.phase = "implement" /\ s \in work.todo
    /\ work.sips[s].key \in Parameters /\ work.sips[s].value = None
    /\ work' = NoWork
    /\ UNCHANGED <<sip, due, vote, owner, value, stage, cycle, accepted,
                   calls, failures>>

(* ImplementSip with the weights checked against the registry as the pass found it. *)
ImplementOnOldWeights(s) ==
    /\ work.phase = "implement" /\ s \in work.todo
    /\ LET p == work.sips[s]
           applies == /\ Valid(p.key, p.value, work.values)
                      /\ WeightsHold(p.key, p.value, value)
       IN /\ p.key \in Parameters => p.value # None
          /\ work' = [work EXCEPT
                 !.todo = @ \ {s},
                 !.sips[s].status = IF p.key = None \/ applies THEN "implemented" ELSE "expired",
                 !.values = IF p.key # None /\ applies THEN [@ EXCEPT ![p.key] = p.value] ELSE @]
    /\ UNCHANGED <<sip, due, vote, owner, value, stage, cycle, accepted,
                   calls, failures>>

ImplementSip(s) ==
    /\ work.phase = "implement" /\ s \in work.todo
    /\ LET p == work.sips[s]
           applies == /\ Valid(p.key, p.value, work.values)
                      /\ WeightsHold(p.key, p.value, work.values)
       IN /\ p.key \in Parameters => p.value # None
          /\ work' = [work EXCEPT
                 !.todo = @ \ {s},
                 !.sips[s].status = IF p.key = None \/ applies THEN "implemented" ELSE "expired",
                 !.values = IF p.key # None /\ applies THEN [@ EXCEPT ![p.key] = p.value] ELSE @]
    /\ UNCHANGED <<sip, due, vote, owner, value, stage, cycle, accepted,
                   calls, failures>>

(* _review_tallied_sips takes up to two of the tallied proposals. *)
BeginReview ==
    /\ work.phase = "implement" /\ work.todo = {}
    /\ LET tallied == {s \in Sips : work.sips[s].status = "tallied"}
       IN \E some \in SUBSET tallied :
            /\ Cardinality(some) = Min({2, Cardinality(tallied)})
            /\ work' = [work EXCEPT !.phase = "review", !.todo = some]
    /\ UNCHANGED <<sip, due, vote, owner, value, stage, cycle, accepted,
                   calls, failures>>

ReviewSip(s, ratify) ==
    /\ work.phase = "review" /\ s \in work.todo
    /\ work' = [work EXCEPT !.todo = @ \ {s},
                            !.sips[s].approved = ratify,
                            !.sips[s].status = IF ratify THEN "owner_review"
                                               ELSE "vetoed_by_genesis"]
    /\ UNCHANGED <<sip, due, vote, owner, value, stage, cycle, accepted,
                   calls, failures>>

(* An API call that fails is logged; the proposal stays tallied. *)
ReviewFails(s) ==
    /\ failures < MaxFailures /\ failures' = failures + 1
    /\ work.phase = "review" /\ s \in work.todo
    /\ work' = [work EXCEPT !.todo = @ \ {s}]
    /\ UNCHANGED <<sip, due, vote, owner, value, stage, cycle, accepted,
                   calls>>

(* A new debate or vote has a new deadline. *)
CommitPass ==
    /\ work.phase = "review" /\ work.todo = {}
    /\ sip' = [s \in Sips |-> IF s \in work.read THEN work.sips[s] ELSE sip[s]]
    /\ due' = {s \in due : sip'[s].status = sip[s].status}
    /\ value' = work.values
    /\ stage' = work.stage
    /\ work' = NoWork
    /\ UNCHANGED <<vote, owner, cycle, accepted, calls, failures>>

(* An outage of the database, or the death of Genesis, in a pass. *)
AbandonPass ==
    /\ failures < MaxFailures /\ failures' = failures + 1
    /\ work # NoWork
    /\ work' = NoWork
    /\ UNCHANGED <<sip, due, vote, owner, value, stage, cycle, accepted,
                   calls>>

GenesisStep ==
    \/ BeginPass \/ BeginReview \/ CommitPass
    \/ \E s \in Sips : ImplementSip(s) \/ ImplementFails(s) \/ \E r \in BOOLEAN : ReviewSip(s, r)

GovernanceNext ==
    \/ \E s \in Sips :
        \/ \E p \in Proposals[s] : ProposeSip(s, p)
        \/ \E v \in Voters, as \in {"support", "oppose"} : VoteOnSip(s, v, as)
        \/ Elapse(s)
        \/ \E d \in {"accepted", "rejected", "deferred"} : OwnerDecides(s, d)
        \/ ReviewFails(s)
    \/ CommitVote \/ GenesisStep \/ AbandonPass

(* Deadlines pass, and Genesis runs its cycle; nobody has to vote or decide. *)
GovernanceSpec ==
    /\ GovernanceInit /\ [][GovernanceNext]_vars
    /\ WF_vars(GenesisStep)
    /\ \A s \in Sips : WF_vars(Elapse(s))

-----------------------------------------------------------------------------
(* A parameter changes only to the value of a proposal that passed its vote  *)
(* by the threshold of its tier, that Genesis ratified and that the owner    *)
(* has accepted, and never if it is forbidden: whatever is committed while   *)
(* the votes are counted, the API is asked or the owner makes up its mind.   *)
ApprovedChangesOnly ==
    [][\A p \in Parameters : value'[p] # value[p] =>
        /\ Seed[p].tier # 3
        /\ \E s \in Sips :
            /\ sip'[s].status = "implemented" /\ sip[s].status = "owner_review"
            /\ sip[s].key = p /\ value'[p] = sip[s].value
            /\ sip[s].approved /\ s \in accepted
            /\ sip[s].support > 0
            /\ 100 * sip[s].support >=
                 (IF Seed[p].tier = 2 THEN StructuralAt[1] ELSE PassAt[1])
                    * (sip[s].support + sip[s].oppose)]_vars

(* Once proposals have changed an evaluation weight the weights add up to    *)
(* one, within a hundredth, however many of them one pass implements.        *)
WeightsAddUp ==
    (\E p \in Weights : value[p] # Seed[p].value) => Total(value) \in 99 .. 101

(* What the agents started ends or comes before the owner, and what the      *)
(* owner decided takes effect, unless the owner withdraws it - or a proposal *)
(* without a value has been accepted: from then on every pass is undone, for *)
(* that proposal and for all the others.                                     *)
SipsProgress ==
    \A s \in Sips :
        /\ sip[s].status = "debate" ~>
             sip[s].status \in Resolved \union {"owner_review"} \/ \E t \in Sips : Jams(t)
        /\ sip[s].status = "owner_review" /\ owner[s] \in {"accepted", "rejected"} ~>
             sip[s].status \in Resolved \/ owner[s] = "deferred" \/ \E t \in Sips : Jams(t)

===============================================================================
